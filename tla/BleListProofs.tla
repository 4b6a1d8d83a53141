--------------------------- MODULE BleListProofs ---------------------------
(***************************************************************************)
(* The operations of ble_list.c are those on sequences that HciTransport   *)
(* has in their place, for lists of any length, and each leaves the other  *)
(* lists alone.                                                            *)
(***************************************************************************)
EXTENDS BleList, SequenceTheorems, TLAPS

-----------------------------------------------------------------------------
(* The cells of a list.                                                    *)

\* Every cell from the head (index 0) to the last packet is another one.
LEMMA CellsDiffer ==
  ASSUME NEW head \in Cells, NEW s \in Packets(head),
         NEW i \in 0..Len(s), NEW j \in 0..Len(s), Cell(head, s, i) = Cell(head, s, j)
  PROVE  i = j
  BY LenProperties DEF Cell, Packets

LEMMA CellsAreCells ==
  ASSUME NEW head \in Cells, NEW s \in Packets(head), NEW i \in Nat
  PROVE  Cell(head, s, i) \in Cells
  BY ElementOfSeq, LenProperties DEF Cell, Packets

\* The cells from the head to the last packet make up the list's footprint.
LEMMA FootprintCells ==
  ASSUME NEW head \in Cells, NEW s \in Packets(head)
  PROVE  /\ Footprint(head, s) = {Cell(head, s, i) : i \in 0..Len(s)}
         /\ Footprint(head, s) \subseteq Cells
         /\ \A i \in Nat : Cell(head, s, i) \in Footprint(head, s)
  <1>1. Len(s) \in Nat
    BY LenProperties DEF Packets
  <1>2. \A i \in 1..Len(s) : Cell(head, s, i) = s[i]
    BY DEF Cell
  <1>3. \A i \in Nat : i \notin 1..Len(s) => Cell(head, s, i) = head
    BY DEF Cell
  <1>4. Cell(head, s, 0) = head
    BY <1>1, <1>3
  <1>5. Footprint(head, s) \subseteq {Cell(head, s, i) : i \in 0..Len(s)}
    BY <1>1, <1>2, <1>4 DEF Footprint
  <1>6. \A i \in Nat : Cell(head, s, i) \in Footprint(head, s)
    BY <1>2, <1>3 DEF Footprint
  <1>7. Footprint(head, s) \subseteq Cells
    BY <1>1, ElementOfSeq DEF Footprint, Packets
  <1>8. QED
    BY <1>1, <1>5, <1>6, <1>7

-----------------------------------------------------------------------------
(* Making a list, and looking whether it is empty.                         *)

\* list_init_head makes an empty list of any cell.
THEOREM InitIsEmpty ==
  ASSUME NEW m \in Memory, NEW head \in Cells
  PROVE  Holds(list_init_head(m, head), head, <<>>)
  BY DEF Holds, Packets, Cell, list_init_head, Memory

\* list_is_empty tells whether a list has no packet.
THEOREM EmptyIsEmpty ==
  ASSUME NEW m, NEW head \in Cells, NEW s, Holds(m, head, s)
  PROVE  list_is_empty(m, head) <=> s = <<>>
  <1>1. s \in Seq(Cells) /\ Len(s) \in Nat
    BY LenProperties DEF Holds, Packets
  <1>2. m.next[head] = Cell(head, s, 1)
    <2>1. m.next[Cell(head, s, 0)] = Cell(head, s, 0 + 1)
      BY <1>1 DEF Holds
    <2>2. QED
      BY <2>1 DEF Cell
  <1>3. CASE s = <<>>
    BY <1>2, <1>3 DEF Cell, list_is_empty
  <1>4. CASE s # <<>>
    <2>1. 1 \in 1..Len(s)
      BY <1>1, <1>4, EmptySeq
    <2>2. s[1] # head
      BY <2>1 DEF Holds, Packets
    <2>3. QED
      BY <1>2, <1>4, <2>1, <2>2 DEF Cell, list_is_empty
  <1>5. QED
    BY <1>3, <1>4

-----------------------------------------------------------------------------
(* Putting a packet in.                                                    *)

\* list_insert_tail appends a packet that is in no list.
THEOREM InsertTailAppends ==
  ASSUME NEW m \in Memory, NEW head \in Cells, NEW s, Holds(m, head, s),
         NEW node \in Cells, node \notin Footprint(head, s)
  PROVE  Holds(list_insert_tail(m, head, node), head, Append(s, node))
  <1> DEFINE t == Append(s, node)
             n == list_insert_tail(m, head, node)
             last == Cell(head, s, Len(s))
  <1>1. /\ s \in Seq(Cells) /\ s \in Packets(head) /\ Len(s) \in Nat
        /\ \A i \in 1..Len(s) : s[i] \in Cells /\ s[i] # head /\ s[i] # node
        /\ \A i, j \in 1..Len(s) : s[i] = s[j] => i = j
        /\ node # head
    BY ElementOfSeq, LenProperties DEF Holds, Packets, Footprint
  <1>2. /\ t \in Seq(Cells) /\ Len(t) = Len(s) + 1 /\ t[Len(s) + 1] = node
        /\ \A i \in 1..Len(s) : t[i] = s[i]
    BY <1>1, AppendProperties
  <1> SUFFICES Holds(n, head, t)
    OBVIOUS
  <1> HIDE DEF t
  <1>3. t \in Packets(head)
    BY <1>1, <1>2 DEF Packets
  <1>4. /\ \A i \in 0..Len(s) : Cell(head, t, i) = Cell(head, s, i)
        /\ Cell(head, t, Len(s) + 1) = node
        /\ Cell(head, t, Len(s) + 2) = head
        /\ Cell(head, s, Len(s) + 1) = head
    BY <1>1, <1>2 DEF Cell
  <1>5. /\ last \in Cells /\ last # node /\ m.prev[head] = last
        /\ \A i \in 0..Len(s) : Cell(head, s, i) = last => i = Len(s)
    <2>1. Len(s) \in 0..Len(s) /\ last \in Cells
      BY <1>1, CellsAreCells
    <2>2. last # node
      BY <1>1 DEF Cell
    <2>3. m.prev[Cell(head, s, Len(s) + 1)] = last
      BY <2>1 DEF Holds
    <2>4. \A i \in 0..Len(s) : Cell(head, s, i) = last => i = Len(s)
      BY <1>1, <2>1, CellsDiffer
    <2>5. QED
      BY <1>4, <2>1, <2>2, <2>3, <2>4
  <1>6. /\ n.next[last] = node /\ n.next[node] = head
        /\ n.prev[node] = last /\ n.prev[head] = node
        /\ \A c \in Cells : c # last /\ c # node => n.next[c] = m.next[c]
        /\ \A c \in Cells : c # head /\ c # node => n.prev[c] = m.prev[c]
    BY <1>1, <1>5 DEF list_insert_tail, Memory
  <1>7. ASSUME NEW i \in 0..Len(t)
        PROVE  /\ n.next[Cell(head, t, i)] = Cell(head, t, i + 1)
               /\ n.prev[Cell(head, t, i + 1)] = Cell(head, t, i)
    <2>1. CASE i < Len(s)
      <3>1. i \in 0..Len(s) /\ i + 1 \in 0..Len(s) /\ i + 1 \in 1..Len(s)
        BY <1>1, <2>1
      <3>2. /\ Cell(head, s, i) \in Cells /\ Cell(head, s, i) # node
            /\ Cell(head, s, i) # last
            /\ Cell(head, s, i + 1) = s[i + 1]
        BY <1>1, <1>5, <2>1, <3>1, CellsAreCells DEF Cell
      <3>3. /\ m.next[Cell(head, s, i)] = Cell(head, s, i + 1)
            /\ m.prev[Cell(head, s, i + 1)] = Cell(head, s, i)
        BY <3>1 DEF Holds
      <3>4. QED
        BY <1>1, <1>4, <1>6, <3>1, <3>2, <3>3
    <2>2. CASE i = Len(s)
      BY <1>1, <1>4, <1>6, <2>2
    <2>3. CASE i = Len(s) + 1
      BY <1>1, <1>4, <1>6, <2>3
    <2>4. QED
      BY <1>1, <1>2, <2>1, <2>2, <2>3
  <1> HIDE DEF n
  <1>8. QED
    BY <1>3, <1>7 DEF Holds

\* list_insert_head puts it first.
THEOREM InsertHeadPrepends ==
  ASSUME NEW m \in Memory, NEW head \in Cells, NEW s, Holds(m, head, s),
         NEW node \in Cells, node \notin Footprint(head, s)
  PROVE  Holds(list_insert_head(m, head, node), head, <<node>> \o s)
  <1> DEFINE t == <<node>> \o s
             n == list_insert_head(m, head, node)
             first == Cell(head, s, 1)
  <1>1. /\ s \in Seq(Cells) /\ s \in Packets(head) /\ Len(s) \in Nat
        /\ \A i \in 1..Len(s) : s[i] \in Cells /\ s[i] # head /\ s[i] # node
        /\ \A i, j \in 1..Len(s) : s[i] = s[j] => i = j
        /\ node # head
    BY ElementOfSeq, LenProperties DEF Holds, Packets, Footprint
  <1>2. /\ t \in Seq(Cells) /\ Len(t) = Len(s) + 1 /\ t[1] = node
        /\ \A i \in 2..(Len(s) + 1) : t[i] = s[i - 1]
    BY <1>1, ConcatProperties
  <1> SUFFICES Holds(n, head, t)
    OBVIOUS
  <1> HIDE DEF t
  <1>3. t \in Packets(head)
    <2>1. \A i \in 1..Len(t) :
             i = 1 \/ (i \in 2..(Len(s) + 1) /\ i - 1 \in 1..Len(s) /\ t[i] = s[i - 1])
      BY <1>1, <1>2
    <2>2. \A i \in 1..Len(t) : t[i] # head
      BY <1>1, <1>2, <2>1
    <2>3. ASSUME NEW i \in 1..Len(t), NEW j \in 1..Len(t), t[i] = t[j]
          PROVE  i = j
      <3>1. CASE i = 1 \/ j = 1
        BY <1>1, <1>2, <2>1, <2>3, <3>1
      <3>2. CASE i # 1 /\ j # 1
        <4>1. i - 1 = j - 1
          BY <1>1, <2>1, <2>3, <3>2
        <4>2. QED
          BY <1>1, <1>2, <4>1
      <3>3. QED
        BY <3>1, <3>2
    <2>4. QED
      BY <1>2, <2>2, <2>3 DEF Packets
  <1>4. /\ \A i \in 2..(Len(s) + 2) : Cell(head, t, i) = Cell(head, s, i - 1)
        /\ Cell(head, t, 1) = node
        /\ Cell(head, t, 0) = head
        /\ Cell(head, s, 0) = head
    <2>1. ASSUME NEW i \in 2..(Len(s) + 2)
          PROVE  Cell(head, t, i) = Cell(head, s, i - 1)
      <3>1. CASE i \in 2..(Len(s) + 1)
        BY <1>1, <1>2, <3>1 DEF Cell
      <3>2. CASE i = Len(s) + 2
        BY <1>1, <1>2, <3>2 DEF Cell
      <3>3. QED
        BY <1>1, <3>1, <3>2
    <2>2. /\ Cell(head, t, 1) = node
          /\ Cell(head, t, 0) = head
          /\ Cell(head, s, 0) = head
      BY <1>1, <1>2 DEF Cell
    <2>3. QED
      BY <2>1, <2>2
  <1>5. /\ first \in Cells /\ first # node /\ m.next[head] = first
        /\ \A i \in 1..Len(s) : Cell(head, s, i + 1) = first => FALSE
    <2>1. first \in Cells
      BY <1>1, CellsAreCells
    <2>2. first # node
      BY <1>1 DEF Cell
    <2>3. m.next[head] = first
      <3>1. 0 \in 0..Len(s)
        BY <1>1
      <3>2. m.next[Cell(head, s, 0)] = Cell(head, s, 0 + 1)
        BY <3>1 DEF Holds
      <3>3. QED
        BY <1>4, <3>2
    <2>4. \A i \in 1..Len(s) : Cell(head, s, i + 1) = first => FALSE
      BY <1>1 DEF Cell
    <2>5. QED
      BY <2>1, <2>2, <2>3, <2>4
  <1>6. /\ n.next[head] = node /\ n.next[node] = first
        /\ n.prev[node] = head /\ n.prev[first] = node
        /\ \A c \in Cells : c # head /\ c # node => n.next[c] = m.next[c]
        /\ \A c \in Cells : c # first /\ c # node => n.prev[c] = m.prev[c]
    BY <1>1, <1>5 DEF list_insert_head, Memory
  <1>7. ASSUME NEW i \in 0..Len(t)
        PROVE  /\ n.next[Cell(head, t, i)] = Cell(head, t, i + 1)
               /\ n.prev[Cell(head, t, i + 1)] = Cell(head, t, i)
    <2>1. CASE i = 0
      BY <1>4, <1>6, <2>1
    <2>2. CASE i = 1
      BY <1>1, <1>4, <1>6, <2>2
    <2>3. CASE i > 1
      <3>1. i - 1 \in 0..Len(s) /\ i - 1 \in 1..Len(s) /\ (i - 1) + 1 = i
        BY <1>1, <1>2, <2>3
      <3>2. /\ Cell(head, s, i - 1) = s[i - 1]
            /\ Cell(head, s, i) \in Cells /\ Cell(head, s, i) # node
            /\ Cell(head, s, i) # first
        BY <1>1, <1>5, <3>1, CellsAreCells DEF Cell
      <3>3. /\ m.next[Cell(head, s, i - 1)] = Cell(head, s, i)
            /\ m.prev[Cell(head, s, i)] = Cell(head, s, i - 1)
        BY <3>1 DEF Holds
      <3>4. /\ Cell(head, t, i) = Cell(head, s, i - 1)
            /\ Cell(head, t, i + 1) = Cell(head, s, i)
        BY <1>1, <1>2, <1>4, <2>3
      <3>5. QED
        BY <1>1, <1>6, <3>1, <3>2, <3>3, <3>4
    <2>4. QED
      BY <1>1, <1>2, <2>1, <2>2, <2>3
  <1> HIDE DEF n
  <1>8. QED
    BY <1>3, <1>7 DEF Holds

-----------------------------------------------------------------------------
(* Taking a packet out.                                                    *)

\* list_remove_head takes the first packet of a list that has one, and unlinks it.
THEOREM RemoveHeadTakesFirst ==
  ASSUME NEW m \in Memory, NEW head \in Cells, NEW s, Holds(m, head, s), s # <<>>
  PROVE  /\ list_remove_head(m, head).node = s[1]
         /\ Holds(list_remove_head(m, head).mem, head, Tail(s))
  <1> DEFINE t == Tail(s)
             n == list_remove_head(m, head).mem
             node == s[1]
             second == Cell(head, s, 2)
  <1>1. /\ s \in Seq(Cells) /\ s \in Packets(head) /\ Len(s) \in Nat \ {0}
        /\ \A i \in 1..Len(s) : s[i] \in Cells /\ s[i] # head
        /\ \A i, j \in 1..Len(s) : s[i] = s[j] => i = j
    BY ElementOfSeq, LenProperties, EmptySeq DEF Holds, Packets
  <1>2. /\ t \in Seq(Cells) /\ Len(t) = Len(s) - 1
        /\ \A i \in 1..Len(t) : t[i] = s[i + 1]
    BY <1>1, HeadTailProperties
  <1>3. /\ m.next[head] = node /\ m.prev[node] = head
        /\ m.next[node] = second /\ m.prev[second] = node
    <2>1. Cell(head, s, 0) = head /\ Cell(head, s, 1) = node
      BY <1>1 DEF Cell
    <2>2. 0 \in 0..Len(s) /\ 1 \in 0..Len(s) /\ 0 + 1 = 1 /\ 1 + 1 = 2
      BY <1>1
    <2>3. QED
      BY <2>1, <2>2 DEF Holds
  <1>4. node \in Cells /\ node # head /\ second \in Cells /\ second # node
    <2>1. second = head \/ (2 \in 1..Len(s) /\ second = s[2])
      BY <1>1 DEF Cell
    <2>2. QED
      BY <1>1, <2>1
  <1>5. /\ list_remove_head(m, head).node = node
        /\ n.next[head] = second /\ n.prev[second] = head
        /\ \A c \in Cells : c # head /\ c # node => n.next[c] = m.next[c]
        /\ \A c \in Cells : c # second /\ c # node => n.prev[c] = m.prev[c]
    BY <1>3, <1>4 DEF list_remove_head, list_remove_node, Cleared, Memory
  <1> SUFFICES Holds(n, head, t)
    BY <1>5
  <1> HIDE DEF t, n, second
  <1>6. t \in Packets(head)
    <2>1. \A i \in 1..Len(t) : i + 1 \in 1..Len(s) /\ t[i] = s[i + 1]
      BY <1>1, <1>2
    <2>2. \A i \in 1..Len(t) : t[i] # head
      BY <1>1, <2>1
    <2>3. ASSUME NEW i \in 1..Len(t), NEW j \in 1..Len(t), t[i] = t[j]
          PROVE  i = j
      <3>1. i + 1 = j + 1
        BY <1>1, <2>1, <2>3
      <3>2. QED
        BY <1>1, <1>2, <3>1
    <2>4. QED
      BY <1>2, <2>2, <2>3 DEF Packets
  <1>7. /\ Cell(head, t, 0) = head
        /\ \A i \in 1..Len(s) : Cell(head, t, i) = Cell(head, s, i + 1)
    BY <1>1, <1>2 DEF Cell
  <1>8. ASSUME NEW i \in 0..Len(t)
        PROVE  /\ n.next[Cell(head, t, i)] = Cell(head, t, i + 1)
               /\ n.prev[Cell(head, t, i + 1)] = Cell(head, t, i)
    <2>1. CASE i = 0
      <3>1. Cell(head, t, i) = head /\ Cell(head, t, i + 1) = second
        BY <1>1, <1>7, <2>1 DEF second
      <3>2. QED
        BY <1>5, <3>1
    <2>2. CASE i > 0
      <3>1. /\ i \in 1..Len(s) /\ i + 1 \in 1..Len(s) /\ i + 1 \in 0..Len(s)
            /\ (i + 1) + 1 \in 1..(Len(s) + 1)
        BY <1>1, <1>2, <2>2
      <3>2. Cell(head, s, i + 1) = s[i + 1] /\ s[i + 1] # node /\ s[i + 1] # head
        BY <1>1, <2>2, <3>1 DEF Cell
      <3>3. /\ Cell(head, s, (i + 1) + 1) \in Cells
            /\ Cell(head, s, (i + 1) + 1) # node
            /\ Cell(head, s, (i + 1) + 1) # second
        <4>1. second = s[2] /\ 2 \in 1..Len(s)
          BY <1>1, <2>2, <3>1 DEF Cell, second
        <4>2. CASE (i + 1) + 1 \in 1..Len(s)
          BY <1>1, <2>2, <4>1, <4>2 DEF Cell
        <4>3. CASE (i + 1) + 1 \notin 1..Len(s)
          BY <1>1, <1>4, <4>1, <4>3 DEF Cell
        <4>4. QED
          BY <4>2, <4>3
      <3>4. /\ m.next[Cell(head, s, i + 1)] = Cell(head, s, (i + 1) + 1)
            /\ m.prev[Cell(head, s, (i + 1) + 1)] = Cell(head, s, i + 1)
        BY <3>1 DEF Holds
      <3>5. /\ Cell(head, t, i) = Cell(head, s, i + 1)
            /\ Cell(head, t, i + 1) = Cell(head, s, (i + 1) + 1)
        BY <1>7, <3>1
      <3>6. QED
        BY <1>1, <1>5, <3>1, <3>2, <3>3, <3>4, <3>5
    <2>3. QED
      BY <1>1, <1>2, <2>1, <2>2
  <1>9. QED
    BY <1>6, <1>8 DEF Holds

\* What all but the last packet of a sequence are.
LEMMA AllButLast ==
  ASSUME NEW S, NEW s, s \in Seq(S), s # <<>>
  PROVE  /\ SubSeq(s, 1, Len(s) - 1) \in Seq(S)
         /\ Len(SubSeq(s, 1, Len(s) - 1)) = Len(s) - 1
         /\ \A i \in 1..(Len(s) - 1) : SubSeq(s, 1, Len(s) - 1)[i] = s[i]
  <1> DEFINE t == SubSeq(s, 1, Len(s) - 1)
             n == Len(s)
  <1>1. n \in Nat \ {0}
    BY EmptySeq
  <1>2. \A i \in 1..(n - 1) : s[i] \in S
    BY <1>1, ElementOfSeq
  <1> HIDE DEF t, n
  <1>3. 1 \in Int /\ n - 1 \in Int
    BY <1>1
  <1>4. /\ t \in Seq(S)
        /\ Len(t) = IF 1 <= n - 1 THEN (n - 1) - 1 + 1 ELSE 0
        /\ \A i \in 1..((n - 1) - 1 + 1) : t[i] = s[1 + i - 1]
    BY <1>2, <1>3, SubSeqProperties DEF t, n
  <1>5. Len(t) = n - 1
    BY <1>1, <1>4
  <1>6. ASSUME NEW i \in 1..(n - 1)
        PROVE  t[i] = s[i]
    <2>1. i \in 1..((n - 1) - 1 + 1) /\ 1 + i - 1 = i
      BY <1>1
    <2>2. QED
      BY <1>4, <2>1
  <1>7. QED
    BY <1>4, <1>5, <1>6 DEF t, n

\* list_remove_tail takes the last one; what stays is all but the last.
THEOREM RemoveTailTakesLast ==
  ASSUME NEW m \in Memory, NEW head \in Cells, NEW s, Holds(m, head, s), s # <<>>
  PROVE  /\ list_remove_tail(m, head).node = s[Len(s)]
         /\ Holds(list_remove_tail(m, head).mem, head, SubSeq(s, 1, Len(s) - 1))
  <1> DEFINE t == SubSeq(s, 1, Len(s) - 1)
             n == list_remove_tail(m, head).mem
             node == s[Len(s)]
             before == Cell(head, s, Len(s) - 1)
  <1>1. /\ s \in Seq(Cells) /\ s \in Packets(head) /\ Len(s) \in Nat \ {0}
        /\ \A i \in 1..Len(s) : s[i] \in Cells /\ s[i] # head
        /\ \A i, j \in 1..Len(s) : s[i] = s[j] => i = j
    BY ElementOfSeq, LenProperties, EmptySeq DEF Holds, Packets
  <1> HIDE DEF t
  <1>2. /\ t \in Seq(Cells) /\ Len(t) = Len(s) - 1
        /\ \A i \in 1..Len(t) : t[i] = s[i]
    BY <1>1, AllButLast DEF t
  <1>3. /\ m.prev[head] = node /\ m.next[node] = head
        /\ m.prev[node] = before /\ m.next[before] = node
    <2>1. Cell(head, s, Len(s)) = node /\ Cell(head, s, Len(s) + 1) = head
      BY <1>1 DEF Cell
    <2>2. Len(s) \in 0..Len(s) /\ Len(s) - 1 \in 0..Len(s) /\ (Len(s) - 1) + 1 = Len(s)
      BY <1>1
    <2>3. QED
      BY <2>1, <2>2 DEF Holds
  <1>4. /\ node \in Cells /\ node # head /\ before \in Cells /\ before # node
        /\ \A i \in 0..(Len(s) - 2) : Cell(head, s, i) # before
    <2>1. before = head \/ (Len(s) - 1 \in 1..Len(s) /\ before = s[Len(s) - 1])
      BY <1>1 DEF Cell
    <2>2. \A i \in 0..(Len(s) - 2) : Cell(head, s, i) = before => i = Len(s) - 1
      <3>1. Len(s) - 1 \in 0..Len(s) /\ \A i \in 0..(Len(s) - 2) : i \in 0..Len(s)
        BY <1>1
      <3>2. QED
        BY <1>1, <3>1, CellsDiffer
    <2>3. QED
      BY <1>1, <2>1, <2>2
  <1>5. /\ list_remove_tail(m, head).node = node
        /\ n.next[before] = head /\ n.prev[head] = before
        /\ \A c \in Cells : c # before /\ c # node => n.next[c] = m.next[c]
        /\ \A c \in Cells : c # head /\ c # node => n.prev[c] = m.prev[c]
    BY <1>3, <1>4 DEF list_remove_tail, list_remove_node, Cleared, Memory
  <1> SUFFICES Holds(n, head, t)
    BY <1>5 DEF t
  <1> HIDE DEF n, before
  <1>6. t \in Packets(head)
    BY <1>1, <1>2 DEF Packets
  <1>7. /\ \A i \in 0..(Len(s) - 1) : Cell(head, t, i) = Cell(head, s, i)
        /\ Cell(head, t, Len(s)) = head
    BY <1>1, <1>2 DEF Cell
  <1>8. ASSUME NEW i \in 0..Len(t)
        PROVE  /\ n.next[Cell(head, t, i)] = Cell(head, t, i + 1)
               /\ n.prev[Cell(head, t, i + 1)] = Cell(head, t, i)
    <2>1. CASE i = Len(s) - 1
      <3>1. Cell(head, t, i) = before /\ Cell(head, t, i + 1) = head
        BY <1>1, <1>7, <2>1 DEF before
      <3>2. QED
        BY <1>5, <3>1
    <2>2. CASE i < Len(s) - 1
      <3>1. /\ i \in 0..(Len(s) - 2) /\ i \in 0..(Len(s) - 1) /\ i \in 0..Len(s)
            /\ i + 1 \in 1..Len(s) /\ i + 1 \in 0..(Len(s) - 1) /\ i + 1 # Len(s)
        BY <1>1, <1>2, <2>2
      <3>2. /\ Cell(head, s, i) \in Cells /\ Cell(head, s, i) # before
            /\ Cell(head, s, i) # node
        BY <1>1, <1>4, <3>1, CellsAreCells DEF Cell
      <3>3. Cell(head, s, i + 1) = s[i + 1] /\ s[i + 1] # node /\ s[i + 1] # head
        BY <1>1, <3>1 DEF Cell
      <3>4. /\ m.next[Cell(head, s, i)] = Cell(head, s, i + 1)
            /\ m.prev[Cell(head, s, i + 1)] = Cell(head, s, i)
        BY <3>1 DEF Holds
      <3>5. /\ Cell(head, t, i) = Cell(head, s, i)
            /\ Cell(head, t, i + 1) = Cell(head, s, i + 1)
        BY <1>7, <3>1
      <3>6. QED
        BY <1>1, <1>5, <3>1, <3>2, <3>3, <3>4, <3>5
    <2>3. QED
      BY <1>1, <1>2, <2>1, <2>2
  <1>9. QED
    BY <1>6, <1>8 DEF Holds

-----------------------------------------------------------------------------
(* The other lists.                                                        *)

\* A list stands for the same packets as long as nobody writes to its own cells.
LEMMA HoldsCarriesOver ==
  ASSUME NEW m, NEW n, NEW k \in Cells, NEW t, Holds(m, k, t),
         \A c \in Footprint(k, t) : n.next[c] = m.next[c] /\ n.prev[c] = m.prev[c]
  PROVE  Holds(n, k, t)
  <1>1. t \in Packets(k) /\ Len(t) \in Nat
    BY LenProperties DEF Holds, Packets
  <1>2. \A i \in 0..Len(t) : i \in Nat /\ i + 1 \in Nat
    BY <1>1
  <1>3. \A i \in Nat : Cell(k, t, i) \in Footprint(k, t)
    BY <1>1, FootprintCells
  <1>4. QED
    BY <1>1, <1>2, <1>3 DEF Holds

\* The cells that the neighbours of a head are: the operations write to no others.
LEMMA Neighbours ==
  ASSUME NEW m \in Memory, NEW head \in Cells, NEW s, Holds(m, head, s)
  PROVE  /\ m.next[head] \in Footprint(head, s) /\ m.prev[head] \in Footprint(head, s)
         /\ m.next[m.next[head]] \in Footprint(head, s)
         /\ m.prev[m.prev[head]] \in Footprint(head, s)
         /\ m.prev[m.next[head]] = head /\ m.next[m.prev[head]] = head
         /\ Footprint(head, s) \subseteq Cells
  <1>1. s \in Packets(head) /\ Len(s) \in Nat
    BY LenProperties DEF Holds, Packets
  <1>2. /\ \A i \in Nat : Cell(head, s, i) \in Footprint(head, s)
        /\ Footprint(head, s) \subseteq Cells
    BY <1>1, FootprintCells
  <1>3. head \in Footprint(head, s)
    BY DEF Footprint
  <1>4. /\ m.next[head] = Cell(head, s, 1) /\ m.prev[Cell(head, s, 1)] = head
        /\ m.prev[head] = Cell(head, s, Len(s)) /\ m.next[Cell(head, s, Len(s))] = head
    <2>1. Cell(head, s, 0) = head /\ Cell(head, s, Len(s) + 1) = head
      BY <1>1 DEF Cell
    <2>2. 0 \in 0..Len(s) /\ Len(s) \in 0..Len(s) /\ 0 + 1 = 1
      BY <1>1
    <2>3. QED
      BY <2>1, <2>2 DEF Holds
  <1>5. m.next[Cell(head, s, 1)] \in Footprint(head, s)
    <2>1. CASE Len(s) = 0
      <3>1. Cell(head, s, 1) = head
        BY <1>1, <2>1 DEF Cell
      <3>2. QED
        BY <1>3, <1>4, <3>1
    <2>2. CASE Len(s) > 0
      <3>1. 1 \in 0..Len(s) /\ 1 + 1 \in Nat
        BY <1>1, <2>2
      <3>2. QED
        BY <1>2, <3>1 DEF Holds
    <2>3. QED
      BY <1>1, <2>1, <2>2
  <1>6. m.prev[Cell(head, s, Len(s))] \in Footprint(head, s)
    <2>1. CASE Len(s) = 0
      BY <1>4, <1>2, <1>3, <2>1 DEF Cell
    <2>2. CASE Len(s) > 0
      <3>1. Len(s) - 1 \in 0..Len(s) /\ Len(s) - 1 \in Nat /\ (Len(s) - 1) + 1 = Len(s)
        BY <1>1, <2>2
      <3>2. m.prev[Cell(head, s, (Len(s) - 1) + 1)] = Cell(head, s, Len(s) - 1)
        BY <3>1 DEF Holds
      <3>3. QED
        BY <1>2, <3>1, <3>2
    <2>3. QED
      BY <1>1, <2>1, <2>2
  <1>7. QED
    BY <1>1, <1>2, <1>4, <1>5, <1>6

\* An insertion writes to the list and to the packet inserted: another list with
\* none of these cells keeps its packets.
THEOREM InsertLeavesOthers ==
  ASSUME NEW m \in Memory, NEW head \in Cells, NEW s, Holds(m, head, s),
         NEW node \in Cells, NEW k \in Cells, NEW t, Holds(m, k, t),
         Apart(head, s, k, t), node \notin Footprint(k, t)
  PROVE  /\ Holds(list_insert_tail(m, head, node), k, t)
         /\ Holds(list_insert_head(m, head, node), k, t)
  <1>1. /\ \A c \in Footprint(k, t) : c \in Cells /\ c # node /\ c \notin Footprint(head, s)
        /\ head \in Footprint(head, s)
        /\ m.next[head] \in Footprint(head, s) /\ m.prev[head] \in Footprint(head, s)
    <2>1. head \in Footprint(head, s)
      BY DEF Footprint
    <2>2. Footprint(k, t) \subseteq Cells
      BY Neighbours
    <2>3. Footprint(head, s) \cap Footprint(k, t) = {}
      BY DEF Apart
    <2>4. QED
      BY <2>1, <2>2, <2>3, Neighbours
  <1>2. ASSUME NEW c \in Footprint(k, t)
        PROVE  /\ list_insert_tail(m, head, node).next[c] = m.next[c]
               /\ list_insert_tail(m, head, node).prev[c] = m.prev[c]
               /\ list_insert_head(m, head, node).next[c] = m.next[c]
               /\ list_insert_head(m, head, node).prev[c] = m.prev[c]
    <2>1. c \in Cells /\ c # node /\ c # head /\ c # m.next[head] /\ c # m.prev[head]
      BY <1>1
    <2>2. QED
      BY <2>1 DEF list_insert_tail, list_insert_head, Memory
  <1>3. QED
    BY <1>2, HoldsCarriesOver

\* A removal writes to its own list only, whether or not it has a packet.
THEOREM RemoveLeavesOthers ==
  ASSUME NEW m \in Memory, NEW head \in Cells, NEW s, Holds(m, head, s),
         NEW k \in Cells, NEW t, Holds(m, k, t), Apart(head, s, k, t)
  PROVE  /\ Holds(list_remove_head(m, head).mem, k, t)
         /\ Holds(list_remove_tail(m, head).mem, k, t)
  <1>1. /\ \A c \in Footprint(k, t) : c \in Cells /\ c \notin Footprint(head, s)
        /\ head \in Footprint(head, s)
        /\ m.next[head] \in Footprint(head, s) /\ m.prev[head] \in Footprint(head, s)
        /\ m.next[m.next[head]] \in Footprint(head, s)
        /\ m.prev[m.prev[head]] \in Footprint(head, s)
        /\ m.prev[m.next[head]] = head /\ m.next[m.prev[head]] = head
    <2>1. head \in Footprint(head, s)
      BY DEF Footprint
    <2>2. Footprint(k, t) \subseteq Cells
      BY Neighbours
    <2>3. Footprint(head, s) \cap Footprint(k, t) = {}
      BY DEF Apart
    <2>4. QED
      BY <2>1, <2>2, <2>3, Neighbours
  <1>2. ASSUME NEW c \in Footprint(k, t)
        PROVE  /\ list_remove_head(m, head).mem.next[c] = m.next[c]
               /\ list_remove_head(m, head).mem.prev[c] = m.prev[c]
               /\ list_remove_tail(m, head).mem.next[c] = m.next[c]
               /\ list_remove_tail(m, head).mem.prev[c] = m.prev[c]
    <2>1. /\ c \in Cells /\ c # head /\ c # m.next[head] /\ c # m.prev[head]
          /\ c # m.prev[m.next[head]] /\ c # m.next[m.prev[head]]
          /\ c # m.next[m.next[head]] /\ c # m.prev[m.prev[head]]
      BY <1>1
    <2>2. QED
      BY <2>1 DEF list_remove_head, list_remove_tail, list_remove_node, Cleared, Memory
  <1>3. QED
    BY <1>2, HoldsCarriesOver

-----------------------------------------------------------------------------
(* Moving a packet from one list to another, as HCI_Isr does from the pool to   *)
(* the receive queue and move_list from the kept packets back to its front.     *)

\* The removals leave a memory.
LEMMA RemovalsLeaveMemory ==
  ASSUME NEW m \in Memory, NEW head \in Cells, NEW s, Holds(m, head, s)
  PROVE  /\ list_remove_head(m, head).mem \in Memory
         /\ list_remove_tail(m, head).mem \in Memory
  <1>1. /\ m.next \in [Cells -> Cells \cup {NULL}]
        /\ m.prev \in [Cells -> Cells \cup {NULL}]
    BY DEF Memory
  <1>2. /\ m.next[head] \in Cells /\ m.prev[head] \in Cells
        /\ m.next[m.next[head]] \in Cells /\ m.prev[m.prev[head]] \in Cells
    BY Neighbours
  <1>3. m.prev[m.next[head]] = head /\ m.next[m.prev[head]] = head
    BY Neighbours
  <1>4. QED
    BY <1>1, <1>2, <1>3
    DEF list_remove_head, list_remove_tail, list_remove_node, Cleared, Memory

\* The first packet of one list becomes the last of another: no packet is lost, none
\* is in both lists.
THEOREM HeadToTail ==
  ASSUME NEW m \in Memory, NEW h \in Cells, NEW k \in Cells, NEW s, NEW t,
         Holds(m, h, s), Holds(m, k, t), Apart(h, s, k, t), s # <<>>,
         NEW n, n = list_insert_tail(list_remove_head(m, h).mem, k,
                                     list_remove_head(m, h).node)
  PROVE  /\ Holds(n, h, Tail(s)) /\ Holds(n, k, Append(t, s[1]))
         /\ Apart(h, Tail(s), k, Append(t, s[1]))
  <1> DEFINE r == list_remove_head(m, h).mem
  <1>1. /\ list_remove_head(m, h).node = s[1]
        /\ r \in Memory /\ Holds(r, h, Tail(s)) /\ Holds(r, k, t)
    BY RemoveHeadTakesFirst, RemoveLeavesOthers, RemovalsLeaveMemory
  <1> HIDE DEF r
  <1>2. /\ s \in Seq(Cells) /\ Len(s) \in Nat \ {0} /\ t \in Seq(Cells) /\ Len(t) \in Nat
        /\ \A i \in 1..Len(s) : s[i] \in Cells /\ s[i] # h
        /\ \A i, j \in 1..Len(s) : s[i] = s[j] => i = j
    BY LenProperties, EmptySeq, ElementOfSeq DEF Holds, Packets
  <1>3. /\ Len(Tail(s)) = Len(s) - 1
        /\ \A i \in 1..Len(Tail(s)) : Tail(s)[i] = s[i + 1]
    BY <1>2, HeadTailProperties
  <1>4. /\ Len(Append(t, s[1])) = Len(t) + 1
        /\ \A i \in 1..Len(t) : Append(t, s[1])[i] = t[i]
        /\ Append(t, s[1])[Len(t) + 1] = s[1]
    BY <1>2, AppendProperties
  <1>5. /\ s[1] \in Cells /\ s[1] \in Footprint(h, s)
        /\ s[1] \notin Footprint(h, Tail(s))
        /\ Footprint(h, Tail(s)) \subseteq Footprint(h, s)
    <2>1. /\ 1 \in 1..Len(s)
          /\ \A i \in 1..Len(Tail(s)) : i + 1 \in 1..Len(s) /\ i + 1 # 1
      BY <1>2, <1>3
    <2>2. QED
      BY <1>2, <1>3, <2>1 DEF Footprint
  <1>6. Footprint(k, Append(t, s[1])) \subseteq Footprint(k, t) \cup {s[1]}
    BY <1>2, <1>4 DEF Footprint
  <1>7. s[1] \notin Footprint(k, t) /\ Apart(k, t, h, Tail(s))
    BY <1>5 DEF Apart
  <1>8. n = list_insert_tail(r, k, s[1])
    BY <1>1 DEF r
  <1>9. Holds(n, k, Append(t, s[1]))
    BY <1>1, <1>5, <1>7, <1>8, InsertTailAppends
  <1>10. Holds(n, h, Tail(s))
    BY <1>1, <1>5, <1>7, <1>8, InsertLeavesOthers
  <1>11. Apart(h, Tail(s), k, Append(t, s[1]))
    BY <1>5, <1>6, <1>7 DEF Apart
  <1>12. QED
    BY <1>9, <1>10, <1>11

\* The last packet of one list becomes the first of another: move_list, a packet at a
\* time, keeps their order.
THEOREM TailToHead ==
  ASSUME NEW m \in Memory, NEW h \in Cells, NEW k \in Cells, NEW s, NEW t,
         Holds(m, h, s), Holds(m, k, t), Apart(h, s, k, t), s # <<>>,
         NEW n, n = list_insert_head(list_remove_tail(m, h).mem, k,
                                     list_remove_tail(m, h).node)
  PROVE  /\ Holds(n, h, SubSeq(s, 1, Len(s) - 1))
         /\ Holds(n, k, <<s[Len(s)]>> \o t)
  <1> DEFINE r == list_remove_tail(m, h).mem
             u == SubSeq(s, 1, Len(s) - 1)
  <1>1. /\ list_remove_tail(m, h).node = s[Len(s)]
        /\ r \in Memory /\ Holds(r, h, u) /\ Holds(r, k, t)
    BY RemoveTailTakesLast, RemoveLeavesOthers, RemovalsLeaveMemory
  <1> HIDE DEF r, u
  <1>2. /\ s \in Seq(Cells) /\ Len(s) \in Nat \ {0}
        /\ \A i \in 1..Len(s) : s[i] \in Cells /\ s[i] # h
        /\ \A i, j \in 1..Len(s) : s[i] = s[j] => i = j
    BY LenProperties, EmptySeq, ElementOfSeq DEF Holds, Packets
  <1>3. Len(u) = Len(s) - 1 /\ \A i \in 1..Len(u) : u[i] = s[i]
    BY <1>2, AllButLast DEF u
  <1>4. /\ s[Len(s)] \in Cells /\ s[Len(s)] \in Footprint(h, s)
        /\ s[Len(s)] \notin Footprint(h, u)
        /\ Footprint(h, u) \subseteq Footprint(h, s)
    <2>1. /\ Len(s) \in 1..Len(s)
          /\ \A i \in 1..Len(u) : i \in 1..Len(s) /\ i # Len(s)
      BY <1>2, <1>3
    <2>2. QED
      BY <1>2, <1>3, <2>1 DEF Footprint
  <1>5. s[Len(s)] \notin Footprint(k, t) /\ Apart(k, t, h, u)
    BY <1>4 DEF Apart
  <1>6. n = list_insert_head(r, k, s[Len(s)])
    BY <1>1 DEF r
  <1>7. Holds(n, k, <<s[Len(s)]>> \o t)
    BY <1>1, <1>4, <1>5, <1>6, InsertHeadPrepends
  <1>8. Holds(n, h, u)
    BY <1>1, <1>4, <1>5, <1>6, InsertLeavesOthers
  <1>9. QED
    BY <1>7, <1>8 DEF u
=============================================================================
