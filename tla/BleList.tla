------------------------------ MODULE BleList ------------------------------
(***************************************************************************)
(* The circular doubly linked lists of ble_list.c, on which the queues of  *)
(* hci.c are built: the operations that hci.c uses, as functions of the    *)
(* memory the links are in.  Each runs with the interrupts off, so that    *)
(* nothing sees the links while it changes them.  Holds says which         *)
(* sequence a list stands for.                                             *)
(***************************************************************************)
EXTENDS Naturals, Sequences

CONSTANT Cells   \* addresses of a tListNode: the heads, and one per packet

NULL == CHOOSE c : c \notin Cells

\* The links of all cells.  A cell in no list has any links.
Memory == [next : [Cells -> Cells \cup {NULL}], prev : [Cells -> Cells \cup {NULL}]]

list_init_head(m, head) ==
  [next |-> [m.next EXCEPT ![head] = head], prev |-> [m.prev EXCEPT ![head] = head]]

list_is_empty(m, head) == m.next[head] = head

list_insert_head(m, head, node) ==
  [next |-> [m.next EXCEPT ![node] = m.next[head], ![head] = node],
   prev |-> [m.prev EXCEPT ![node] = head, ![m.next[head]] = node]]

list_insert_tail(m, head, node) ==
  [next |-> [m.next EXCEPT ![node] = head, ![m.prev[head]] = node],
   prev |-> [m.prev EXCEPT ![node] = m.prev[head], ![head] = node]]

list_remove_node(m, node) ==
  [next |-> [m.next EXCEPT ![m.prev[node]] = m.next[node]],
   prev |-> [m.prev EXCEPT ![m.next[node]] = m.prev[node]]]

Cleared(m, node) ==
  [next |-> [m.next EXCEPT ![node] = NULL], prev |-> [m.prev EXCEPT ![node] = NULL]]

\* The cell that list_remove_head and list_remove_tail give back, and the memory
\* they leave.
list_remove_head(m, head) ==
  [node |-> m.next[head],
   mem  |-> Cleared(list_remove_node(m, m.next[head]), m.next[head])]

list_remove_tail(m, head) ==
  [node |-> m.prev[head],
   mem  |-> Cleared(list_remove_node(m, m.prev[head]), m.prev[head])]

-----------------------------------------------------------------------------
(* What a list is.                                                         *)

\* The packets of a list: no cell twice, and not its head.
Packets(head) ==
  {s \in Seq(Cells) : /\ \A i \in 1..Len(s) : s[i] # head
                      /\ \A i, j \in 1..Len(s) : s[i] = s[j] => i = j}

\* The cells in the order of the links; the head is before and behind them.
Cell(head, s, i) == IF i \in 1..Len(s) THEN s[i] ELSE head

Holds(m, head, s) ==
  /\ s \in Packets(head)
  /\ \A i \in 0..Len(s) : /\ m.next[Cell(head, s, i)] = Cell(head, s, i + 1)
                          /\ m.prev[Cell(head, s, i + 1)] = Cell(head, s, i)

\* The cells a list is made of.
Footprint(head, s) == {head} \cup {s[i] : i \in 1..Len(s)}

Apart(h, s, k, t) == Footprint(h, s) \cap Footprint(k, t) = {}
=============================================================================
