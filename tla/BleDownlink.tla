---------------------------- MODULE BleDownlink -----------------------------
(***************************************************************************)
(* Text from the BLE client to the console: ble_spp_server.c hands it, by  *)
(* way of __link_rx, to console_ll's rx_queue, from which the shell reads  *)
(* lines.  It comes in three ways: writes of the data characteristic;      *)
(* prepared writes, kept in a linked list until they are executed; and     *)
(* commands, which pass through a queue to a task of their own.  The       *)
(* Bluetooth task handles one event at a time, but __link_rx runs in it    *)
(* and in spp_cmd_task at once.                                            *)
(*                                                                         *)
(* Characters are numbered per way.  The client and the memory allocator   *)
(* are external.  console_ll_getline only cuts what console_ll_getc yields *)
(* into lines; connections leave all of this alone, so a cancelled or      *)
(* abandoned prepared write waits for the next execution.                  *)
(***************************************************************************)
EXTENDS Naturals, SequencesExt

CONSTANTS
  Nodes, Null,  \* list nodes in memory, and NULL
  RxLen,        \* length of rx_queue
  CmdLen,       \* length of cmd_cmd_queue
  MaxWrite,     \* bound: characters of a write
  MaxSent       \* bound: characters sent in each way

ASSUME DownlinkAssumption ==
  Null \notin Nodes /\ {RxLen, CmdLen, MaxWrite, MaxSent} \subseteq Nat

Ways  == {"data", "prepared", "command"}
Links == {"bt", "cmd"}

Char   == [way : Ways, num : 1 .. MaxSent]
Writes == { text \in Seq(Char) : Len(text) <= MaxWrite }

VARIABLES
  sent, got,    \* histories: the last character sent, and read, of each way
  heap,         \* nodes that are allocated
  node,         \* their node_buff and next_node
  first_node, node_num,  \* SppRecvDataBuff
  p1, p2,       \* temp_spp_recv_data_node_p1, _p2
  exec,         \* ESP_GATTS_EXEC_WRITE_EVT: "no", "print" or "free"
  printed,      \* history: nodes that have been handed over
  push,         \* what each task in __link_rx has yet to put into rx_queue
  cmd_cmd_queue,
  rx_queue

list   == <<heap, node, first_node, node_num, p1, p2, exec, printed>>
queues == <<push, cmd_cmd_queue, rx_queue>>
vars   == <<sent, got, list, queues>>

TypeOK ==
  /\ sent \in [Ways -> 0 .. MaxSent] /\ got \in [Ways -> 0 .. MaxSent]
  /\ printed \subseteq heap /\ heap \subseteq Nodes
  /\ node \in [Nodes -> [node_buff : Writes, next_node : Nodes \cup {Null}]]
  /\ {first_node, p1, p2} \subseteq Nodes \cup {Null} /\ node_num \in Nat
  /\ exec \in {"no", "print", "free"}
  /\ push \in [Links -> Writes]
  /\ cmd_cmd_queue \in Seq(Writes) /\ Len(cmd_cmd_queue) <= CmdLen
  /\ rx_queue \in Seq(Char) /\ Len(rx_queue) <= RxLen

Blank == [node_buff |-> << >>, next_node |-> Null]
Empty == [x \in Nodes |-> Blank]

Init ==
  /\ sent = [w \in Ways |-> 0] /\ got = [w \in Ways |-> 0]
  /\ heap = {} /\ node = Empty /\ first_node = Null /\ node_num = 0
  /\ p1 = Null /\ p2 = Null /\ exec = "no" /\ printed = {}
  /\ push = [t \in Links |-> << >>] /\ cmd_cmd_queue = << >> /\ rx_queue = << >>

\* Writing to a buffer that could not be allocated restarts the chip.
Restart ==
  /\ heap' = {} /\ node' = Empty /\ first_node' = Null /\ node_num' = 0
  /\ p1' = Null /\ p2' = Null /\ exec' = "no" /\ printed' = {}
  /\ push' = [t \in Links |-> << >>] /\ cmd_cmd_queue' = << >> /\ rx_queue' = << >>
  /\ UNCHANGED <<sent, got>>

-----------------------------------------------------------------------------
(* Events of the Bluetooth task.                                           *)

\* n characters arrive in way w.
Arrive(w, n) ==
  /\ exec = "no" /\ push["bt"] = << >>
  /\ sent[w] + n <= MaxSent
  /\ sent' = [sent EXCEPT ![w] = @ + n]
  /\ UNCHANGED got

Text(w, n) == [i \in 1 .. n |-> [way |-> w, num |-> sent[w] + i]]

DataWrite(n) ==
  /\ Arrive("data", n)
  /\ push' = [push EXCEPT !["bt"] = Text("data", n)]
  /\ UNCHANGED <<list, cmd_cmd_queue, rx_queue>>

\* Variant: the queue is written without regard to its length.
CommandWrite_NoLimit(n) ==
  /\ Arrive("command", n)
  /\ cmd_cmd_queue' = Append(cmd_cmd_queue, Text("command", n))
  /\ UNCHANGED <<list, push, rx_queue>>

\* The copy of a command is lost if there is no memory for it, or no room in
\* the queue for the 10 ms that xQueueSend waits.
CommandWrite(n) ==
  /\ Arrive("command", n)
  /\ \/ UNCHANGED cmd_cmd_queue
     \/ /\ Len(cmd_cmd_queue) < CmdLen
        /\ cmd_cmd_queue' = Append(cmd_cmd_queue, Text("command", n))
  /\ UNCHANGED <<list, push, rx_queue>>

\* store_wr_buffer appends a node behind p2; which of the free ones it gets is
\* immaterial.
StoreWrBuffer(n) ==
  /\ heap # Nodes
  /\ Arrive("prepared", n)
  /\ LET x == CHOOSE x \in Nodes \ heap : TRUE IN
       /\ heap' = heap \cup {x}
       /\ node' = [y \in Nodes |->
            CASE y = x  -> [node_buff |-> Text("prepared", n), next_node |-> Null]
              [] y = p2 /\ y # x -> [node[y] EXCEPT !.next_node = x]
              [] OTHER -> node[y]]
       /\ p1' = x /\ p2' = x
       /\ first_node' = IF node_num = 0 THEN x ELSE first_node
  /\ node_num' = node_num + 1
  /\ UNCHANGED <<exec, printed, queues>>

\* No memory for the node: the write is forgotten.  None for its buffer.
StoreFails(n) ==
  \/ Arrive("prepared", n) /\ p1' = Null
     /\ UNCHANGED <<heap, node, first_node, node_num, p2, exec, printed, queues>>
  \/ exec = "no" /\ push["bt"] = << >> /\ Restart

\* exec_write_flag is set; a cancellation does nothing.
ExecWrite ==
  /\ exec = "no" /\ push["bt"] = << >>
  /\ exec' = "print" /\ p1' = first_node
  /\ UNCHANGED <<sent, got, heap, node, first_node, node_num, p2, printed, queues>>

PrintNode ==
  /\ exec = "print" /\ push["bt"] = << >> /\ p1 # Null
  /\ push' = [push EXCEPT !["bt"] = node[p1].node_buff]
  /\ p1' = node[p1].next_node
  /\ printed' = printed \cup {p1}
  /\ UNCHANGED <<sent, got, heap, node, first_node, node_num, p2, exec, cmd_cmd_queue, rx_queue>>

\* Variant: what was printed is not freed.
PrintEnds_NoFree ==
  /\ exec = "print" /\ push["bt"] = << >> /\ p1 = Null
  /\ exec' = "no"
  /\ UNCHANGED <<sent, got, heap, node, first_node, node_num, p1, p2, printed, queues>>

PrintEnds ==
  /\ exec = "print" /\ push["bt"] = << >> /\ p1 = Null
  /\ exec' = "free" /\ p1' = first_node
  /\ UNCHANGED <<sent, got, heap, node, first_node, node_num, p2, printed, queues>>

\* Variant: the next node is kept in a local variable instead of p2.
FreeNode_KeepTail ==
  /\ exec = "free" /\ p1 # Null
  /\ p1' = node[p1].next_node
  /\ heap' = heap \ {p1} /\ printed' = printed \ {p1}
  /\ node' = [node EXCEPT ![p1] = Blank]
  /\ UNCHANGED <<sent, got, first_node, node_num, p2, exec, queues>>

FreeNode ==
  /\ exec = "free" /\ p1 # Null
  /\ p1' = node[p1].next_node /\ p2' = node[p1].next_node
  /\ heap' = heap \ {p1} /\ printed' = printed \ {p1}
  /\ node' = [node EXCEPT ![p1] = Blank]
  /\ UNCHANGED <<sent, got, first_node, node_num, exec, queues>>

FreeEnds ==
  /\ exec = "free" /\ p1 = Null
  /\ node_num' = 0 /\ first_node' = Null /\ exec' = "no"
  /\ UNCHANGED <<sent, got, heap, node, p1, p2, printed, queues>>

-----------------------------------------------------------------------------
(* spp_cmd_task, __link_rx and the reader.                                 *)

CommandTask ==
  /\ push["cmd"] = << >> /\ cmd_cmd_queue # << >>
  /\ push' = [push EXCEPT !["cmd"] = Head(cmd_cmd_queue)]
  /\ cmd_cmd_queue' = Tail(cmd_cmd_queue)
  /\ UNCHANGED <<sent, got, list, rx_queue>>

\* xQueueSend does not wait; what is left of a write is lost when it fails.
LinkRx(t) ==
  /\ push[t] # << >>
  /\ \/ /\ Len(rx_queue) < RxLen
        /\ rx_queue' = Append(rx_queue, Head(push[t]))
        /\ push' = [push EXCEPT ![t] = Tail(@)]
     \/ /\ Len(rx_queue) = RxLen
        /\ push' = [push EXCEPT ![t] = << >>]
        /\ UNCHANGED rx_queue
  /\ UNCHANGED <<sent, got, list, cmd_cmd_queue>>

Getc ==
  /\ rx_queue # << >>
  /\ got' = [got EXCEPT ![Head(rx_queue).way] = Head(rx_queue).num]
  /\ rx_queue' = Tail(rx_queue)
  /\ UNCHANGED <<sent, list, push, cmd_cmd_queue>>

-----------------------------------------------------------------------------

BtStep == ExecWrite \/ PrintNode \/ PrintEnds \/ FreeNode \/ FreeEnds

Next ==
  \/ BtStep \/ CommandTask \/ Getc
  \/ \E t \in Links : LinkRx(t)
  \/ \E n \in 1 .. MaxWrite :
       DataWrite(n) \/ CommandWrite(n) \/ StoreWrBuffer(n) \/ StoreFails(n)

Spec == Init /\ [][Next]_vars

-----------------------------------------------------------------------------

\* Between two events the prepared list is whole: from first_node the links
\* lead through every allocated node once, in the order of arrival, to the one
\* p2 names, although p2 also serves as a scratch variable of the free loop
\* (ble_spp_server.c:244-283).
ListWhole ==
  exec = "no" =>
    \E s \in SetToSeqs(heap) :
      /\ node_num = Len(s)
      /\ first_node = IF s = << >> THEN Null ELSE Head(s)
      /\ p2 = IF s = << >> THEN Null ELSE Last(s)
      /\ \A i \in 1 .. Len(s) : node[s[i]].next_node = IF i = Len(s) THEN Null ELSE s[i + 1]
      /\ \A i \in 1 .. Len(s) - 1 : Head(node[s[i]].node_buff).num < Head(node[s[i + 1]].node_buff).num

\* Characters that are still on their way.
Waiting ==
  ToSet(rx_queue) \cup ToSet(push["bt"]) \cup ToSet(push["cmd"])
  \cup (UNION { ToSet(text) : text \in ToSet(cmd_cmd_queue) })
  \cup (UNION { ToSet(node[x].node_buff) : x \in heap \ printed })

Streams == INSTANCE LossyStreams WITH
  Sources <- Ways,
  transit <- [w \in Ways |-> { c.num : c \in { d \in Waiting : d.way = w } }]

\* In each way the reader gets what the client sent, in order and at most
\* once, whatever is lost on full queues, interleaved or executed twice
\* (ble_spp_server.c:285-294, 398, 499; console_ll.c:88-104).
TextInOrder == Streams!Spec
=============================================================================
