----------------------------- MODULE BleUplink ------------------------------
(***************************************************************************)
(* Text from the console to the BLE client.  Tasks put characters into     *)
(* console_ll's tx_queue; link_task of ble_spp_server.c takes lines out    *)
(* and sends each as one notification, or as numbered fragments with a     *)
(* header if it is longer than the MTU allows.  Meanwhile the Bluetooth    *)
(* task handles connections and MTU exchanges; link_task reads the MTU     *)
(* afresh in every statement, without a lock, and does not look whether a  *)
(* notification could be sent.                                             *)
(*                                                                         *)
(* The client is external.  A connection begins with the default MTU of    *)
(* GATT.  The Bluetooth stack refuses a notification without a connection, *)
(* and any other when it is congested or out of memory.  Characters are    *)
(* newlines or not; the heartbeat is compiled out.                         *)
(***************************************************************************)
EXTENDS Integers, Sequences

CONSTANTS
  TxLen,        \* length of tx_queue (CONSOLE_PRINT_SIZE)
  BufSize,      \* UPLINK_BUFSIZE
  TextSizes,    \* lengths of the texts that are printed, newline included
  Mtus,         \* MTUs clients ask for
  DefaultMtu    \* the MTU before they have asked, and of spp_mtu_size

\* A fragment of the smallest MTU carries something, and the fragments of a full
\* buffer can be counted in total_num and current_num, which are bytes (the
\* least MTU of BLE is 23, UPLINK_BUFSIZE 512).
ASSUME UplinkAssumption ==
  /\ TxLen \in Nat /\ BufSize \in Nat \ {0}
  /\ DefaultMtu \in Mtus /\ Mtus \subseteq Nat
  /\ \A mtu \in Mtus : mtu > 7 /\ BufSize <= 254 * (mtu - 7)
  /\ TextSizes \subseteq 1 .. TxLen

VARIABLES
  is_connected, enable_data_ntf, spp_mtu_size,
  peer,         \* external: the MTU of the connection
  tx_queue,
  text,         \* what a task is printing: in which way, and how much is left
  at,           \* where link_task is
  linesize, total_num, current_num,  \* its locals
  room,         \* and the size of the buffer at ntf_value_p
  pieces,       \* external: the notifications of this line that the client
                \* gets, with the header of a fragment: number and total
  lost,         \* history: the bytes of the line that could not be sent
  raced         \* history: a connection or an MTU changed after the fragments
                \* of the line were counted, or after it was sent

conn    == <<is_connected, enable_data_ntf, spp_mtu_size, peer>>
locals  == <<linesize, total_num, current_num, room>>
sent    == <<pieces, lost>>
vars    == <<conn, tx_queue, text, at, locals, sent, raced>>

Sending == {"size", "total", "alloc", "send", "sent"}

TypeOK ==
  /\ is_connected \in BOOLEAN /\ enable_data_ntf \in BOOLEAN /\ raced \in BOOLEAN
  /\ spp_mtu_size \in Mtus /\ peer \in Mtus
  /\ tx_queue \in Seq({"char", "newline"}) /\ Len(tx_queue) <= TxLen
  /\ text \in [by : {"printf", "putline"}, left : 0 .. TxLen]
  /\ at \in {"check", "read", "dead"} \cup Sending
  /\ linesize \in 0 .. BufSize /\ (at \in Sending => linesize > 0)
  /\ total_num \in Nat /\ current_num \in Nat /\ room \in Nat
  /\ at = "send" => total_num \in 1 .. BufSize /\ current_num \in 1 .. total_num
  /\ pieces \in Seq([num : Nat, of : Nat, from : Nat, to : Nat, size : Int])
  /\ lost \subseteq Nat

Init ==
  /\ is_connected = FALSE /\ enable_data_ntf = FALSE
  /\ spp_mtu_size = DefaultMtu /\ peer = DefaultMtu
  /\ tx_queue = << >> /\ text = [by |-> "printf", left |-> 0] /\ at = "check"
  /\ linesize = 0 /\ total_num = 0 /\ current_num = 0 /\ room = 0
  /\ pieces = << >> /\ lost = {} /\ raced = FALSE

Restart ==
  /\ is_connected' = FALSE /\ enable_data_ntf' = FALSE
  /\ spp_mtu_size' = DefaultMtu /\ peer' = DefaultMtu
  /\ tx_queue' = << >> /\ text' = [by |-> "printf", left |-> 0] /\ at' = "check"
  /\ linesize' = 0 /\ total_num' = 0 /\ current_num' = 0 /\ room' = 0
  /\ pieces' = << >> /\ lost' = {} /\ raced' = FALSE

-----------------------------------------------------------------------------
(* Events of the Bluetooth task.                                           *)

Race ==
  /\ raced' = (raced \/ (/\ at \in {"alloc", "send", "sent"}
                        /\ <<is_connected, spp_mtu_size, peer>>' # <<is_connected, spp_mtu_size, peer>>))
  /\ UNCHANGED <<tx_queue, text, at, locals, sent>>

\* spp_mtu_size keeps what the client before asked for.
Connect ==
  /\ ~is_connected /\ is_connected' = TRUE
  /\ peer' = DefaultMtu
  /\ UNCHANGED <<enable_data_ntf, spp_mtu_size>> /\ Race

Disconnect ==
  /\ is_connected /\ is_connected' = FALSE /\ enable_data_ntf' = FALSE
  /\ UNCHANGED <<spp_mtu_size, peer>> /\ Race

MtuExchange(mtu) ==
  /\ is_connected
  /\ spp_mtu_size' = mtu /\ peer' = mtu
  /\ UNCHANGED <<is_connected, enable_data_ntf>> /\ Race

\* The client writes the characteristic's configuration descriptor.
Subscribe(on) ==
  /\ is_connected /\ enable_data_ntf' = on
  /\ UNCHANGED <<is_connected, spp_mtu_size, peer, tx_queue, text, at, locals, sent, raced>>

-----------------------------------------------------------------------------
(* console_ll: console_printf and console_ll_putline.                      *)

PrintText(by, size) ==
  /\ text.left = 0
  /\ text' = [by |-> by, left |-> size]
  /\ UNCHANGED <<conn, tx_queue, at, locals, sent, raced>>

PutChar ==
  /\ text.left > 0 /\ Len(tx_queue) < TxLen
  /\ tx_queue' = Append(tx_queue, IF text.left = 1 THEN "newline" ELSE "char")
  /\ text' = [text EXCEPT !.left = @ - 1]
  /\ UNCHANGED <<conn, at, locals, sent, raced>>

\* console_ll_putc asserts that there is room; console_ll_putline waits a
\* second for it and then drops the rest.
NoRoom ==
  /\ text.left > 0 /\ Len(tx_queue) = TxLen
  /\ \/ text.by = "printf" /\ Restart
     \/ /\ text.by = "putline"
        /\ text' = [text EXCEPT !.left = 0]
        /\ UNCHANGED <<conn, tx_queue, at, locals, sent, raced>>

-----------------------------------------------------------------------------
(* link_task.                                                              *)

Listening == is_connected /\ enable_data_ntf

StartRead ==
  /\ at = "check" /\ Listening
  /\ at' = "read"
  /\ UNCHANGED <<conn, tx_queue, text, locals, sent, raced>>

\* Variant: a line is read to its end, however long.
ReadChar_NoLimit ==
  /\ at = "read" /\ tx_queue # << >>
  /\ tx_queue' = Tail(tx_queue)
  /\ linesize' = linesize + 1
  /\ at' = IF Head(tx_queue) = "newline" THEN "size" ELSE "read"
  /\ UNCHANGED <<conn, text, total_num, current_num, room, sent, raced>>

\* __link_tx: up to a newline, a full buffer, or a second without a character.
ReadChar ==
  /\ at = "read" /\ tx_queue # << >>
  /\ tx_queue' = Tail(tx_queue)
  /\ linesize' = linesize + 1
  /\ at' = IF Head(tx_queue) = "newline" \/ linesize + 1 = BufSize THEN "size" ELSE "read"
  /\ UNCHANGED <<conn, text, total_num, current_num, room, sent, raced>>

ReadTimeout ==
  /\ at = "read" /\ tx_queue = << >>
  /\ at' = IF linesize > 0 THEN "size" ELSE "check"
  /\ UNCHANGED <<conn, tx_queue, text, locals, sent, raced>>

\* esp_ble_gatts_send_indicate, whose result is not looked at: the client gets
\* the notification, or its bytes are lost.
Notify(num, of, from, to, size) ==
  \/ /\ is_connected
     /\ pieces' = Append(pieces,
          [num |-> num, of |-> of, from |-> from, to |-> to, size |-> size])
     /\ UNCHANGED lost
  \/ lost' = lost \cup (from .. to) /\ UNCHANGED pieces

SendWhole ==
  /\ at = "size" /\ linesize <= spp_mtu_size - 3
  /\ Notify(0, 0, 1, linesize, linesize)
  /\ at' = "sent"
  /\ UNCHANGED <<conn, tx_queue, text, locals, raced>>

TooLong ==
  /\ at = "size" /\ linesize > spp_mtu_size - 3
  /\ at' = "total"
  /\ UNCHANGED <<conn, tx_queue, text, locals, sent, raced>>

Payload == spp_mtu_size - 7

\* Variant: the remainder of the line gets no fragment.
CountFragments_Floor ==
  /\ at = "total" /\ at' = "alloc"
  /\ total_num' = linesize \div Payload
  /\ current_num' = 1
  /\ UNCHANGED <<conn, tx_queue, text, linesize, room, sent, raced>>

CountFragments ==
  /\ at = "total" /\ at' = "alloc"
  /\ total_num' = IF linesize % Payload = 0 THEN linesize \div Payload
                                            ELSE linesize \div Payload + 1
  /\ current_num' = 1
  /\ UNCHANGED <<conn, tx_queue, text, linesize, room, sent, raced>>

\* Without memory the task ends for good.
Allocate ==
  /\ at = "alloc"
  /\ \/ at' = "send" /\ room' = spp_mtu_size - 3
     \/ at' = "dead" /\ UNCHANGED room
  /\ UNCHANGED <<conn, tx_queue, text, linesize, total_num, current_num, sent, raced>>

\* Variant: the fragment is sent and not counted, again and again.
SendFragment_Same ==
  /\ at = "send"
  /\ pieces' = << [num |-> 1, of |-> 1, from |-> 1, to |-> Payload, size |-> Payload + 4] >>
  /\ UNCHANGED <<conn, lost, tx_queue, text, linesize, total_num, current_num, room, raced, at>>

\* The last fragment carries what is left.  With another MTU than before it
\* may not fit the buffer, or less than nothing may be left: undefined, the
\* chip restarts or goes on.
SendFragment ==
  /\ at = "send"
  /\ LET from == (current_num - 1) * Payload
         to   == IF current_num < total_num THEN from + Payload ELSE linesize
         fits == from <= to /\ to - from + 4 <= room
     IN \/ /\ Notify(current_num, total_num, from + 1, to, to - from + 4)
           /\ current_num' = current_num + 1
           /\ at' = IF current_num < total_num THEN "send" ELSE "sent"
           /\ UNCHANGED <<conn, tx_queue, text, linesize, total_num, room, raced>>
        \/ ~fits /\ Restart

\* The buffer is freed, and the next line starts afresh.
LineSent ==
  /\ at = "sent" /\ at' = "check"
  /\ linesize' = 0 /\ total_num' = 0 /\ current_num' = 0 /\ room' = 0
  /\ pieces' = << >> /\ lost' = {} /\ raced' = FALSE
  /\ UNCHANGED <<conn, tx_queue, text>>

-----------------------------------------------------------------------------

LinkStep ==
  \/ StartRead \/ ReadChar \/ ReadTimeout \/ SendWhole \/ TooLong
  \/ CountFragments \/ Allocate \/ SendFragment \/ LineSent

Next ==
  \/ LinkStep \/ PutChar \/ NoRoom
  \/ \E by \in {"printf", "putline"}, size \in TextSizes : PrintText(by, size)
  \/ Connect \/ Disconnect \/ \E mtu \in Mtus : MtuExchange(mtu)
  \/ \E on \in BOOLEAN : Subscribe(on)

Spec == Init /\ [][Next]_vars

\* link_task runs; nothing is assumed of clients or of those who print.
FairSpec == Spec /\ WF_vars(LinkStep)

-----------------------------------------------------------------------------

\* The bytes of the line that the client got.
Got == UNION {pieces[i].from .. pieces[i].to : i \in 1 .. Len(pieces)}

\* When a line has been sent, the client has exactly the bytes that could be
\* sent, each once and in order: the whole line unless a send failed, which the
\* code does not notice.  No notification exceeds the MTU or the buffer, and
\* from the header of a fragment the client can tell where its bytes belong and
\* how many fragments there are, so what it lacks.  Excepted are a connection
\* or an MTU that changed after the fragments were counted, and a client that
\* has not asked for an MTU after one that had (ble_spp_server.c:322-355, 532,
\* 544).
LineArrives ==
  at = "sent" /\ ~raced /\ is_connected /\ spp_mtu_size = peer =>
    /\ Got \cup lost = 1 .. linesize /\ Got \cap lost = {}
    /\ \A i \in 1 .. Len(pieces) - 1 : pieces[i].to < pieces[i + 1].from
    /\ \A i \in 1 .. Len(pieces) :
         /\ pieces[i].from <= pieces[i].to
         /\ pieces[i].size <= peer - 3
         /\ pieces[i].of > 0 =>
              /\ pieces[i].size <= room
              /\ pieces[i].from = (pieces[i].num - 1) * (peer - 7) + 1
              /\ (pieces[i].of - 1) * (peer - 7) < linesize
              /\ linesize <= pieces[i].of * (peer - 7)

\* While a client listens, a full queue gets room again, so that printing does
\* not stop for good, unless link_task ran out of memory
\* (console_ll.c:69, ble_spp_server.c:315-354).
FullQueueDrains ==
  Len(tx_queue) = TxLen ~> (Len(tx_queue) < TxLen \/ ~Listening \/ at = "dead")
=============================================================================
