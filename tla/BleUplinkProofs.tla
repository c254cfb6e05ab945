-------------------------- MODULE BleUplinkProofs ---------------------------
(***************************************************************************)
(* The safety properties of BleUplink, for queues, buffers, texts and MTUs *)
(* of any size.  LineInv says what the client has got and what was lost so *)
(* far of a line during whose fragments no connection and no MTU changed:  *)
(* it speaks of the MTU of now, which link_task reads afresh in every      *)
(* statement, and so holds only because such a change is remembered.       *)
(***************************************************************************)
EXTENDS BleUplink, TLAPS

\* The number of fragments is right: the last begins within the line, and no
\* piece of the line is left after it.
Counted == (total_num - 1) * Payload < linesize /\ linesize <= total_num * Payload

\* The bytes that the notifications ps carry.
Bytes(ps) == UNION {ps[i].from .. ps[i].to : i \in 1 .. Len(ps)}

\* The first n bytes of the line are each in one of the notifications ps, in
\* order, or among the lost ones.
Accounted(ps, ls, n) ==
  /\ Bytes(ps) \cup ls = 1 .. n /\ Bytes(ps) \cap ls = {}
  /\ \A i \in 1 .. Len(ps) - 1 : ps[i].to < ps[i + 1].from
  /\ \A i \in 1 .. Len(ps) : ps[i].to <= n

\* A notification that the MTU admits and the buffer holds, with a header that
\* tells its place.
Fits(p) ==
  /\ p.from <= p.to /\ p.size <= spp_mtu_size - 3
  /\ p.of > 0 => /\ p.size <= room /\ p.from = (p.num - 1) * Payload + 1
                 /\ (p.of - 1) * Payload < linesize /\ linesize <= p.of * Payload

AllFit == \A i \in 1 .. Len(pieces) : Fits(pieces[i])

\* The fragments before the current one have been sent or lost.
SentSoFar == room = spp_mtu_size - 3 /\ Accounted(pieces, lost, (current_num - 1) * Payload) /\ AllFit

\* What LineArrives says, for the MTU that link_task reads.
Arrived == Accounted(pieces, lost, linesize) /\ AllFit

\* A line that no change of connection or MTU has met so far.
LineInv ==
  ~raced =>
    /\ at \in {"alloc", "send"} => Counted
    /\ at = "send" => SentSoFar
    /\ at = "sent" => Arrived

\* Between two lines nothing is kept of the last one; a line that is being read
\* leaves room; before the first fragment nothing has been sent; and the count
\* fits a byte.
CountInv ==
  /\ at = "check" => linesize = 0
  /\ at = "read" => linesize < BufSize
  /\ at \in {"check", "read", "size", "total", "alloc"} => pieces = << >> /\ lost = {}
  /\ at \in {"check", "read", "size", "total"} => total_num = 0 /\ current_num = 0
  /\ at = "alloc" => total_num \in 1 .. BufSize /\ current_num = 1
  /\ at \in {"sent", "dead"} => current_num <= total_num + 1
  /\ total_num <= 254

IInv == TypeOK /\ CountInv /\ LineInv

-----------------------------------------------------------------------------
(* Arithmetic and typing.                                                  *)

\* What CountFragments computes is the quotient rounded up: at least 1, at most
\* every bound that is enough for the line.
LEMMA RoundedUp ==
  ASSUME NEW L \in Nat \ {0}, NEW P \in Nat \ {0}
  PROVE  LET n == IF L % P = 0 THEN L \div P ELSE L \div P + 1
         IN /\ n \in 1 .. L
            /\ (n - 1) * P < L /\ L <= n * P
            /\ \A k \in Nat : L <= k * P => n <= k
<1> DEFINE q == L \div P
           r == L % P
           n == IF r = 0 THEN q ELSE q + 1
<1>1. q \in Int /\ r \in 0 .. P - 1 /\ L = P * q + r
  OBVIOUS
<1>2. q \in Nat /\ (q = 0 => r # 0)
  BY <1>1
<1> HIDE DEF q, r
<1>3. n \in Nat /\ n >= 1
  BY <1>1, <1>2
<1>4. (n - 1) * P < L /\ L <= n * P
  <2>1. CASE r = 0
    BY <1>1, <1>2, <2>1
  <2>2. CASE r # 0
    BY <1>1, <1>2, <2>2
  <2> QED
    BY <2>1, <2>2
<1> HIDE DEF n
<1>5. ASSUME NEW k \in Nat, L <= k * P PROVE n <= k
  <2> SUFFICES ASSUME k <= n - 1 PROVE FALSE
    BY <1>3
  <2>1. k * P <= (n - 1) * P
    BY <1>3
  <2> QED
    BY <2>1, <1>4, <1>5, <1>3
<1>6. n <= L
  <2>1. L <= L * P
    OBVIOUS
  <2> QED
    BY <2>1, <1>5
<1> QED
  BY <1>3, <1>4, <1>5, <1>6 DEF n, q, r

\* A fragment carries at least one byte, whatever MTU is in force.
LEMMA PayloadType ==
  TypeOK => /\ spp_mtu_size \in Nat /\ spp_mtu_size > 7
            /\ Payload \in Nat \ {0} /\ BufSize <= 254 * Payload
  BY UplinkAssumption DEF TypeOK, Payload

\* The number of fragments, and that it fits a byte.
LEMMA FragmentCount ==
  ASSUME TypeOK, CountFragments
  PROVE  /\ total_num' \in 1 .. linesize /\ total_num' <= 254
         /\ (total_num' - 1) * Payload < linesize /\ linesize <= total_num' * Payload
<1>1. linesize \in Nat \ {0} /\ linesize <= BufSize
  BY UplinkAssumption DEF TypeOK, CountFragments, Sending
<1> USE PayloadType
<1>2. linesize <= 254 * Payload
  BY <1>1, UplinkAssumption
<1> QED
  BY <1>1, <1>2, RoundedUp DEF CountFragments

\* The queue, empty or one character longer or shorter, keeps its type.
LEMMA QueueType ==
  ASSUME NEW q \in Seq({"char", "newline"})
  PROVE  /\ << >> \in Seq({"char", "newline"}) /\ Len(<< >>) = 0
         /\ \A c \in {"char", "newline"} : /\ Append(q, c) \in Seq({"char", "newline"})
                                           /\ Len(Append(q, c)) = Len(q) + 1
         /\ q # << >> => /\ Tail(q) \in Seq({"char", "newline"}) /\ Len(Tail(q)) = Len(q) - 1
                         /\ Head(q) \in {"char", "newline"}
  OBVIOUS

\* What is left of a text is a number, and another one keeps the text's type.
LEMMA TextType ==
  TypeOK => /\ text.left \in 0 .. TxLen /\ (text.left > 0 => text.left - 1 \in 0 .. TxLen)
            /\ \A n \in 0 .. TxLen :
                 [text EXCEPT !.left = n] \in [by : {"printf", "putline"}, left : 0 .. TxLen]
<1> SUFFICES ASSUME TypeOK PROVE TextType!2
  OBVIOUS
<1>1. text \in [by : {"printf", "putline"}, left : 0 .. TxLen]
  BY DEF TypeOK
<1>2. text.left \in 0 .. TxLen
  BY <1>1
<1>3. ASSUME NEW n \in 0 .. TxLen
      PROVE  [text EXCEPT !.left = n] \in [by : {"printf", "putline"}, left : 0 .. TxLen]
  BY <1>1
<1> QED
  BY <1>2, <1>3, UplinkAssumption

\* What has been sent stays a sequence of notifications, and what is lost a set
\* of places in the line.
LEMMA NotifyType ==
  ASSUME TypeOK, NEW num \in Nat, NEW of \in Nat, NEW from \in Nat, NEW to \in Nat,
         NEW size \in Int, Notify(num, of, from, to, size)
  PROVE  /\ pieces' \in Seq([num : Nat, of : Nat, from : Nat, to : Nat, size : Int])
         /\ lost' \subseteq Nat
<1> DEFINE T == [num : Nat, of : Nat, from : Nat, to : Nat, size : Int]
           x == [num |-> num, of |-> of, from |-> from, to |-> to, size |-> size]
<1>1. x \in T /\ pieces \in Seq(T) /\ lost \subseteq Nat
  BY DEF TypeOK
<1>2. \/ pieces' = Append(pieces, x) /\ lost' = lost
      \/ pieces' = pieces /\ lost' = lost \cup (from .. to)
  BY DEF Notify
<1> HIDE DEF T, x
<1>3. pieces' = Append(pieces, x) => pieces' \in Seq(T)
  BY <1>1
<1>4. (from .. to) \subseteq Nat
  OBVIOUS
<1> QED
  BY <1>1, <1>2, <1>3, <1>4 DEF T, x

\* If the notification carries the next bytes of the line, those are accounted
\* for as well.
LEMMA NextBytes ==
  ASSUME TypeOK, NEW num \in Nat, NEW of \in Nat, NEW a \in Nat, NEW b \in Nat, NEW size \in Int,
         a < b, Accounted(pieces, lost, a), Notify(num, of, a + 1, b, size)
  PROVE  /\ Accounted(pieces', lost', b)
         /\ \A i \in 1 .. Len(pieces') :
              \/ i \in 1 .. Len(pieces) /\ pieces'[i] = pieces[i]
              \/ pieces'[i] = [num |-> num, of |-> of, from |-> a + 1, to |-> b, size |-> size]
<1> DEFINE x == [num |-> num, of |-> of, from |-> a + 1, to |-> b, size |-> size]
<1>0. /\ pieces \in Seq([num : Nat, of : Nat, from : Nat, to : Nat, size : Int])
      /\ Len(pieces) \in Nat /\ a + 1 \in Nat
      /\ \A i \in 1 .. Len(pieces) : pieces[i].from \in Nat /\ pieces[i].to \in Nat
  <2> DEFINE T == [num : Nat, of : Nat, from : Nat, to : Nat, size : Int]
  <2>1. pieces \in Seq(T)
    BY DEF TypeOK
  <2>2. \A t \in T : t.from \in Nat /\ t.to \in Nat
    OBVIOUS
  <2> HIDE DEF T
  <2>3. \A i \in 1 .. Len(pieces) : pieces[i] \in T
    BY <2>1
  <2>4. Len(pieces) \in Nat /\ a + 1 \in Nat
    BY <2>1
  <2> QED
    BY <2>1, <2>2, <2>3, <2>4 DEF T
<1>1. x.from = a + 1 /\ x.to = b
  OBVIOUS
<1>2. (1 .. a) \cup (a + 1 .. b) = 1 .. b /\ (1 .. a) \cap (a + 1 .. b) = {}
  OBVIOUS
<1>3. CASE /\ Len(pieces') = Len(pieces) + 1 /\ lost' = lost /\ pieces'[Len(pieces')] = x
           /\ \A i \in 1 .. Len(pieces) : pieces'[i] = pieces[i]
  <2>1. Bytes(pieces') = Bytes(pieces) \cup (a + 1 .. b)
    <3>1. \A i \in 1 .. Len(pieces') : i \in 1 .. Len(pieces) \/ i = Len(pieces')
      BY <1>0, <1>3
    <3>2. \A i \in 1 .. Len(pieces) : i \in 1 .. Len(pieces')
      BY <1>0, <1>3
    <3>3. Len(pieces') \in 1 .. Len(pieces')
      BY <1>0, <1>3
    <3>4. pieces'[Len(pieces')].from .. pieces'[Len(pieces')].to = a + 1 .. b
      BY <1>1, <1>3
    <3>5. \A e : e \in Bytes(pieces') <=> \E i \in 1 .. Len(pieces') : e \in pieces'[i].from .. pieces'[i].to
      BY DEF Bytes
    <3>6. \A e : e \in Bytes(pieces) <=> \E i \in 1 .. Len(pieces) : e \in pieces[i].from .. pieces[i].to
      BY DEF Bytes
    <3>7. ASSUME NEW e PROVE e \in Bytes(pieces') <=> e \in Bytes(pieces) \cup (a + 1 .. b)
      <4>1. ASSUME e \in Bytes(pieces') PROVE e \in Bytes(pieces) \cup (a + 1 .. b)
        <5>1. PICK i \in 1 .. Len(pieces') : e \in pieces'[i].from .. pieces'[i].to
          BY <4>1, <3>5
        <5>2. CASE i \in 1 .. Len(pieces)
          BY <5>1, <5>2, <3>6, <1>3
        <5>3. CASE i = Len(pieces')
          BY <5>1, <5>3, <3>4
        <5> QED
          BY <5>2, <5>3, <3>1
      <4>2. ASSUME e \in Bytes(pieces) PROVE e \in Bytes(pieces')
        BY <4>2, <3>2, <3>5, <3>6, <1>3
      <4>3. ASSUME e \in a + 1 .. b PROVE e \in Bytes(pieces')
        BY <4>3, <3>3, <3>4, <3>5
      <4> QED
        BY <4>1, <4>2, <4>3
    <3> QED
      BY <3>7
  <2>2. Bytes(pieces) \cup lost = 1 .. a /\ Bytes(pieces) \cap lost = {}
    BY DEF Accounted
  <2>3. Bytes(pieces') \cup lost' = 1 .. b /\ Bytes(pieces') \cap lost' = {}
    BY <1>2, <1>3, <2>1, <2>2, Zenon
  <2>4. \A i \in 1 .. Len(pieces) : pieces'[i] = pieces[i] /\ pieces[i].to <= a
    BY <1>3 DEF Accounted
  <2>5. \A i \in 1 .. Len(pieces') - 1 : pieces'[i].to < pieces'[i + 1].from
    <3> TAKE i \in 1 .. Len(pieces') - 1
    <3>1. i \in 1 .. Len(pieces)
      BY <1>0, <1>3
    <3>2. CASE i = Len(pieces)
      <4>1. pieces'[i + 1].from = a + 1 /\ pieces'[i].to <= a /\ pieces'[i].to \in Nat
        BY <1>0, <1>1, <1>3, <2>4, <3>1, <3>2
      <4> QED
        BY <4>1
    <3>3. CASE i # Len(pieces)
      <4>1. i \in 1 .. Len(pieces) - 1 /\ i + 1 \in 1 .. Len(pieces)
        BY <1>0, <3>1, <3>3
      <4>2. pieces'[i] = pieces[i] /\ pieces'[i + 1] = pieces[i + 1]
        BY <2>4, <3>1, <4>1
      <4> QED
        BY <4>1, <4>2 DEF Accounted
    <3> QED
      BY <3>2, <3>3
  <2>6. \A i \in 1 .. Len(pieces') : pieces'[i].to <= b
    <3> TAKE i \in 1 .. Len(pieces')
    <3>1. CASE i \in 1 .. Len(pieces)
      <4>1. pieces'[i].to <= a /\ pieces'[i].to \in Nat
        BY <1>0, <2>4, <3>1
      <4> QED
        BY <4>1
    <3>2. CASE i = Len(pieces')
      BY <1>1, <1>3, <3>2
    <3> QED
      BY <1>0, <1>3, <3>1, <3>2
  <2>7. \A i \in 1 .. Len(pieces') : i \in 1 .. Len(pieces) \/ i = Len(pieces')
    BY <1>0, <1>3
  <2> QED
    BY <1>3, <2>3, <2>5, <2>6, <2>7 DEF Accounted
<1>4. CASE pieces' = pieces /\ lost' = lost \cup (a + 1 .. b)
  <2>1. Bytes(pieces') = Bytes(pieces)
    BY <1>4 DEF Bytes
  <2>2. Bytes(pieces) \cup lost = 1 .. a /\ Bytes(pieces) \cap lost = {}
    BY DEF Accounted
  <2>3. Bytes(pieces') \cup lost' = 1 .. b /\ Bytes(pieces') \cap lost' = {}
    BY <1>2, <1>4, <2>1, <2>2, Zenon
  <2>4. \A i \in 1 .. Len(pieces) : pieces[i].to <= b
    <3>1. \A i \in 1 .. Len(pieces) : pieces[i].to <= a /\ pieces[i].to \in Nat
      BY <1>0 DEF Accounted
    <3> QED
      BY <3>1
  <2> QED
    BY <1>4, <2>3, <2>4 DEF Accounted
<1>5. \/ /\ Len(pieces') = Len(pieces) + 1 /\ lost' = lost /\ pieces'[Len(pieces')] = x
         /\ \A i \in 1 .. Len(pieces) : pieces'[i] = pieces[i]
      \/ pieces' = pieces /\ lost' = lost \cup (a + 1 .. b)
  <2>1. \/ pieces' = Append(pieces, x) /\ lost' = lost
        \/ pieces' = pieces /\ lost' = lost \cup (a + 1 .. b)
    BY DEF Notify
  <2> DEFINE T == [num : Nat, of : Nat, from : Nat, to : Nat, size : Int]
  <2>2. pieces \in Seq(T) /\ x \in T
    BY <1>0
  <2> HIDE DEF x, T
  <2> QED
    BY <2>1, <2>2
<1> QED
  BY <1>3, <1>4, <1>5

\* Before anything has been sent nothing is accounted for.
LEMMA NothingSent ==
  ASSUME pieces = << >>, lost = {}
  PROVE  Accounted(pieces, lost, 0) /\ AllFit
<1>1. Len(pieces) = 0 /\ \A i \in 1 .. Len(pieces) : FALSE
  OBVIOUS
<1>2. Bytes(pieces) = {}
  BY <1>1, Zenon DEF Bytes
<1>3. 1 .. 0 = {} /\ \A i \in 1 .. Len(pieces) - 1 : FALSE
  BY <1>1
<1> QED
  BY <1>1, <1>2, <1>3, Zenon DEF Accounted, AllFit

\* The bytes of the current fragment: it begins and ends within the natural
\* numbers, whatever the MTU has become.
LEMMA FragmentType ==
  ASSUME TypeOK, at = "send"
  PROVE  LET from == (current_num - 1) * Payload
             to   == IF current_num < total_num THEN from + Payload ELSE linesize
         IN from \in Nat /\ to \in Nat /\ to - from + 4 \in Int /\ from + 1 \in Nat
<1>1. current_num - 1 \in Nat /\ Payload \in Nat /\ linesize \in Nat
  BY PayloadType, UplinkAssumption DEF TypeOK
<1>2. (current_num - 1) * Payload \in Nat
  BY <1>1
<1> QED
  BY <1>1, <1>2

\* A restart leaves nothing of what was going on.
LEMMA RestartInv == Restart => IInv'
<1> SUFFICES ASSUME Restart PROVE IInv'
  OBVIOUS
<1>1. /\ << >> \in Seq({"char", "newline"})
      /\ << >> \in Seq([num : Nat, of : Nat, from : Nat, to : Nat, size : Int])
      /\ Len(<< >>) = 0 /\ 0 \in 0 .. TxLen /\ 0 \in 0 .. BufSize
  BY UplinkAssumption
<1>2. TypeOK'
  <2>1. tx_queue' \in Seq({"char", "newline"}) /\ Len(tx_queue') <= TxLen
    BY <1>1, UplinkAssumption DEF Restart
  <2>2. text' \in [by : {"printf", "putline"}, left : 0 .. TxLen]
    BY <1>1 DEF Restart
  <2> QED
    BY <1>1, <2>1, <2>2, UplinkAssumption DEF Restart, TypeOK, Sending
<1>3. CountInv'
  BY DEF Restart, CountInv
<1>4. LineInv'
  BY DEF Restart, LineInv
<1> QED
  BY <1>2, <1>3, <1>4 DEF IInv

-----------------------------------------------------------------------------
(* The inductive invariant, action by action.                              *)

\* The events of the Bluetooth task: they leave the line alone, and one that
\* could disturb it is remembered.
LEMMA BluetoothStep ==
  ASSUME IInv,
         Connect \/ Disconnect \/ (\E mtu \in Mtus : MtuExchange(mtu))
           \/ (\E on \in BOOLEAN : Subscribe(on))
  PROVE  IInv'
<1> USE DEF IInv
<1>1. /\ UNCHANGED <<tx_queue, text, at, locals, sent>> /\ raced' \in BOOLEAN
      /\ is_connected' \in BOOLEAN /\ enable_data_ntf' \in BOOLEAN
      /\ spp_mtu_size' \in Mtus /\ peer' \in Mtus
      /\ ~raced' /\ at \in {"alloc", "send", "sent"} => ~raced /\ spp_mtu_size' = spp_mtu_size
  <2>1. CASE Connect
    BY <2>1, UplinkAssumption DEF Connect, Race, TypeOK
  <2>2. CASE Disconnect
    BY <2>2 DEF Disconnect, Race, TypeOK
  <2>3. CASE \E mtu \in Mtus : MtuExchange(mtu)
    BY <2>3 DEF MtuExchange, Race, TypeOK
  <2>4. CASE \E on \in BOOLEAN : Subscribe(on)
    BY <2>4 DEF Subscribe, TypeOK
  <2> QED
    BY <2>1, <2>2, <2>3, <2>4
<1>2. TypeOK'
  BY <1>1 DEF TypeOK, locals, sent
<1>3. CountInv'
  BY <1>1 DEF CountInv, locals, sent
<1>4. LineInv'
  <2> SUFFICES ASSUME ~raced', at \in {"alloc", "send", "sent"} PROVE LineInv'
    BY <1>1 DEF LineInv
  <2>1. ~raced /\ spp_mtu_size' = spp_mtu_size /\ Payload' = Payload
    BY <1>1 DEF Sending, Payload
  <2>2. Counted' = Counted /\ SentSoFar' = SentSoFar /\ Arrived' = Arrived
    BY <1>1, <2>1 DEF Counted, SentSoFar, Arrived, AllFit, Fits, Payload, locals, sent
  <2> QED
    BY <1>1, <2>1, <2>2 DEF LineInv
<1> QED
  BY <1>2, <1>3, <1>4

\* The tasks that print: they touch the queue and their text only, or restart.
LEMMA PrintStep ==
  ASSUME IInv,
         PutChar \/ NoRoom \/ \E by \in {"printf", "putline"}, size \in TextSizes : PrintText(by, size)
  PROVE  IInv'
<1> USE DEF IInv
<1>1. CASE Restart
  BY <1>1, RestartInv
<1>2. CASE ~Restart
  <2>1. /\ tx_queue' \in Seq({"char", "newline"}) /\ Len(tx_queue') <= TxLen
        /\ text' \in [by : {"printf", "putline"}, left : 0 .. TxLen]
        /\ UNCHANGED <<conn, at, locals, sent, raced>>
    <3>1. CASE PutChar
      <4>1. tx_queue' \in Seq({"char", "newline"}) /\ Len(tx_queue') <= TxLen
        BY <3>1, QueueType, UplinkAssumption DEF PutChar, TypeOK
      <4>2. text.left - 1 \in 0 .. TxLen
        BY <3>1, TextType DEF PutChar
      <4> QED
        BY <3>1, <4>1, <4>2, TextType DEF PutChar
    <3>2. CASE NoRoom
      <4>1. 0 \in 0 .. TxLen
        BY UplinkAssumption
      <4> QED
        BY <1>2, <3>2, <4>1, TextType DEF NoRoom, TypeOK
    <3>3. CASE \E by \in {"printf", "putline"}, size \in TextSizes : PrintText(by, size)
      <4>1. TextSizes \subseteq 0 .. TxLen
        BY UplinkAssumption
      <4> QED
        BY <3>3, <4>1 DEF PrintText, TypeOK
    <3> QED
      BY <3>1, <3>2, <3>3
  <2>2. TypeOK'
    BY <2>1 DEF TypeOK, conn, locals, sent
  <2>3. CountInv'
    BY <2>1 DEF CountInv, locals, sent
  <2>4. Counted' = Counted /\ SentSoFar' = SentSoFar /\ Arrived' = Arrived
    BY <2>1 DEF Counted, SentSoFar, Arrived, AllFit, Fits, Payload, conn, locals, sent
  <2> QED
    BY <2>1, <2>2, <2>3, <2>4 DEF LineInv
<1> QED
  BY <1>1, <1>2

\* Reading a line: nothing of it has been sent yet.
LEMMA ReadStep ==
  ASSUME IInv, StartRead \/ ReadChar \/ ReadTimeout
  PROVE  IInv'
<1> USE DEF IInv
<1>1. /\ tx_queue' \in Seq({"char", "newline"}) /\ Len(tx_queue') <= TxLen
      /\ at' \in {"check", "read", "size"} /\ at \in {"check", "read"}
      /\ (at' = "check" => linesize' = 0) /\ (at' = "read" => linesize' < BufSize)
      /\ linesize' \in 0 .. BufSize /\ (at' = "size" => linesize' > 0)
      /\ UNCHANGED <<conn, text, total_num, current_num, room, sent, raced>>
  <2>1. CASE StartRead
    BY <2>1, UplinkAssumption DEF StartRead, TypeOK, CountInv, locals
  <2>2. CASE ReadChar
    <3>1. tx_queue' \in Seq({"char", "newline"}) /\ Len(tx_queue') <= TxLen
      <4>1. /\ tx_queue \in Seq({"char", "newline"}) /\ Len(tx_queue) \in Nat /\ Len(tx_queue) <= TxLen
            /\ tx_queue # << >> /\ tx_queue' = Tail(tx_queue)
        BY <2>2 DEF ReadChar, TypeOK
      <4>2. Tail(tx_queue) \in Seq({"char", "newline"}) /\ Len(Tail(tx_queue)) = Len(tx_queue) - 1
        BY <4>1, QueueType
      <4> QED
        BY <4>1, <4>2, UplinkAssumption
    <3>2. linesize' \in 0 .. BufSize /\ (at' = "size" => linesize' > 0) /\ (at' = "read" => linesize' < BufSize)
      BY <2>2, UplinkAssumption DEF ReadChar, TypeOK, CountInv
    <3> QED
      BY <2>2, <3>1, <3>2 DEF ReadChar
  <2>3. CASE ReadTimeout
    BY <2>3, UplinkAssumption DEF ReadTimeout, TypeOK, locals
  <2> QED
    BY <2>1, <2>2, <2>3
<1>2. TypeOK'
  BY <1>1 DEF TypeOK, conn, Sending, sent
<1>3. CountInv'
  BY <1>1 DEF CountInv, sent
<1>4. LineInv'
  BY <1>1 DEF LineInv
<1> QED
  BY <1>2, <1>3, <1>4

\* A line that the MTU admits is one notification.
LEMMA WholeStep ==
  ASSUME IInv, SendWhole
  PROVE  IInv'
<1> USE DEF IInv
<1>1. linesize \in Nat /\ linesize > 0 /\ pieces = << >> /\ lost = {} /\ linesize <= spp_mtu_size - 3
  BY UplinkAssumption DEF SendWhole, TypeOK, CountInv, Sending
<1>2. Notify(0, 0, 1, linesize, linesize) /\ at' = "sent"
      /\ UNCHANGED <<conn, tx_queue, text, locals, raced>>
  BY DEF SendWhole
<1>3. /\ pieces' \in Seq([num : Nat, of : Nat, from : Nat, to : Nat, size : Int])
      /\ lost' \subseteq Nat
  <2>1. 0 \in Nat /\ 1 \in Nat /\ linesize \in Nat /\ linesize \in Int
    BY <1>1
  <2> QED
    BY <1>2, <2>1, NotifyType, Zenon
<1>4. TypeOK'
  BY <1>2, <1>3 DEF TypeOK, SendWhole, conn, locals, Sending
<1>5. CountInv'
  BY <1>2 DEF CountInv, SendWhole, locals
<1>6. Notify(0, 0, 0 + 1, linesize, linesize)
  BY <1>2
<1>7. /\ Accounted(pieces', lost', linesize)
      /\ \A i \in 1 .. Len(pieces') :
           \/ i \in 1 .. Len(pieces) /\ pieces'[i] = pieces[i]
           \/ pieces'[i] = [num |-> 0, of |-> 0, from |-> 0 + 1, to |-> linesize, size |-> linesize]
  <2>1. Accounted(pieces, lost, 0)
    BY <1>1, NothingSent
  <2>3. linesize \in Int /\ 0 \in Nat /\ 0 < linesize
    BY <1>1
  <2> QED
    BY <1>1, <1>6, <2>1, <2>3, NextBytes
<1>8. AllFit'
  <2>1. spp_mtu_size' = spp_mtu_size
    BY <1>2 DEF conn
  <2>2. \A i \in 1 .. Len(pieces) : FALSE
    BY <1>1
  <2> SUFFICES ASSUME NEW i \in 1 .. Len(pieces') PROVE Fits(pieces[i])'
    BY DEF AllFit
  <2>3. pieces'[i] = [num |-> 0, of |-> 0, from |-> 0 + 1, to |-> linesize, size |-> linesize]
    BY <1>7, <2>2
  <2>4. /\ pieces'[i].from = 1 /\ pieces'[i].to = linesize /\ pieces'[i].size = linesize
        /\ pieces'[i].of = 0
    BY <2>3
  <2> QED
    BY <1>1, <2>1, <2>4 DEF Fits
<1>9. LineInv'
  BY <1>2, <1>7, <1>8 DEF LineInv, Arrived, locals
<1> QED
  BY <1>4, <1>5, <1>9

\* The fragments of a longer line are counted, and the buffer is allocated.
LEMMA CountStep ==
  ASSUME IInv, TooLong \/ CountFragments \/ Allocate
  PROVE  IInv'
<1> USE DEF IInv
<1>1. CASE TooLong
  BY <1>1 DEF TooLong, TypeOK, CountInv, LineInv, conn, locals, sent, Sending
<1>2. CASE CountFragments
  <2>1. /\ at = "total" /\ at' = "alloc" /\ current_num' = 1
        /\ UNCHANGED <<conn, tx_queue, text, linesize, room, sent, raced>>
    BY <1>2 DEF CountFragments
  <2>2. linesize \in 1 .. BufSize
    BY <2>1, UplinkAssumption DEF TypeOK, Sending
  <2>3. total_num' \in 1 .. BufSize /\ total_num' <= 254
    BY <1>2, <2>2, FragmentCount, UplinkAssumption
  <2>4. TypeOK'
    BY <2>1, <2>3, UplinkAssumption DEF TypeOK, conn, sent, Sending
  <2>5. CountInv'
    BY <2>1, <2>3 DEF CountInv, sent
  <2>6. Counted'
    BY <1>2, <2>1, FragmentCount DEF Counted, Payload, conn
  <2> QED
    BY <2>1, <2>4, <2>5, <2>6 DEF LineInv
<1>3. CASE Allocate
  <2>1. /\ at = "alloc" /\ at' \in {"send", "dead"} /\ room' \in Nat
        /\ at' = "send" => room' = spp_mtu_size - 3
        /\ UNCHANGED <<conn, tx_queue, text, linesize, total_num, current_num, sent, raced>>
    BY <1>3, PayloadType DEF Allocate, TypeOK
  <2>2. pieces = << >> /\ lost = {} /\ total_num \in 1 .. BufSize /\ current_num = 1
    BY <2>1 DEF CountInv
  <2>3. TypeOK'
    BY <2>1, <2>2, UplinkAssumption DEF TypeOK, conn, sent, Sending
  <2>4. CountInv'
    BY <2>1 DEF CountInv
  <2>5. LineInv'
    <3>1. Counted' = Counted
      BY <2>1 DEF Counted, Payload, conn
    <3>2. at' = "send" => SentSoFar'
      <4>1. Accounted(pieces, lost, 0)
        BY <2>2, NothingSent
      <4>2. (current_num - 1) * Payload = 0
        BY <2>2, PayloadType
      <4>3. UNCHANGED <<spp_mtu_size, current_num, pieces, lost>> /\ Payload' = Payload
        BY <2>1 DEF conn, sent, Payload
      <4>4. AllFit'
        BY <2>2, <4>3 DEF AllFit
      <4> QED
        BY <2>1, <4>1, <4>2, <4>3, <4>4 DEF SentSoFar
    <3> QED
      BY <2>1, <3>1, <3>2 DEF LineInv
  <2> QED
    BY <2>3, <2>4, <2>5
<1> QED
  BY <1>1, <1>2, <1>3

\* While nothing changes, the next fragment begins where the one before it
\* ended, the last one ends with the line, and each fits.
LEMMA FragmentSent ==
  ASSUME IInv, SendFragment, ~Restart, ~raced
  PROVE  /\ at' = "send" => SentSoFar'
         /\ at' = "sent" => Arrived'
<1> USE DEF IInv
<1> DEFINE from == (current_num - 1) * Payload
           to   == IF current_num < total_num THEN from + Payload ELSE linesize
           x    == [num |-> current_num, of |-> total_num, from |-> from + 1, to |-> to,
                    size |-> to - from + 4]
<1>1. /\ at = "send" /\ current_num' = current_num + 1
      /\ Notify(current_num, total_num, from + 1, to, to - from + 4)
      /\ at' = IF current_num < total_num THEN "send" ELSE "sent"
      /\ UNCHANGED <<conn, tx_queue, text, linesize, total_num, room, raced>>
  BY DEF SendFragment
<1>2. /\ total_num \in Nat /\ current_num \in 1 .. total_num /\ current_num \in Nat
      /\ linesize \in Nat /\ Payload \in Nat \ {0} /\ spp_mtu_size \in Nat
      /\ Payload = spp_mtu_size - 7
  BY <1>1, PayloadType, UplinkAssumption DEF TypeOK, Payload
<1>3. from \in Nat /\ from + 1 \in Nat /\ to \in Nat /\ to - from + 4 \in Int
  BY <1>1, FragmentType
<1>4. Counted /\ SentSoFar
  BY <1>1 DEF LineInv
<1>5. from < to /\ to - from <= Payload
  <2>1. CASE current_num < total_num
    <3> HIDE DEF from
    <3> QED
      BY <1>2, <1>3, <2>1
  <2>2. CASE ~(current_num < total_num)
    <3>1. current_num = total_num /\ to = linesize /\ from < linesize
      BY <1>2, <1>4, <2>2 DEF Counted
    <3>2. linesize <= from + Payload
      BY <1>2, <1>4, <3>1 DEF Counted
    <3> HIDE DEF from, to
    <3> QED
      BY <1>2, <1>3, <3>1, <3>2
  <2> QED
    BY <2>1, <2>2
<1>6. /\ spp_mtu_size' = spp_mtu_size /\ Payload' = Payload /\ linesize' = linesize /\ room' = room
      /\ total_num' = total_num
  BY <1>1 DEF conn, Payload
<1>7. Accounted(pieces, lost, from) /\ AllFit /\ room = spp_mtu_size - 3
  BY <1>4 DEF SentSoFar
<1>8. /\ Accounted(pieces', lost', to)
      /\ \A i \in 1 .. Len(pieces') :
           (i \in 1 .. Len(pieces) /\ pieces'[i] = pieces[i]) \/ pieces'[i] = x
  <2> HIDE DEF from, to
  <2> QED
    BY <1>1, <1>2, <1>3, <1>5, <1>7, NextBytes DEF x
<1>9. AllFit'
  <2> SUFFICES ASSUME NEW i \in 1 .. Len(pieces') PROVE Fits(pieces[i])'
    BY DEF AllFit
  <2>1. CASE i \in 1 .. Len(pieces) /\ pieces'[i] = pieces[i]
    BY <1>6, <1>7, <2>1 DEF AllFit, Fits
  <2>2. CASE pieces'[i] = x
    <3> HIDE DEF from, to
    <3>1. /\ pieces'[i].from = from + 1 /\ pieces'[i].to = to /\ pieces'[i].size = to - from + 4
          /\ pieces'[i].num = current_num /\ pieces'[i].of = total_num
      BY <2>2 DEF x
    <3>2. from + 1 <= to /\ to - from + 4 <= spp_mtu_size - 3
      BY <1>2, <1>3, <1>5
    <3>3. (total_num - 1) * Payload < linesize /\ linesize <= total_num * Payload
      BY <1>4 DEF Counted
    <3>4. from + 1 = (current_num - 1) * Payload + 1
      BY DEF from
    <3> QED
      BY <1>6, <1>7, <3>1, <3>2, <3>3, <3>4, Zenon DEF Fits
  <2> QED
    BY <1>8, <2>1, <2>2
<1>10. ASSUME current_num < total_num PROVE SentSoFar'
  <2>1. to = (current_num' - 1) * Payload'
    <3>1. to = from + Payload /\ current_num' - 1 = current_num
      BY <1>1, <1>2, <1>10
    <3> QED
      BY <1>2, <1>6, <3>1
  <2> QED
    BY <1>6, <1>7, <1>8, <1>9, <2>1 DEF SentSoFar
<1>11. ASSUME ~(current_num < total_num) PROVE Arrived'
  BY <1>6, <1>8, <1>9, <1>11 DEF Arrived
<1> QED
  BY <1>1, <1>10, <1>11

\* A fragment that does not fit may restart the chip; otherwise it is sent.
LEMMA SendStep ==
  ASSUME IInv, SendFragment
  PROVE  IInv'
<1>1. CASE Restart
  BY <1>1, RestartInv
<1>2. CASE ~Restart
  <2> USE DEF IInv
  <2> DEFINE from == (current_num - 1) * Payload
             to   == IF current_num < total_num THEN from + Payload ELSE linesize
  <2>1. /\ at = "send" /\ current_num' = current_num + 1
        /\ Notify(current_num, total_num, from + 1, to, to - from + 4)
        /\ at' = IF current_num < total_num THEN "send" ELSE "sent"
        /\ UNCHANGED <<conn, tx_queue, text, linesize, total_num, room, raced>>
    BY <1>2 DEF SendFragment
  <2>2. /\ pieces' \in Seq([num : Nat, of : Nat, from : Nat, to : Nat, size : Int])
        /\ lost' \subseteq Nat
    <3>0. current_num \in Nat /\ total_num \in Nat
      BY DEF TypeOK
    <3>1. from + 1 \in Nat /\ to \in Nat /\ to - from + 4 \in Int
      BY <2>1, FragmentType
    <3> QED
      BY <2>1, <3>0, <3>1, NotifyType, Zenon
  <2> HIDE DEF from, to
  <2>3. total_num \in 1 .. BufSize /\ current_num \in 1 .. total_num
    BY <2>1 DEF TypeOK
  <2>4. TypeOK'
    <3>1. current_num' \in Nat /\ (at' = "send" => current_num' \in 1 .. total_num')
      BY <2>1, <2>3, UplinkAssumption
    <3> QED
      BY <2>1, <2>2, <2>3, <3>1 DEF TypeOK, conn, Sending
  <2>5. CountInv'
    BY <2>1, <2>3, UplinkAssumption DEF CountInv
  <2>6. LineInv'
    <3>1. Counted' = Counted
      BY <2>1 DEF Counted, Payload, conn
    <3>2. SUFFICES ASSUME ~raced PROVE LineInv'
      BY <2>1 DEF LineInv
    <3> QED
      BY <1>2, <2>1, <3>1, <3>2, FragmentSent DEF LineInv
  <2> QED
    BY <2>4, <2>5, <2>6
<1> QED
  BY <1>1, <1>2

\* The next line starts afresh.
LEMMA LineSentStep ==
  ASSUME IInv, LineSent
  PROVE  IInv'
<1> USE DEF IInv
<1>1. << >> \in Seq([num : Nat, of : Nat, from : Nat, to : Nat, size : Int]) /\ 0 \in 0 .. BufSize
  BY UplinkAssumption
<1>2. TypeOK'
  BY <1>1 DEF LineSent, TypeOK, conn, Sending
<1>3. CountInv'
  BY DEF LineSent, CountInv
<1> QED
  BY <1>2, <1>3 DEF LineSent, LineInv

-----------------------------------------------------------------------------

\* Before anything has happened the invariant holds, as after a restart.
LEMMA InitInv == Init => IInv
<1> SUFFICES ASSUME Init PROVE IInv
  OBVIOUS
<1>1. /\ << >> \in Seq({"char", "newline"})
      /\ << >> \in Seq([num : Nat, of : Nat, from : Nat, to : Nat, size : Int])
      /\ Len(<< >>) = 0 /\ 0 \in 0 .. TxLen /\ 0 \in 0 .. BufSize
  BY UplinkAssumption
<1>2. TypeOK
  <2>1. tx_queue \in Seq({"char", "newline"}) /\ Len(tx_queue) <= TxLen
    BY <1>1, UplinkAssumption DEF Init
  <2>2. text \in [by : {"printf", "putline"}, left : 0 .. TxLen]
    BY <1>1 DEF Init
  <2> QED
    BY <1>1, <2>1, <2>2, UplinkAssumption DEF Init, TypeOK, Sending
<1>3. CountInv
  BY DEF Init, CountInv
<1>4. LineInv
  BY DEF Init, LineInv
<1> QED
  BY <1>2, <1>3, <1>4 DEF IInv

\* Every step keeps the invariant.
LEMMA StepInv == IInv /\ [Next]_vars => IInv'
<1> SUFFICES ASSUME IInv, [Next]_vars PROVE IInv'
  OBVIOUS
<1>1. CASE StartRead \/ ReadChar \/ ReadTimeout
  BY <1>1, ReadStep
<1>2. CASE SendWhole
  BY <1>2, WholeStep
<1>3. CASE TooLong \/ CountFragments \/ Allocate
  BY <1>3, CountStep
<1>4. CASE SendFragment
  BY <1>4, SendStep
<1>5. CASE LineSent
  BY <1>5, LineSentStep
<1>6. CASE PutChar \/ NoRoom \/ \E by \in {"printf", "putline"}, size \in TextSizes : PrintText(by, size)
  BY <1>6, PrintStep
<1>7. CASE Connect \/ Disconnect \/ (\E mtu \in Mtus : MtuExchange(mtu))
             \/ (\E on \in BOOLEAN : Subscribe(on))
  BY <1>7, BluetoothStep
<1>8. CASE UNCHANGED vars
  BY <1>8 DEF IInv, TypeOK, CountInv, LineInv, Counted, SentSoFar, Arrived, AllFit, Fits,
              Payload, vars, conn, locals, sent
<1> QED
  BY <1>1, <1>2, <1>3, <1>4, <1>5, <1>6, <1>7, <1>8 DEF Next, LinkStep

\* What link_task has sent of a line that no change of connection or MTU has met
\* is its first fragments, one after the other, each with the client or lost
\* (ble_spp_server.c:315-354).
THEOREM InvariantHolds == Spec => []IInv
  BY InitInv, StepInv, PTL DEF Spec

\* The variables keep their types: link_task's numbers stay natural, a line is
\* no longer than the buffer, and no fragment begins before its first byte,
\* whatever the MTU becomes meanwhile.
THEOREM TypeCorrect == Spec => []TypeOK
<1>1. IInv => TypeOK
  BY DEF IInv
<1> QED
  BY <1>1, InvariantHolds, PTL

\* The counters of fragments are bytes in the code (ble_spp_server.c:298), and
\* neither wraps around: the loop over the fragments ends.
THEOREM CountersFitBytes == Spec => [](total_num <= 255 /\ current_num <= 255)
<1>1. IInv => total_num <= 255 /\ current_num <= 255
  <2> SUFFICES ASSUME IInv PROVE total_num <= 255 /\ current_num <= 255
    OBVIOUS
  <2>1. total_num \in Nat /\ total_num <= 254 /\ current_num \in Nat
    BY DEF IInv, TypeOK, CountInv
  <2>2. current_num <= total_num + 1
    BY <2>1 DEF IInv, TypeOK, CountInv, Sending
  <2> QED
    BY <2>1, <2>2
<1> QED
  BY <1>1, InvariantHolds, PTL

\* Of a line that has been sent the client has exactly the bytes whose send did
\* not fail, each once, in order, within the MTU and the buffer and with a header
\* that tells their place, for every length of a line, every MTU and any sends
\* that fail (ble_spp_server.c:322-355); excepted is a line after whose fragments
\* were counted the connection or the MTU changed, or whose client's MTU is not
\* the one link_task reads.
THEOREM LineArrivesHolds == Spec => []LineArrives
<1>1. IInv => LineArrives
  <2> SUFFICES ASSUME IInv, at = "sent" /\ ~raced /\ is_connected /\ spp_mtu_size = peer
               PROVE  LineArrives
    BY DEF LineArrives
  <2>1. Accounted(pieces, lost, linesize) /\ AllFit /\ Payload = peer - 7
    BY DEF IInv, LineInv, Arrived, Payload
  <2>2. Got = Bytes(pieces)
    BY DEF Got, Bytes
  <2> QED
    BY <2>1, <2>2 DEF LineArrives, Accounted, AllFit, Fits
<1> QED
  BY <1>1, InvariantHolds, PTL
=============================================================================
