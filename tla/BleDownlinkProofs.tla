------------------------- MODULE BleDownlinkProofs --------------------------
(***************************************************************************)
(* The text of each way reaches the reader in order and at most once, and  *)
(* the prepared list stays whole, for queues of any length, writes of any  *)
(* size and any number of list nodes.  OrderInv follows the characters     *)
(* from the client to the reader; for those in the prepared list it needs  *)
(* ListInv, which follows the list through printing and freeing.           *)
(***************************************************************************)
EXTENDS BleDownlink, TLAPS, FiniteSetTheorems, SequenceTheorems

\* The characters of A come before those of B of the same way.
Before(A, B) == \A c \in A, d \in B : c.way = d.way => c.num < d.num

\* A text is in order.
Ordered(text) ==
  \A i, j \in 1 .. Len(text) :
    i < j /\ text[i].way = text[j].way => text[i].num < text[j].num

Chars(x) == ToSet(node[x].node_buff)

\* The characters of a sequence of texts.
CharsOf(texts) == UNION { ToSet(text) : text \in ToSet(texts) }

Commands == CharsOf(cmd_cmd_queue)

\* Character c waits for the reader in one of these places.
InPlace(c) ==
  \/ c \in ToSet(rx_queue) \/ c \in ToSet(push["bt"]) \/ c \in ToSet(push["cmd"])
  \/ c \in Commands \/ \E x \in heap \ printed : c \in Chars(x)

\* Which way the characters in each place have come.
WayInv ==
  /\ \A c \in ToSet(push["bt"]) : c.way # "command"
  /\ \A c \in ToSet(push["cmd"]) \cup Commands : c.way = "command"
  /\ \A x \in heap : node[x].node_buff # << >> /\ \A c \in Chars(x) : c.way = "prepared"

\* What waits has been sent and not been read.
WaitInv ==
  /\ \A w \in Ways : got[w] <= sent[w]
  /\ \A c \in Waiting : got[c.way] < c.num /\ c.num <= sent[c.way]

\* What is nearer to the reader has been sent earlier.
OrderInv ==
  /\ Ordered(rx_queue)
  /\ \A t \in Links : Ordered(push[t]) /\ Before(ToSet(rx_queue), ToSet(push[t]))
  /\ Before(ToSet(rx_queue) \cup ToSet(push["cmd"]), Commands)
  /\ \A i \in 1 .. Len(cmd_cmd_queue) : Ordered(cmd_cmd_queue[i])
  /\ \A i, j \in 1 .. Len(cmd_cmd_queue) :
       i < j => Before(ToSet(cmd_cmd_queue[i]), ToSet(cmd_cmd_queue[j]))
  /\ \A x \in heap : Ordered(node[x].node_buff)
  /\ \A x \in heap \ printed : Before(ToSet(rx_queue) \cup ToSet(push["bt"]), Chars(x))

\* The nodes in memory, each once, in the order of the links and of the texts.
IsList(s) ==
  /\ s \in Seq(Nodes) /\ heap = ToSet(s)
  /\ \A i, j \in 1 .. Len(s) : i < j => s[i] # s[j] /\ Before(Chars(s[i]), Chars(s[j]))
  /\ \A i \in 1 .. Len(s) : node[s[i]].next_node = IF i = Len(s) THEN Null ELSE s[i + 1]

\* Both ends of the list are known.
Ends(s) ==
  /\ node_num = Len(s)
  /\ first_node = IF s = << >> THEN Null ELSE s[1]
  /\ p2 = IF s = << >> THEN Null ELSE s[Len(s)]

\* p1 has come to place k.
At(s, k) == p1 = IF k = Len(s) + 1 THEN Null ELSE s[k]

\* What is printed is a prefix of the list; what is freed is printed.
ListOf(s) ==
  /\ IsList(s)
  /\ exec # "free" => Ends(s)
  /\ exec = "no" => printed = {}
  /\ exec = "print" =>
       \E k \in 1 .. Len(s) + 1 : At(s, k) /\ printed = { s[i] : i \in 1 .. k - 1 }
  /\ exec = "free" => printed = heap /\ At(s, 1) /\ (s = << >> => p2 = Null)

ListInv == \E s \in Seq(Nodes) : ListOf(s)

IInv == TypeOK /\ WayInv /\ WaitInv /\ OrderInv /\ ListInv

-----------------------------------------------------------------------------
(* Texts and queues.                                                       *)

\* Adding to the end of a sequence adds to its elements.
LEMMA ToSetAppend ==
  ASSUME NEW S, NEW s \in Seq(S), NEW e \in S
  PROVE  ToSet(Append(s, e)) = ToSet(s) \cup {e}
<1>1. DOMAIN s = 1 .. Len(s) /\ Len(s) \in Nat
  OBVIOUS
<1>2. DOMAIN Append(s, e) = 1 .. Len(s) + 1
  OBVIOUS
<1>3. Append(s, e)[Len(s) + 1] = e /\ \A i \in 1 .. Len(s) : Append(s, e)[i] = s[i]
  OBVIOUS
<1>4. \A i \in 1 .. Len(s) + 1 : i \in 1 .. Len(s) \/ i = Len(s) + 1
  BY <1>1
<1>5. Len(s) + 1 \in 1 .. Len(s) + 1 /\ 1 .. Len(s) \subseteq 1 .. Len(s) + 1
  BY <1>1
<1> QED
  BY <1>1, <1>2, <1>3, <1>4, <1>5, Zenon DEF ToSet

\* Taking the head of a sequence takes it from its elements.
LEMMA ToSetTail ==
  ASSUME NEW S, NEW s \in Seq(S), s # << >>
  PROVE  ToSet(s) = {Head(s)} \cup ToSet(Tail(s))
<1>1. Len(s) \in Nat /\ Len(s) > 0 /\ DOMAIN s = 1 .. Len(s) /\ Head(s) = s[1]
  OBVIOUS
<1>2. Tail(s) \in Seq(S) /\ Len(Tail(s)) = Len(s) - 1 /\ \A i \in 1 .. Len(Tail(s)) : Tail(s)[i] = s[i + 1]
  BY HeadTailProperties
<1>3. DOMAIN Tail(s) = 1 .. Len(s) - 1
  BY <1>2
<1>4. ToSet(s) \subseteq {Head(s)} \cup ToSet(Tail(s))
  <2> SUFFICES ASSUME NEW i \in 1 .. Len(s), i # 1 PROVE s[i] \in ToSet(Tail(s))
    BY <1>1 DEF ToSet
  <2>1. i - 1 \in 1 .. Len(s) - 1 /\ (i - 1) + 1 = i
    BY <1>1
  <2>2. Tail(s)[i - 1] = s[i]
    BY <1>2, <2>1
  <2> QED
    BY <1>3, <2>1, <2>2 DEF ToSet
<1>5. ToSet(Tail(s)) \subseteq ToSet(s)
  <2> SUFFICES ASSUME NEW i \in 1 .. Len(s) - 1 PROVE Tail(s)[i] \in ToSet(s)
    BY <1>3 DEF ToSet
  <2>1. i + 1 \in 1 .. Len(s) /\ Tail(s)[i] = s[i + 1]
    BY <1>1, <1>2
  <2> QED
    BY <1>1, <2>1 DEF ToSet
<1>6. Head(s) \in ToSet(s)
  BY <1>1 DEF ToSet
<1> QED
  BY <1>4, <1>5, <1>6

\* The elements of a sequence are its values at its places.
LEMMA ToSetDef ==
  ASSUME NEW S, NEW s \in Seq(S)
  PROVE  ToSet(s) = { s[i] : i \in 1 .. Len(s) } /\ ToSet(s) \subseteq S
  BY DEF ToSet

\* The empty sequence has none.
LEMMA ToSetEmpty == ToSet(<< >>) = {}
  BY DEF ToSet

\* A text stays in order when a later character is added.
LEMMA OrderedAppend ==
  ASSUME NEW s \in Seq(Char), NEW c \in Char, Ordered(s), Before(ToSet(s), {c})
  PROVE  Ordered(Append(s, c))
<1>1. Len(s) \in Nat /\ Len(Append(s, c)) = Len(s) + 1
  OBVIOUS
<1> SUFFICES ASSUME NEW i \in 1 .. Len(s) + 1, NEW j \in 1 .. Len(s) + 1, i < j,
                    Append(s, c)[i].way = Append(s, c)[j].way
             PROVE  Append(s, c)[i].num < Append(s, c)[j].num
  BY <1>1 DEF Ordered
<1>2. i \in 1 .. Len(s) /\ Append(s, c)[i] = s[i]
  BY <1>1
<1>3. CASE j = Len(s) + 1
  <2>1. Append(s, c)[j] = c /\ s[i] \in ToSet(s)
    BY <1>1, <1>2, <1>3 DEF ToSet
  <2> QED
    BY <1>2, <2>1 DEF Before
<1>4. CASE j \in 1 .. Len(s)
  <2>1. Append(s, c)[j] = s[j]
    BY <1>1, <1>4
  <2> QED
    BY <1>2, <1>4, <2>1 DEF Ordered
<1> QED
  BY <1>1, <1>3, <1>4

\* A text in order has its first character before the others, which stay in
\* order.
LEMMA OrderedTail ==
  ASSUME NEW s \in Seq(Char), s # << >>, Ordered(s)
  PROVE  Ordered(Tail(s)) /\ Before({Head(s)}, ToSet(Tail(s)))
<1>1. Len(s) \in Nat /\ Len(s) > 0 /\ Head(s) = s[1]
  OBVIOUS
<1>2. Tail(s) \in Seq(Char) /\ Len(Tail(s)) = Len(s) - 1 /\ \A i \in 1 .. Len(Tail(s)) : Tail(s)[i] = s[i + 1]
  BY HeadTailProperties
<1>3. \A i \in 1 .. Len(Tail(s)) : i + 1 \in 1 .. Len(s) /\ 1 < i + 1 /\ Tail(s)[i] = s[i + 1]
  BY <1>1, <1>2
<1>4. Ordered(Tail(s))
  <2> SUFFICES ASSUME NEW i \in 1 .. Len(Tail(s)), NEW j \in 1 .. Len(Tail(s)), i < j,
                      Tail(s)[i].way = Tail(s)[j].way
               PROVE  Tail(s)[i].num < Tail(s)[j].num
    BY DEF Ordered
  <2>1. i + 1 < j + 1 /\ i + 1 \in 1 .. Len(s) /\ j + 1 \in 1 .. Len(s)
    BY <1>1, <1>2
  <2> QED
    BY <1>3, <2>1 DEF Ordered
<1>5. Before({Head(s)}, ToSet(Tail(s)))
  <2> SUFFICES ASSUME NEW i \in 1 .. Len(Tail(s)), s[1].way = Tail(s)[i].way
               PROVE  s[1].num < Tail(s)[i].num
    BY <1>1, <1>2 DEF Before, ToSet
  <2>1. 1 \in 1 .. Len(s)
    BY <1>1
  <2> QED
    BY <1>3, <2>1 DEF Ordered
<1> QED
  BY <1>4, <1>5

\* Where characters wait.
LEMMA WaitingPlaces == \A c : c \in Waiting <=> InPlace(c)
<1> DEFINE Prepared == UNION { ToSet(node[x].node_buff) : x \in heap \ printed }
<1>1. \A c : c \in Prepared <=> \E x \in heap \ printed : c \in Chars(x)
  <2> DEFINE Texts == { Chars(x) : x \in heap \ printed }
  <2>1. Prepared = UNION Texts
    BY DEF Chars
  <2>2. \A c : c \in UNION Texts <=> \E T \in Texts : c \in T
    OBVIOUS
  <2>3. \A T : T \in Texts <=> \E x \in heap \ printed : T = Chars(x)
    OBVIOUS
  <2> HIDE DEF Texts, Prepared
  <2> QED
    BY <2>1, <2>2, <2>3
<1>2. Waiting = ToSet(rx_queue) \cup ToSet(push["bt"]) \cup ToSet(push["cmd"]) \cup Commands \cup Prepared
  BY DEF Waiting, Commands, CharsOf
<1> HIDE DEF Prepared
<1> QED
  BY <1>1, <1>2 DEF InPlace

\* The same of the next state.
LEMMA WaitingPlacesNext == (\A c : c \in Waiting <=> InPlace(c))'
  BY WaitingPlaces, PTL

\* What the client sends is a text in order, of characters it has not sent yet.
LEMMA TextFacts ==
  ASSUME TypeOK, NEW w \in Ways, NEW n \in 1 .. MaxWrite, sent[w] + n <= MaxSent
  PROVE  /\ Text(w, n) \in Writes /\ Text(w, n) # << >> /\ Ordered(Text(w, n))
         /\ \A c \in ToSet(Text(w, n)) : c \in Char /\ c.way = w /\ c.num \in sent[w] + 1 .. sent[w] + n
<1>1. sent[w] \in Nat /\ n \in Nat /\ n > 0 /\ MaxSent \in Nat /\ n <= MaxWrite
  BY DownlinkAssumption DEF TypeOK
<1>2. \A i \in 1 .. n : sent[w] + i \in 1 .. MaxSent /\ sent[w] + i \in sent[w] + 1 .. sent[w] + n
  BY <1>1
<1>3. Text(w, n) \in [1 .. n -> Char]
  BY <1>2 DEF Text, Char
<1>4. Text(w, n) \in Seq(Char) /\ Len(Text(w, n)) = n
  BY <1>1, <1>3
<1>5. \A i \in 1 .. n : Text(w, n)[i] = [way |-> w, num |-> sent[w] + i]
  BY DEF Text
<1>6. Ordered(Text(w, n))
  <2> SUFFICES ASSUME NEW i \in 1 .. n, NEW j \in 1 .. n, i < j PROVE Text(w, n)[i].num < Text(w, n)[j].num
    BY <1>4 DEF Ordered
  <2>1. sent[w] + i < sent[w] + j
    BY <1>1
  <2>2. Text(w, n)[i].num = sent[w] + i /\ Text(w, n)[j].num = sent[w] + j
    <3>1. \A a, b : [way |-> a, num |-> b].num = b
      OBVIOUS
    <3> QED
      BY <1>5, <3>1, Zenon
  <2> QED
    BY <2>1, <2>2
<1>7. \A c \in ToSet(Text(w, n)) : \E i \in 1 .. n : c = [way |-> w, num |-> sent[w] + i]
  BY <1>4, <1>5, ToSetDef
<1> QED
  BY <1>1, <1>2, <1>4, <1>6, <1>7 DEF Writes, Char

-----------------------------------------------------------------------------
(* The prepared list.                                                      *)

\* Its places and its nodes.
LEMMA ListPlaces ==
  ASSUME NEW s, IsList(s)
  PROVE  /\ Len(s) \in Nat /\ (s = << >> <=> Len(s) = 0)
         /\ \A i \in 1 .. Len(s) : s[i] \in Nodes /\ s[i] \in heap
         /\ \A x \in heap : \E i \in 1 .. Len(s) : x = s[i]
<1>1. s \in Seq(Nodes) /\ heap = ToSet(s)
  BY DEF IsList
<1>2. Len(s) \in Nat /\ (s = << >> <=> Len(s) = 0)
  BY <1>1
<1>3. heap = { s[i] : i \in 1 .. Len(s) }
  BY <1>1, ToSetDef
<1>4. \A i \in 1 .. Len(s) : s[i] \in Nodes
  BY <1>1, ElementOfSeq
<1> QED
  BY <1>2, <1>3, <1>4

\* Between two events the invariant says what ListWhole asks for.
LEMMA InvIsWhole == TypeOK /\ WayInv /\ ListInv => ListWhole
<1> SUFFICES ASSUME TypeOK, WayInv, exec = "no", NEW s \in Seq(Nodes), ListOf(s)
             PROVE  \E q \in SetToSeqs(heap) :
                      /\ node_num = Len(q)
                      /\ first_node = IF q = << >> THEN Null ELSE Head(q)
                      /\ p2 = IF q = << >> THEN Null ELSE Last(q)
                      /\ \A i \in 1 .. Len(q) : node[q[i]].next_node = IF i = Len(q) THEN Null ELSE q[i + 1]
                      /\ \A i \in 1 .. Len(q) - 1 :
                           Head(node[q[i]].node_buff).num < Head(node[q[i + 1]].node_buff).num
  BY DEF ListInv, ListWhole
<1>1. IsList(s) /\ Ends(s)
  BY DEF ListOf
<1>2. /\ Len(s) \in Nat /\ (s = << >> <=> Len(s) = 0)
      /\ \A i \in 1 .. Len(s) : s[i] \in Nodes /\ s[i] \in heap
      /\ \A x \in heap : \E i \in 1 .. Len(s) : x = s[i]
  BY <1>1, ListPlaces
<1>3. s \in [1 .. Len(s) -> heap]
  BY <1>2
<1>4. \A i, j \in 1 .. Len(s) : i # j => s[i] # s[j]
  <2> SUFFICES ASSUME NEW i \in 1 .. Len(s), NEW j \in 1 .. Len(s), i # j PROVE s[i] # s[j]
    OBVIOUS
  <2>1. i < j \/ j < i
    BY <1>2
  <2> QED
    BY <1>1, <2>1 DEF IsList
<1>5. Cardinality(heap) = Len(s)
  <2>1. s \in Bijection(1 .. Len(s), heap)
    BY <1>2, <1>3, <1>4 DEF Bijection, Injection, Surjection, IsInjective
  <2>2. ExistsBijection(1 .. Len(s), heap)
    BY <2>1 DEF ExistsBijection
  <2> QED
    BY <1>2, <2>2, FS_CountingElements
<1>6. s \in SetToSeqs(heap)
  BY <1>3, <1>4, <1>5 DEF SetToSeqs
<1>7. \A i \in 1 .. Len(s) :
        /\ Head(node[s[i]].node_buff) \in Chars(s[i]) /\ Head(node[s[i]].node_buff).way = "prepared"
  <2> TAKE i \in 1 .. Len(s)
  <2>1. s[i] \in heap /\ s[i] \in Nodes
    BY <1>2
  <2>2. node[s[i]].node_buff \in Seq(Char) /\ node[s[i]].node_buff # << >>
    BY <2>1 DEF TypeOK, Writes, WayInv
  <2>3. Head(node[s[i]].node_buff) \in Chars(s[i])
    BY <2>2, ToSetTail DEF Chars
  <2> QED
    BY <2>1, <2>3 DEF WayInv
<1>8. ASSUME NEW i \in 1 .. Len(s) - 1
      PROVE  Head(node[s[i]].node_buff).num < Head(node[s[i + 1]].node_buff).num
  <2>1. i \in 1 .. Len(s) /\ i + 1 \in 1 .. Len(s) /\ i < i + 1
    BY <1>2
  <2>2. Before(Chars(s[i]), Chars(s[i + 1]))
    BY <1>1, <2>1 DEF IsList
  <2> QED
    BY <1>7, <2>1, <2>2 DEF Before
<1>9. /\ first_node = IF s = << >> THEN Null ELSE Head(s)
      /\ p2 = IF s = << >> THEN Null ELSE Last(s)
  BY <1>1, <1>2 DEF Ends, Last
<1> QED
  BY <1>1, <1>6, <1>8, <1>9 DEF Ends, IsList

\* store_wr_buffer adds its node at the end.
LEMMA StoreStep ==
  ASSUME TypeOK, WayInv, WaitInv, NEW s, ListOf(s), NEW n \in 1 .. MaxWrite, StoreWrBuffer(n)
  PROVE  ListInv'
<1>0. PICK x : x = CHOOSE y \in Nodes \ heap : TRUE
  OBVIOUS
<1>1. exec = "no" /\ exec' = "no" /\ printed = {} /\ printed' = {} /\ IsList(s) /\ Ends(s)
  BY DEF StoreWrBuffer, Arrive, ListOf
<1>2. x \in Nodes /\ x \notin heap
  BY <1>0 DEF StoreWrBuffer, TypeOK
<1>3. /\ heap' = heap \cup {x} /\ p2' = x /\ first_node' = IF node_num = 0 THEN x ELSE first_node
      /\ node' = [y \in Nodes |->
            CASE y = x  -> [node_buff |-> Text("prepared", n), next_node |-> Null]
              [] y = p2 /\ y # x -> [node[y] EXCEPT !.next_node = x]
              [] OTHER -> node[y]]
      /\ node_num' = node_num + 1
  BY <1>0 DEF StoreWrBuffer
<1>4. /\ Len(s) \in Nat /\ (s = << >> <=> Len(s) = 0)
      /\ \A i \in 1 .. Len(s) : s[i] \in Nodes /\ s[i] \in heap
  BY <1>1, ListPlaces
<1>5. s \in Seq(Nodes)
  BY <1>1 DEF IsList
<1>a. PICK new : new = Append(s, x)
  OBVIOUS
<1>6. /\ new \in Seq(Nodes) /\ Len(new) = Len(s) + 1 /\ new[Len(s) + 1] = x /\ new # << >>
      /\ \A i \in 1 .. Len(s) : new[i] = s[i]
  BY <1>2, <1>5, <1>a
<1>7. heap' = ToSet(new)
  BY <1>1, <1>2, <1>3, <1>5, <1>a, ToSetAppend DEF IsList
<1>8. /\ node'[x] = [node_buff |-> Text("prepared", n), next_node |-> Null]
      /\ \A y \in heap : y = p2 => node'[y] = [node[y] EXCEPT !.next_node = x]
      /\ \A y \in heap : y # p2 => node'[y] = node[y]
  BY <1>2, <1>3 DEF TypeOK
<1>9. \A y \in heap : node[y] \in [node_buff : Writes, next_node : Nodes \cup {Null}]
  BY DEF TypeOK
<1>10. \A y \in heap : node'[y].node_buff = node[y].node_buff /\ (y = p2 => node'[y].next_node = x)
  BY <1>8, <1>9
<1>11. \A y \in heap : Chars(y)' = Chars(y)
  BY <1>10 DEF Chars
<1>12. \A y \in heap : Before(Chars(y), Chars(x)')
  <2>1. "prepared" \in Ways /\ sent["prepared"] + n <= MaxSent
    BY DEF StoreWrBuffer, Arrive, Ways
  <2>2. \A c \in Chars(x)' : c.num \in sent["prepared"] + 1 .. sent["prepared"] + n
    <3>1. Chars(x)' = ToSet(Text("prepared", n))
      BY <1>8 DEF Chars
    <3> QED
      BY <2>1, <3>1, TextFacts
  <2>3. \A y \in heap : \A c \in Chars(y) : c \in Waiting /\ c \in Char /\ c.way = "prepared"
    <3> TAKE y \in heap
    <3>1. node[y].node_buff \in Seq(Char)
      BY <1>9 DEF Writes
    <3>2. Chars(y) \subseteq Char
      BY <3>1, ToSetDef DEF Chars
    <3>3. Chars(y) \subseteq Waiting
      BY <1>1, WaitingPlaces DEF InPlace
    <3> QED
      BY <3>2, <3>3 DEF WayInv
  <2>4. \A y \in heap : \A c \in Chars(y) : c.num \in Nat /\ c.num <= sent["prepared"]
    BY <2>3 DEF WaitInv, Char
  <2>5. sent["prepared"] \in Nat /\ n \in Nat
    BY <2>1 DEF TypeOK
  <2> SUFFICES ASSUME NEW y \in heap, NEW c \in Chars(y), NEW d \in Chars(x)' PROVE c.num < d.num
    BY DEF Before
  <2> QED
    BY <2>2, <2>4, <2>5
<1>13. \A i, j \in 1 .. Len(new) : i < j => new[i] # new[j] /\ Before(Chars(new[i])', Chars(new[j])')
  <2> SUFFICES ASSUME NEW i \in 1 .. Len(new), NEW j \in 1 .. Len(new), i < j
               PROVE  new[i] # new[j] /\ Before(Chars(new[i])', Chars(new[j])')
    OBVIOUS
  <2>1. i \in 1 .. Len(s) /\ new[i] = s[i] /\ s[i] \in heap
    BY <1>4, <1>6
  <2>2. CASE j \in 1 .. Len(s)
    <3>1. new[j] = s[j] /\ s[j] \in heap
      BY <1>4, <1>6, <2>2
    <3>2. s[i] # s[j] /\ Before(Chars(s[i]), Chars(s[j]))
      BY <1>1, <2>1, <2>2 DEF IsList
    <3> QED
      BY <1>11, <2>1, <3>1, <3>2
  <2>3. CASE j = Len(s) + 1
    BY <1>2, <1>6, <1>11, <1>12, <2>1, <2>3
  <2> QED
    BY <1>4, <1>6, <2>2, <2>3
<1>14. ASSUME NEW i \in 1 .. Len(new)
       PROVE  node'[new[i]].next_node = IF i = Len(new) THEN Null ELSE new[i + 1]
  <2>1. CASE i = Len(s) + 1
    BY <1>6, <1>8, <2>1
  <2>2. CASE i = Len(s)
    <3>1. i \in 1 .. Len(s) /\ i # Len(new) /\ new[i + 1] = x /\ s # << >>
      BY <1>4, <1>6, <2>2
    <3>2. new[i] = p2 /\ new[i] \in heap
      BY <1>1, <1>4, <1>6, <2>2, <3>1 DEF Ends
    <3> QED
      BY <1>10, <3>1, <3>2
  <2>3. CASE i < Len(s)
    <3>1. i \in 1 .. Len(s) /\ Len(s) \in 1 .. Len(s) /\ i # Len(new) /\ i + 1 \in 1 .. Len(s) /\ s # << >> /\ i # Len(s)
      BY <1>4, <1>6, <2>3
    <3>2. s[i] # p2 /\ s[i] \in heap
      BY <1>1, <1>4, <2>3, <3>1 DEF Ends, IsList
    <3>3. node'[s[i]].next_node = s[i + 1]
      BY <1>1, <1>8, <3>1, <3>2 DEF IsList
    <3> QED
      BY <1>6, <3>1, <3>3
  <2> QED
    BY <1>4, <1>6, <2>1, <2>2, <2>3
<1>15. IsList(new)'
  BY <1>6, <1>7, <1>13, <1>14 DEF IsList
<1>16. Ends(new)'
  <2>1. node_num = Len(s) /\ (s = << >> => new[1] = x) /\ (s # << >> => first_node = s[1] /\ new[1] = s[1])
    BY <1>1, <1>4, <1>6 DEF Ends
  <2> QED
    BY <1>3, <1>4, <1>6, <2>1 DEF Ends
<1>17. ListOf(new)'
  BY <1>1, <1>15, <1>16 DEF ListOf
<1> QED
  BY <1>6, <1>17 DEF ListInv

\* The list without its first node.
LEMMA ListTail ==
  ASSUME NEW s, IsList(s), s # << >>
  PROVE  /\ Tail(s) \in Seq(Nodes) /\ Len(Tail(s)) = Len(s) - 1
         /\ \A i \in 1 .. Len(s) - 1 : i + 1 \in 1 .. Len(s) /\ Tail(s)[i] = s[i + 1]
         /\ ToSet(Tail(s)) = heap \ {s[1]}
<1>1. /\ Len(s) \in Nat /\ Len(s) > 0 /\ s \in Seq(Nodes) /\ heap = ToSet(s) /\ Head(s) = s[1]
      /\ \A i, j \in 1 .. Len(s) : i < j => s[i] # s[j]
  BY ListPlaces DEF IsList
<1>2. Tail(s) \in Seq(Nodes) /\ Len(Tail(s)) = Len(s) - 1 /\ \A i \in 1 .. Len(Tail(s)) : Tail(s)[i] = s[i + 1]
  BY <1>1, HeadTailProperties
<1>3. \A i \in 1 .. Len(s) - 1 : 1 \in 1 .. Len(s) /\ i + 1 \in 1 .. Len(s) /\ 1 < i + 1
  BY <1>1
<1>4. heap = {s[1]} \cup ToSet(Tail(s))
  BY <1>1, ToSetTail
<1>5. s[1] \notin ToSet(Tail(s))
  <2>1. ToSet(Tail(s)) = { Tail(s)[i] : i \in 1 .. Len(s) - 1 }
    BY <1>2, ToSetDef
  <2> QED
    BY <1>1, <1>2, <1>3, <2>1
<1> QED
  BY <1>2, <1>3, <1>4, <1>5

\* The free loop takes the first node away.
LEMMA FreeStep ==
  ASSUME TypeOK, NEW s, ListOf(s), FreeNode
  PROVE  ListInv'
<1>1. exec = "free" /\ exec' = "free" /\ printed = heap /\ At(s, 1) /\ IsList(s) /\ p1 # Null
  BY DEF FreeNode, ListOf
<1>2. /\ Len(s) \in Nat /\ (s = << >> <=> Len(s) = 0)
      /\ \A i \in 1 .. Len(s) : s[i] \in Nodes /\ s[i] \in heap
  BY <1>1, ListPlaces
<1>3. s # << >> /\ p1 = s[1] /\ 1 \in 1 .. Len(s)
  BY <1>1, <1>2 DEF At
<1>a. PICK q : q = Tail(s)
  OBVIOUS
<1>4. /\ q \in Seq(Nodes) /\ Len(q) = Len(s) - 1 /\ ToSet(q) = heap \ {s[1]}
      /\ \A i \in 1 .. Len(q) : i + 1 \in 1 .. Len(s) /\ q[i] = s[i + 1]
  BY <1>1, <1>3, <1>a, ListTail
<1>5. /\ heap' = heap \ {s[1]} /\ printed' = heap' /\ p1' = node[s[1]].next_node /\ p2' = p1'
      /\ \A x \in Nodes : x # s[1] => node'[x] = node[x]
  BY <1>1, <1>3 DEF FreeNode, TypeOK
<1>6. heap' = ToSet(q)
  BY <1>4, <1>5
<1>7. \A i \in 1 .. Len(q) : node'[q[i]] = node[s[i + 1]]
  BY <1>1, <1>2, <1>3, <1>4, <1>5 DEF IsList
<1>8. \A i, j \in 1 .. Len(q) : i < j => q[i] # q[j] /\ Before(Chars(q[i])', Chars(q[j])')
  <2> SUFFICES ASSUME NEW i \in 1 .. Len(q), NEW j \in 1 .. Len(q), i < j
               PROVE  q[i] # q[j] /\ Before(Chars(q[i])', Chars(q[j])')
    OBVIOUS
  <2>1. i + 1 < j + 1 /\ i + 1 \in 1 .. Len(s) /\ j + 1 \in 1 .. Len(s)
    BY <1>2, <1>4
  <2>2. s[i + 1] # s[j + 1] /\ Before(Chars(s[i + 1]), Chars(s[j + 1]))
    BY <1>1, <2>1 DEF IsList
  <2>3. Chars(q[i])' = Chars(s[i + 1]) /\ Chars(q[j])' = Chars(s[j + 1])
    BY <1>7 DEF Chars
  <2> QED
    BY <1>4, <2>2, <2>3
<1>9. ASSUME NEW i \in 1 .. Len(q)
      PROVE  node'[q[i]].next_node = IF i = Len(q) THEN Null ELSE q[i + 1]
  <2>1. node'[q[i]].next_node = IF i + 1 = Len(s) THEN Null ELSE s[(i + 1) + 1]
    BY <1>1, <1>4, <1>7 DEF IsList
  <2>2. i + 1 = Len(s) <=> i = Len(q)
    BY <1>2, <1>4
  <2>3. i # Len(q) => q[i + 1] = s[(i + 1) + 1]
    <3>1. i # Len(q) => i + 1 \in 1 .. Len(q)
      BY <1>2, <1>4
    <3> QED
      BY <1>4, <3>1
  <2> QED
    BY <2>1, <2>2, <2>3
<1>10. IsList(q)'
  BY <1>4, <1>6, <1>8, <1>9 DEF IsList
<1>11. At(q, 1)'
  <2>1. p1' = IF Len(s) = 1 THEN Null ELSE s[2]
    <3>1. node[s[1]].next_node = IF 1 = Len(s) THEN Null ELSE s[1 + 1]
      BY <1>1, <1>3 DEF IsList
    <3>2. 1 + 1 = 2
      OBVIOUS
    <3> QED
      BY <1>5, <3>1, <3>2
  <2>2. Len(q) # 0 => q[1] = s[2]
    <3>1. Len(q) # 0 => 1 \in 1 .. Len(q)
      BY <1>2, <1>4
    <3> QED
      BY <1>4, <3>1
  <2>3. 1 = Len(q) + 1 <=> Len(s) = 1
    BY <1>2, <1>4
  <2>4. Len(s) # 1 => Len(q) # 0
    BY <1>2, <1>4
  <2> QED
    BY <2>1, <2>2, <2>3, <2>4 DEF At
<1>12. q = << >> => p2' = Null
  <2> SUFFICES ASSUME q = << >> PROVE p2' = Null
    OBVIOUS
  <2>1. 1 = Len(q) + 1
    OBVIOUS
  <2> QED
    BY <1>5, <1>11, <2>1 DEF At
<1>13. ListOf(q)'
  BY <1>1, <1>5, <1>10, <1>11, <1>12 DEF ListOf
<1> QED
  BY <1>4, <1>13 DEF ListInv

\* The print loop goes from node to node.
LEMMA PrintStep ==
  ASSUME TypeOK, NEW s \in Seq(Nodes), ListOf(s), PrintNode
  PROVE  ListOf(s)'
<1>1. exec = "print" /\ IsList(s) /\ Ends(s) /\ p1 # Null
  BY DEF PrintNode, ListOf
<1>2. /\ Len(s) \in Nat /\ (s = << >> <=> Len(s) = 0)
      /\ \A i \in 1 .. Len(s) : s[i] \in Nodes /\ s[i] \in heap
  BY <1>1, ListPlaces
<1>3. PICK k \in 1 .. Len(s) + 1 : At(s, k) /\ printed = { s[i] : i \in 1 .. k - 1 }
  BY <1>1 DEF ListOf
<1>4. k \in 1 .. Len(s) /\ p1 = s[k] /\ k + 1 \in 1 .. Len(s) + 1 /\ (k + 1) - 1 = k
  BY <1>1, <1>2, <1>3 DEF At
<1>5. p1' = IF k = Len(s) THEN Null ELSE s[k + 1]
  BY <1>1, <1>4 DEF PrintNode, IsList
<1>6. At(s, k + 1)'
  <2>1. k + 1 = Len(s) + 1 <=> k = Len(s)
    BY <1>2, <1>4
  <2> QED
    BY <1>5, <2>1 DEF At
<1>7. printed' = { s[i] : i \in 1 .. k }
  <2>1. \A i \in 1 .. k : i \in 1 .. k - 1 \/ i = k
    BY <1>4
  <2>2. k \in 1 .. k /\ \A i \in 1 .. k - 1 : i \in 1 .. k
    BY <1>4
  <2>3. printed' = printed \cup {s[k]}
    BY <1>4 DEF PrintNode
  <2>4. printed' \subseteq { s[i] : i \in 1 .. k }
    BY <1>3, <2>2, <2>3
  <2>5. { s[i] : i \in 1 .. k } \subseteq printed'
    BY <1>3, <2>1, <2>3
  <2> QED
    BY <2>4, <2>5
<1>8. UNCHANGED <<heap, node, first_node, node_num, p2, exec>>
  BY DEF PrintNode
<1>9. IsList(s)' /\ Ends(s)'
  BY <1>1, <1>8 DEF IsList, Ends, Chars
<1> QED
  BY <1>1, <1>4, <1>6, <1>7, <1>8, <1>9 DEF ListOf

\* Every step keeps the list.
LEMMA ListStep ==
  TypeOK /\ WayInv /\ WaitInv /\ ListInv /\ [Next]_vars => ListInv'
<1> SUFFICES ASSUME TypeOK, WayInv, WaitInv, [Next]_vars, NEW s \in Seq(Nodes), ListOf(s)
             PROVE  ListInv'
  BY DEF ListInv
<1>0. ASSUME UNCHANGED list PROVE ListInv'
  <2>1. ListOf(s)'
    BY <1>0 DEF list, ListOf, IsList, Ends, At, Chars
  <2> QED
    BY <2>1 DEF ListInv
<1>a. ASSUME Restart PROVE ListInv'
  <2>1. << >> \in Seq(Nodes) /\ Len(<< >>) = 0
    OBVIOUS
  <2>2. ListOf(<< >>)'
    BY <1>a, <2>1, ToSetEmpty DEF Restart, ListOf, IsList, Ends, At
  <2> QED
    BY <2>1, <2>2 DEF ListInv
<1>1. ASSUME NEW n \in 1 .. MaxWrite, DataWrite(n) \/ CommandWrite(n) PROVE ListInv'
  BY <1>0, <1>1 DEF DataWrite, CommandWrite
<1>2. ASSUME NEW n \in 1 .. MaxWrite, StoreWrBuffer(n) PROVE ListInv'
  BY <1>2, StoreStep
<1>3. ASSUME NEW n \in 1 .. MaxWrite, StoreFails(n) PROVE ListInv'
  <2>1. CASE Arrive("prepared", n) /\ UNCHANGED <<heap, node, first_node, node_num, p2, exec, printed>>
    <3>1. ListOf(s)'
      BY <2>1 DEF Arrive, ListOf, IsList, Ends, At, Chars
    <3> QED
      BY <3>1 DEF ListInv
  <2> QED
    BY <1>3, <1>a, <2>1 DEF StoreFails
<1>4. CASE CommandTask \/ Getc \/ \E t \in Links : LinkRx(t)
  BY <1>0, <1>4 DEF CommandTask, Getc, LinkRx
<1>b. IsList(s) => /\ Len(s) \in Nat /\ (s = << >> <=> Len(s) = 0)
                   /\ \A i \in 1 .. Len(s) : s[i] \in Nodes /\ s[i] \in heap
                   /\ \A x \in heap : \E i \in 1 .. Len(s) : x = s[i]
  BY ListPlaces
<1>5. CASE ExecWrite
  <2>1. IsList(s) /\ Ends(s) /\ printed = {}
    BY <1>5 DEF ExecWrite, ListOf
  <2>2. UNCHANGED <<heap, node, first_node, node_num, p2, printed>> /\ p1' = first_node /\ exec' = "print"
    BY <1>5 DEF ExecWrite
  <2>3. IsList(s)' /\ Ends(s)'
    BY <2>1, <2>2 DEF IsList, Ends, Chars
  <2>4. At(s, 1)' /\ 1 \in 1 .. Len(s) + 1
    BY <1>b, <2>1, <2>2 DEF At, Ends
  <2>5. printed' = { s[i] : i \in 1 .. 1 - 1 }
    BY <2>1, <2>2
  <2>6. ListOf(s)'
    BY <2>2, <2>3, <2>4, <2>5 DEF ListOf
  <2> QED
    BY <2>6 DEF ListInv
<1>6. CASE PrintNode
  BY <1>6, PrintStep DEF ListInv
<1>7. CASE PrintEnds
  <2>1. IsList(s) /\ Ends(s) /\ exec = "print" /\ p1 = Null
    BY <1>7 DEF PrintEnds, ListOf
  <2>2. UNCHANGED <<heap, node, first_node, node_num, p2, printed>> /\ p1' = first_node /\ exec' = "free"
    BY <1>7 DEF PrintEnds
  <2>3. PICK k \in 1 .. Len(s) + 1 : At(s, k) /\ printed = { s[i] : i \in 1 .. k - 1 }
    BY <2>1 DEF ListOf
  <2>4. k = Len(s) + 1
    BY <1>b, <2>1, <2>3, DownlinkAssumption DEF At
  <2>5. printed = heap
    <3>1. k - 1 = Len(s)
      BY <1>b, <2>1, <2>4
    <3>2. heap = { s[i] : i \in 1 .. Len(s) }
      BY <2>1, ToSetDef DEF IsList
    <3> QED
      BY <2>3, <3>1, <3>2
  <2>6. IsList(s)' /\ Ends(s)'
    BY <2>1, <2>2 DEF IsList, Ends, Chars
  <2>7. At(s, 1)'
    BY <1>b, <2>1, <2>2 DEF At, Ends
  <2>8. ListOf(s)'
    BY <2>1, <2>2, <2>5, <2>6, <2>7 DEF ListOf, Ends
  <2> QED
    BY <2>8 DEF ListInv
<1>8. CASE FreeNode
  BY <1>8, FreeStep
<1>9. CASE FreeEnds
  <2>1. IsList(s) /\ At(s, 1) /\ printed = heap /\ exec = "free" /\ p1 = Null /\ (s = << >> => p2 = Null)
    BY <1>9 DEF FreeEnds, ListOf
  <2>2. s = << >>
    <3>1. Len(s) # 0 => 1 \in 1 .. Len(s) /\ 1 # Len(s) + 1
      BY <1>b, <2>1
    <3> QED
      BY <1>b, <2>1, <3>1, DownlinkAssumption DEF At
  <2>3. heap = {}
    BY <2>1, <2>2, ToSetEmpty DEF IsList
  <2>4. ListOf(s)'
    BY <1>9, <2>1, <2>2, <2>3 DEF FreeEnds, ListOf, IsList, Ends, Chars
  <2> QED
    BY <2>4 DEF ListInv
<1>10. CASE UNCHANGED vars
  BY <1>0, <1>10 DEF vars
<1> QED
  BY <1>1, <1>2, <1>3, <1>4, <1>5, <1>6, <1>7, <1>8, <1>9, <1>10 DEF Next, BtStep

\* The node that is printed next is the first of those that are not printed.
LEMMA NextToPrint ==
  ASSUME TypeOK, ListInv, exec = "print", p1 # Null
  PROVE  p1 \in heap \ printed /\ \A y \in heap \ printed : y # p1 => Before(Chars(p1), Chars(y))
<1>1. PICK s \in Seq(Nodes) : ListOf(s)
  BY DEF ListInv
<1>2. IsList(s)
  BY <1>1 DEF ListOf
<1>3. /\ Len(s) \in Nat
      /\ \A i \in 1 .. Len(s) : s[i] \in Nodes /\ s[i] \in heap
      /\ \A x \in heap : \E i \in 1 .. Len(s) : x = s[i]
  BY <1>2, ListPlaces
<1>4. PICK k \in 1 .. Len(s) + 1 : At(s, k) /\ printed = { s[i] : i \in 1 .. k - 1 }
  BY <1>1 DEF ListOf
<1>5. k \in 1 .. Len(s) /\ p1 = s[k]
  BY <1>3, <1>4 DEF At
<1>6. p1 \notin printed
  <2> SUFFICES ASSUME NEW i \in 1 .. k - 1, s[i] = s[k] PROVE FALSE
    BY <1>4, <1>5
  <2>1. i \in 1 .. Len(s) /\ i < k
    BY <1>3, <1>5
  <2> QED
    BY <1>2, <1>5, <2>1 DEF IsList
<1>7. ASSUME NEW y \in heap \ printed, y # p1 PROVE Before(Chars(p1), Chars(y))
  <2>1. PICK j \in 1 .. Len(s) : y = s[j]
    BY <1>3
  <2>2. j \notin 1 .. k - 1 /\ j # k
    BY <1>4, <1>5, <1>7, <2>1
  <2>3. k < j
    BY <1>3, <1>5, <2>2
  <2> QED
    BY <1>2, <1>5, <2>1, <2>3 DEF IsList
<1> QED
  BY <1>3, <1>5, <1>6, <1>7

-----------------------------------------------------------------------------
(* Typing.                                                                 *)

\* Taking a character or a text away leaves a text.
LEMMA WritesTail ==
  /\ << >> \in Writes
  /\ \A text \in Writes : text # << >> => Head(text) \in Char /\ Tail(text) \in Writes
<1>1. << >> \in Writes
  BY DownlinkAssumption DEF Writes
<1>2. ASSUME NEW text \in Writes, text # << >>
      PROVE  Head(text) \in Char /\ Tail(text) \in Writes
  <2>1. text \in Seq(Char) /\ Len(text) \in Nat /\ Len(text) <= MaxWrite /\ MaxWrite \in Nat
    BY DownlinkAssumption DEF Writes
  <2>2. Head(text) \in Char /\ Tail(text) \in Seq(Char) /\ Len(Tail(text)) = Len(text) - 1
    BY <1>2, <2>1, HeadTailProperties
  <2> QED
    BY <2>1, <2>2 DEF Writes
<1> QED
  BY <1>1, <1>2

\* Every step keeps the variables in their types.
LEMMA TypeStep == TypeOK /\ ListInv /\ [Next]_vars => TypeOK'
<1> SUFFICES ASSUME TypeOK, ListInv, [Next]_vars PROVE TypeOK'
  OBVIOUS
<1>a. ASSUME NEW w \in Ways, NEW n \in 1 .. MaxWrite, Arrive(w, n)
      PROVE  /\ sent' \in [Ways -> 0 .. MaxSent] /\ got' = got
             /\ Text(w, n) \in Writes
  <2>1. sent[w] + n <= MaxSent /\ sent' = [sent EXCEPT ![w] = @ + n] /\ got' = got
    BY <1>a DEF Arrive
  <2>2. sent[w] + n \in 0 .. MaxSent
    BY <2>1, DownlinkAssumption DEF TypeOK
  <2> QED
    BY <2>1, <2>2, TextFacts DEF TypeOK
<1>b. {RxLen, CmdLen, MaxWrite, MaxSent} \subseteq Nat /\ Null \notin Nodes
  BY DownlinkAssumption
<1>c. ASSUME Restart PROVE TypeOK'
  <2>1. << >> \in Seq(Writes) /\ << >> \in Seq(Char) /\ Len(<< >>) = 0
    OBVIOUS
  <2> QED
    BY <1>b, <1>c, <2>1, WritesTail DEF Restart, TypeOK, Blank, Empty
<1>1. ASSUME NEW n \in 1 .. MaxWrite, DataWrite(n) PROVE TypeOK'
  BY <1>a, <1>1 DEF DataWrite, TypeOK, list, Ways
<1>2. ASSUME NEW n \in 1 .. MaxWrite, CommandWrite(n) PROVE TypeOK'
  <2>1. Arrive("command", n) /\ "command" \in Ways /\ UNCHANGED <<list, push, rx_queue>>
    BY <1>2 DEF CommandWrite, Ways
  <2>2. cmd_cmd_queue' \in Seq(Writes) /\ Len(cmd_cmd_queue') <= CmdLen
    <3>1. Text("command", n) \in Writes /\ CmdLen \in Nat /\ cmd_cmd_queue \in Seq(Writes) /\ Len(cmd_cmd_queue) <= CmdLen
      BY <1>a, <1>b, <2>1 DEF TypeOK
    <3>2. CASE cmd_cmd_queue' = Append(cmd_cmd_queue, Text("command", n)) /\ Len(cmd_cmd_queue) < CmdLen
      BY <3>1, <3>2
    <3> QED
      BY <1>2, <3>1, <3>2 DEF CommandWrite
  <2> QED
    BY <1>a, <2>1, <2>2 DEF TypeOK, list
<1>3. ASSUME NEW n \in 1 .. MaxWrite, StoreWrBuffer(n) PROVE TypeOK'
  <2>1. Arrive("prepared", n) /\ "prepared" \in Ways
    BY <1>3 DEF StoreWrBuffer, Ways
  <2>2. PICK x : x = CHOOSE y \in Nodes \ heap : TRUE
    OBVIOUS
  <2>3. x \in Nodes
    BY <1>3, <2>2 DEF StoreWrBuffer, TypeOK
  <2>4. node' = [y \in Nodes |->
            CASE y = x  -> [node_buff |-> Text("prepared", n), next_node |-> Null]
              [] y = p2 /\ y # x -> [node[y] EXCEPT !.next_node = x]
              [] OTHER -> node[y]]
    BY <1>3, <2>2 DEF StoreWrBuffer
  <2>5. node' \in [Nodes -> [node_buff : Writes, next_node : Nodes \cup {Null}]]
    <3>1. \A y \in Nodes : node[y] \in [node_buff : Writes, next_node : Nodes \cup {Null}]
      BY DEF TypeOK
    <3> SUFFICES ASSUME NEW y \in Nodes
                 PROVE  node'[y] \in [node_buff : Writes, next_node : Nodes \cup {Null}]
      BY <2>4
    <3>2. CASE y = x
      BY <1>a, <2>1, <2>4, <3>2
    <3>3. CASE y # x /\ y = p2
      BY <2>3, <2>4, <3>1, <3>3
    <3>4. CASE y # x /\ y # p2
      BY <2>4, <3>1, <3>4
    <3> QED
      BY <3>2, <3>3, <3>4
  <2>6. /\ heap' \subseteq Nodes /\ printed' \subseteq heap' /\ node_num' \in Nat
        /\ {first_node', p1', p2'} \subseteq Nodes \cup {Null}
        /\ UNCHANGED <<exec, push, cmd_cmd_queue, rx_queue>>
    <3>1. /\ heap' = heap \cup {x} /\ p1' = x /\ p2' = x /\ node_num' = node_num + 1
          /\ first_node' = IF node_num = 0 THEN x ELSE first_node
          /\ UNCHANGED <<exec, printed, push, cmd_cmd_queue, rx_queue>>
      BY <1>3, <2>2 DEF StoreWrBuffer, queues
    <3>2. heap \subseteq Nodes /\ printed \subseteq heap /\ node_num \in Nat /\ first_node \in Nodes \cup {Null}
      BY DEF TypeOK
    <3>3. first_node' \in Nodes \cup {Null}
      BY <2>3, <3>1, <3>2
    <3> QED
      BY <2>3, <3>1, <3>2, <3>3
  <2> QED
    BY <1>a, <2>1, <2>5, <2>6 DEF TypeOK
<1>4. ASSUME NEW n \in 1 .. MaxWrite, StoreFails(n) PROVE TypeOK'
  <2>1. CASE Arrive("prepared", n) /\ p1' = Null
             /\ UNCHANGED <<heap, node, first_node, node_num, p2, exec, printed, queues>>
    BY <1>a, <2>1 DEF TypeOK, queues, Ways
  <2> QED
    BY <1>4, <1>c, <2>1 DEF StoreFails
<1>5. CASE ExecWrite \/ PrintEnds \/ FreeEnds
  BY <1>5 DEF ExecWrite, PrintEnds, FreeEnds, TypeOK, queues
<1>6. CASE PrintNode
  <2>1. p1 \in heap
    BY <1>6, NextToPrint DEF PrintNode
  <2> QED
    BY <1>6, <2>1 DEF PrintNode, TypeOK, Links
<1>7. CASE FreeNode
  <2>1. p1 \in Nodes /\ Blank \in [node_buff : Writes, next_node : Nodes \cup {Null}]
    BY <1>7, WritesTail DEF FreeNode, TypeOK, Blank
  <2> QED
    BY <1>7, <2>1 DEF FreeNode, TypeOK, queues
<1>8. CASE CommandTask
  <2>1. /\ Head(cmd_cmd_queue) \in Writes /\ Tail(cmd_cmd_queue) \in Seq(Writes)
        /\ Len(Tail(cmd_cmd_queue)) = Len(cmd_cmd_queue) - 1 /\ Len(cmd_cmd_queue) \in Nat
    BY <1>8, HeadTailProperties DEF CommandTask, TypeOK
  <2> QED
    BY <1>8, <1>b, <2>1 DEF CommandTask, TypeOK, list, Links
<1>9. ASSUME NEW t \in Links, LinkRx(t) PROVE TypeOK'
  <2>1. push[t] \in Writes /\ push[t] # << >>
    BY <1>9 DEF LinkRx, TypeOK
  <2>2. Head(push[t]) \in Char /\ Tail(push[t]) \in Writes /\ << >> \in Writes
    BY <2>1, WritesTail
  <2>3. push' \in [Links -> Writes]
    BY <1>9, <2>2 DEF LinkRx, TypeOK
  <2>4. rx_queue' \in Seq(Char) /\ Len(rx_queue') <= RxLen
    <3>1. rx_queue \in Seq(Char) /\ Len(rx_queue) <= RxLen /\ RxLen \in Nat
      BY <1>b DEF TypeOK
    <3>2. CASE Len(rx_queue) < RxLen /\ rx_queue' = Append(rx_queue, Head(push[t]))
      BY <2>2, <3>1, <3>2
    <3> QED
      BY <1>9, <3>1, <3>2 DEF LinkRx
  <2> QED
    BY <1>9, <2>3, <2>4 DEF LinkRx, TypeOK, list
<1>10. CASE Getc
  <2>1. /\ Head(rx_queue) \in Char /\ Tail(rx_queue) \in Seq(Char)
        /\ Len(Tail(rx_queue)) = Len(rx_queue) - 1 /\ Len(rx_queue) \in Nat
    BY <1>10, HeadTailProperties DEF Getc, TypeOK
  <2>2. Head(rx_queue).way \in Ways /\ Head(rx_queue).num \in 0 .. MaxSent
    BY <1>b, <2>1 DEF Char
  <2> QED
    BY <1>10, <1>b, <2>1, <2>2 DEF Getc, TypeOK, list
<1>11. CASE UNCHANGED vars
  BY <1>11 DEF vars, list, queues, TypeOK
<1> QED
  BY <1>1, <1>2, <1>3, <1>4, <1>5, <1>6, <1>7, <1>8, <1>9, <1>10, <1>11 DEF Next, BtStep

-----------------------------------------------------------------------------
(* The order of the characters.                                            *)

\* What the command queue holds.
LEMMA CommandPlaces ==
  ASSUME NEW S, NEW texts \in Seq(S)
  PROVE  \A c : c \in CharsOf(texts) <=> \E i \in 1 .. Len(texts) : c \in ToSet(texts[i])
<1>1. ToSet(texts) = { texts[i] : i \in 1 .. Len(texts) }
  BY ToSetDef
<1> DEFINE Sets == { ToSet(text) : text \in ToSet(texts) }
<1>2. \A c : c \in UNION Sets <=> \E T \in Sets : c \in T
  OBVIOUS
<1>3. \A T : T \in Sets <=> \E i \in 1 .. Len(texts) : T = ToSet(texts[i])
  BY <1>1
<1>4. CharsOf(texts) = UNION Sets
  BY DEF CharsOf
<1> HIDE DEF Sets
<1> QED
  BY <1>2, <1>3, <1>4

\* Every character that waits is one, and where it waits tells its way.
LEMMA WaitingChars ==
  TypeOK => Waiting \subseteq Char
<1> SUFFICES ASSUME TypeOK, NEW c \in Waiting PROVE c \in Char
  OBVIOUS
<1>1. CASE c \in ToSet(rx_queue)
  BY <1>1, ToSetDef DEF TypeOK
<1>2. ASSUME NEW t \in Links, c \in ToSet(push[t]) PROVE c \in Char
  <2>1. push[t] \in Seq(Char)
    BY DEF TypeOK, Writes
  <2> QED
    BY <1>2, <2>1, ToSetDef
<1>3. CASE c \in Commands
  <2>1. cmd_cmd_queue \in Seq(Writes)
    BY DEF TypeOK
  <2>2. PICK i \in 1 .. Len(cmd_cmd_queue) : c \in ToSet(cmd_cmd_queue[i])
    BY <1>3, <2>1, CommandPlaces DEF Commands
  <2>3. cmd_cmd_queue[i] \in Seq(Char)
    BY <2>1, ElementOfSeq DEF Writes
  <2> QED
    BY <2>2, <2>3, ToSetDef
<1>4. ASSUME NEW x \in heap, c \in Chars(x) PROVE c \in Char
  <2>1. node[x].node_buff \in Seq(Char)
    BY DEF TypeOK, Writes
  <2> QED
    BY <1>4, <2>1, ToSetDef DEF Chars
<1> QED
  BY <1>1, <1>2, <1>3, <1>4, WaitingPlaces DEF InPlace, Links

\* The same of the next state.
LEMMA WaitingCharsNext == (TypeOK => Waiting \subseteq Char)'
  BY WaitingChars, PTL

\* Whatever waits was sent before the text that arrives now.
LEMMA NewComesLast ==
  ASSUME TypeOK, WaitInv, NEW w \in Ways, NEW n \in 1 .. MaxWrite, sent[w] + n <= MaxSent
  PROVE  Before(Waiting, ToSet(Text(w, n)))
<1> SUFFICES ASSUME NEW c \in Waiting, NEW d \in ToSet(Text(w, n)), c.way = d.way
             PROVE  c.num < d.num
  BY DEF Before
<1>1. d.way = w /\ d.num \in sent[w] + 1 .. sent[w] + n
  BY TextFacts
<1>2. c.num \in Nat /\ c.num <= sent[w] /\ sent[w] \in Nat /\ n \in Nat
  BY <1>1, WaitingChars DEF WaitInv, Char, TypeOK
<1> QED
  BY <1>1, <1>2

\* What may become of the waiting characters: some are lost, ...
Losing == UNCHANGED <<sent, got>> /\ Waiting' \subseteq Waiting

\* ... some of those that are sent now join them, ...
Sending(w, n) ==
  /\ sent[w] + n <= MaxSent
  /\ sent' = [sent EXCEPT ![w] = @ + n] /\ got' = got
  /\ Waiting \subseteq Waiting'
  /\ \A c \in Waiting' \ Waiting : c.way = w /\ c.num \in sent[w] + 1 .. sent[w] + n

\* ... or the first of its way is read.
Reading(h) ==
  /\ sent' = sent /\ got' = [got EXCEPT ![h.way] = h.num]
  /\ Waiting' \subseteq Waiting
  /\ \A c \in Waiting : c \in Waiting' <=> (c.way = h.way => h.num < c.num)

Flow ==
  \/ Losing
  \/ \E w \in Ways, n \in 1 .. MaxWrite : Sending(w, n)
  \/ \E h \in Waiting : Reading(h)

\* A step that only takes nodes away from the list, or marks them as printed.
LEMMA QuietStep ==
  ASSUME IInv, UNCHANGED queues, heap' \subseteq heap, heap' \ printed' \subseteq heap \ printed,
         \A x \in heap' : node'[x].node_buff = node[x].node_buff
  PROVE  Waiting' \subseteq Waiting /\ WayInv' /\ OrderInv'
<1>1. UNCHANGED <<push, cmd_cmd_queue, rx_queue>>
  BY DEF queues
<1>2. Commands' = Commands
  BY <1>1 DEF Commands, CharsOf
<1>3. \A x \in heap' : Chars(x)' = Chars(x)
  BY DEF Chars
<1>4. Waiting' \subseteq Waiting
  BY <1>1, <1>2, <1>3, WaitingPlaces, WaitingPlacesNext DEF InPlace
<1>5. WayInv'
  BY <1>1, <1>2, <1>3 DEF IInv, WayInv
<1>6. OrderInv'
  BY <1>1, <1>2, <1>3 DEF IInv, OrderInv
<1> QED
  BY <1>4, <1>5, <1>6

\* A restart leaves nothing to wait.
LEMMA RestartStep ==
  ASSUME Restart
  PROVE  Waiting' = {} /\ WayInv' /\ OrderInv'
<1>1. /\ heap' = {} /\ push' = [t \in Links |-> << >>] /\ cmd_cmd_queue' = << >> /\ rx_queue' = << >>
      /\ push'["bt"] = << >> /\ push'["cmd"] = << >>
  BY DEF Restart, Links
<1>2. Commands' = {}
  BY <1>1, ToSetEmpty DEF Commands, CharsOf
<1>3. Waiting' = {}
  BY <1>1, <1>2, ToSetEmpty, WaitingPlacesNext DEF InPlace
<1>4. Ordered(<< >>)
  BY DEF Ordered
<1>5. \A A : Before({}, A) /\ Before(A, {})
  BY DEF Before
<1>6. WayInv'
  BY <1>1, <1>2, ToSetEmpty DEF WayInv
<1>7. 1 .. Len(<< >>) = {}
  OBVIOUS
<1>8. OrderInv'
  BY <1>1, <1>2, <1>4, <1>5, <1>7, ToSetEmpty DEF OrderInv
<1> QED
  BY <1>3, <1>6, <1>8

\* The Bluetooth task is about to hand a write over.
LEMMA DataStep ==
  ASSUME IInv, NEW n \in 1 .. MaxWrite, DataWrite(n)
  PROVE  Sending("data", n) /\ WayInv' /\ OrderInv'
<1> DEFINE New == ToSet(Text("data", n))
<1>1. /\ "data" \in Ways /\ sent["data"] + n <= MaxSent
      /\ sent' = [sent EXCEPT !["data"] = @ + n] /\ got' = got
      /\ push["bt"] = << >>
  BY DEF DataWrite, Arrive, Ways
<1>2. /\ push'["bt"] = Text("data", n) /\ push'["cmd"] = push["cmd"]
      /\ UNCHANGED <<heap, node, printed, cmd_cmd_queue, rx_queue>>
  BY DEF DataWrite, list, IInv, TypeOK, Links
<1>3. /\ Ordered(Text("data", n))
      /\ \A c \in New : c.way = "data" /\ c.num \in sent["data"] + 1 .. sent["data"] + n
  BY <1>1, TextFacts DEF IInv
<1>4. Commands' = Commands /\ \A x : Chars(x)' = Chars(x)
  BY <1>2 DEF Commands, CharsOf, Chars
<1>5. ToSet(push'["bt"]) = New /\ ToSet(push["bt"]) = {}
  BY <1>1, <1>2, ToSetEmpty
<1>6. \A c : c \in Waiting' <=> c \in Waiting \/ c \in New
  BY <1>2, <1>4, <1>5, WaitingPlaces, WaitingPlacesNext DEF InPlace
<1>7. Before(Waiting, New)
  BY <1>1, NewComesLast DEF IInv
<1> HIDE DEF New
<1>8. Before(ToSet(rx_queue), New)
  BY <1>7, WaitingPlaces DEF InPlace, Before
<1>9. \A x \in heap : Before(New, Chars(x))
  BY <1>3 DEF IInv, WayInv, Before
<1>10. Sending("data", n)
  BY <1>1, <1>3, <1>6 DEF Sending
<1>11. WayInv'
  BY <1>2, <1>3, <1>4, <1>5 DEF IInv, WayInv
<1>12. OrderInv'
  <2>1. \A t \in Links : Ordered(push'[t]) /\ Before(ToSet(rx_queue), ToSet(push'[t]))
    BY <1>2, <1>3, <1>5, <1>8 DEF IInv, OrderInv, Links
  <2>2. \A x \in heap \ printed : Before(ToSet(rx_queue) \cup New, Chars(x))
    BY <1>9 DEF IInv, OrderInv, Before
  <2> QED
    BY <1>2, <1>4, <1>5, <2>1, <2>2 DEF IInv, OrderInv
<1> QED
  BY <1>10, <1>11, <1>12

\* A command joins the queue, or is forgotten.
LEMMA CommandWriteStep ==
  ASSUME IInv, NEW n \in 1 .. MaxWrite, CommandWrite(n)
  PROVE  Sending("command", n) /\ WayInv' /\ OrderInv'
<1> DEFINE New == ToSet(Text("command", n))
<1>1. /\ "command" \in Ways /\ sent["command"] + n <= MaxSent
      /\ sent' = [sent EXCEPT !["command"] = @ + n] /\ got' = got
  BY DEF CommandWrite, Arrive, Ways
<1>2. UNCHANGED <<heap, node, printed, push, rx_queue>>
  BY DEF CommandWrite, list
<1>3. /\ Text("command", n) \in Writes /\ Ordered(Text("command", n))
      /\ \A c \in New : c.way = "command" /\ c.num \in sent["command"] + 1 .. sent["command"] + n
  BY <1>1, TextFacts DEF IInv
<1>4. \A x : Chars(x)' = Chars(x)
  BY <1>2 DEF Chars
<1>5. Before(Waiting, New)
  BY <1>1, NewComesLast DEF IInv
<1> DEFINE q == cmd_cmd_queue
<1>6. q \in Seq(Writes) /\ Len(q) \in Nat
  BY DEF IInv, TypeOK
<1>7. CASE UNCHANGED cmd_cmd_queue
  <2>1. Commands' = Commands
    BY <1>7 DEF Commands, CharsOf
  <2>2. \A c : c \in Waiting' <=> c \in Waiting
    BY <1>2, <1>4, <2>1, WaitingPlaces, WaitingPlacesNext DEF InPlace
  <2>3. Sending("command", n)
    BY <1>1, <2>2 DEF Sending
  <2>4. WayInv' /\ OrderInv'
    BY <1>2, <1>4, <1>7, <2>1 DEF IInv, WayInv, OrderInv
  <2> QED
    BY <2>3, <2>4
<1>8. CASE cmd_cmd_queue' = Append(q, Text("command", n))
  <2>1. PICK r : r = cmd_cmd_queue'
    OBVIOUS
  <2>2. /\ r \in Seq(Writes) /\ Len(r) = Len(q) + 1 /\ r[Len(q) + 1] = Text("command", n)
        /\ \A i \in 1 .. Len(q) : r[i] = q[i]
    BY <1>3, <1>6, <1>8, <2>1
  <2>3. \A c : c \in Commands <=> \E i \in 1 .. Len(q) : c \in ToSet(q[i])
    BY <1>6, CommandPlaces DEF Commands
  <2>4. \A c : c \in Commands' <=> \E i \in 1 .. Len(q) + 1 : c \in ToSet(r[i])
    <3>1. Commands' = CharsOf(r)
      BY <2>1 DEF Commands
    <3> QED
      BY <2>2, <3>1, CommandPlaces
  <2>5. 1 .. Len(q) \subseteq 1 .. Len(q) + 1 /\ Len(q) + 1 \in 1 .. Len(q) + 1
        /\ \A i \in 1 .. Len(q) + 1 : i \in 1 .. Len(q) \/ i = Len(q) + 1
    BY <1>6
  <2> HIDE DEF New
  <2>6. \A c : c \in Commands' <=> c \in Commands \/ c \in New
    BY <2>2, <2>3, <2>4, <2>5 DEF New
  <2>7. \A c : c \in Waiting' <=> c \in Waiting \/ c \in New
    BY <1>2, <1>4, <2>6, WaitingPlaces, WaitingPlacesNext DEF InPlace
  <2>8. Sending("command", n)
    BY <1>1, <1>3, <2>7 DEF Sending
  <2>9. WayInv'
    BY <1>2, <1>3, <1>4, <2>6 DEF IInv, WayInv
  <2>10. Before(ToSet(rx_queue) \cup ToSet(push["cmd"]), Commands')
    BY <1>5, <2>6, WaitingPlaces DEF IInv, OrderInv, InPlace, Before
  <2>11. \A i \in 1 .. Len(r) : Ordered(r[i])
    BY <1>3, <2>2, <2>5 DEF IInv, OrderInv
  <2>12. ASSUME NEW i \in 1 .. Len(r), NEW j \in 1 .. Len(r), i < j
         PROVE  Before(ToSet(r[i]), ToSet(r[j]))
    <3>1. i \in 1 .. Len(q) /\ r[i] = q[i]
      BY <1>6, <2>2, <2>12
    <3>2. CASE j \in 1 .. Len(q)
      BY <2>2, <2>12, <3>1, <3>2 DEF IInv, OrderInv
    <3>3. CASE j = Len(q) + 1
      <4>1. r[j] = Text("command", n) /\ ToSet(q[i]) \subseteq Waiting
        BY <2>2, <2>3, <3>1, <3>3, WaitingPlaces DEF InPlace
      <4> QED
        BY <1>5, <3>1, <4>1 DEF Before, New
    <3> QED
      BY <2>2, <2>5, <3>2, <3>3
  <2>13. OrderInv'
    BY <1>2, <1>4, <2>1, <2>10, <2>11, <2>12 DEF IInv, OrderInv
  <2> QED
    BY <2>8, <2>9, <2>13
<1> QED
  BY <1>7, <1>8 DEF CommandWrite

\* A prepared write joins the list.
LEMMA PreparedStep ==
  ASSUME IInv, NEW n \in 1 .. MaxWrite, StoreWrBuffer(n)
  PROVE  Sending("prepared", n) /\ WayInv' /\ OrderInv'
<1> DEFINE New == ToSet(Text("prepared", n))
<1>1. /\ "prepared" \in Ways /\ sent["prepared"] + n <= MaxSent
      /\ sent' = [sent EXCEPT !["prepared"] = @ + n] /\ got' = got
      /\ push["bt"] = << >> /\ exec = "no"
  BY DEF StoreWrBuffer, Arrive, Ways
<1>2. PICK x : x = CHOOSE y \in Nodes \ heap : TRUE
  OBVIOUS
<1>3. x \in Nodes /\ x \notin heap
  BY <1>2 DEF StoreWrBuffer, IInv, TypeOK
<1>4. /\ heap' = heap \cup {x}
      /\ node' = [y \in Nodes |->
            CASE y = x  -> [node_buff |-> Text("prepared", n), next_node |-> Null]
              [] y = p2 /\ y # x -> [node[y] EXCEPT !.next_node = x]
              [] OTHER -> node[y]]
      /\ UNCHANGED <<printed, push, cmd_cmd_queue, rx_queue>>
  BY <1>2 DEF StoreWrBuffer, queues
<1>5. printed = {}
  BY <1>1 DEF IInv, ListInv, ListOf
<1>6. /\ Text("prepared", n) # << >> /\ Ordered(Text("prepared", n))
      /\ \A c \in New : c.way = "prepared" /\ c.num \in sent["prepared"] + 1 .. sent["prepared"] + n
  BY <1>1, TextFacts DEF IInv
<1>7. node'[x].node_buff = Text("prepared", n)
  BY <1>3, <1>4
<1>8. \A y \in heap : node'[y].node_buff = node[y].node_buff
  <2>1. \A y \in heap : y \in Nodes /\ y # x /\ node[y] \in [node_buff : Writes, next_node : Nodes \cup {Null}]
    BY <1>3 DEF IInv, TypeOK
  <2> QED
    BY <1>4, <2>1
<1>9. Chars(x)' = New /\ \A y \in heap : Chars(y)' = Chars(y)
  BY <1>7, <1>8 DEF Chars
<1>10. Commands' = Commands
  BY <1>4 DEF Commands, CharsOf
<1> HIDE DEF New
<1>11. \A c : c \in Waiting' <=> c \in Waiting \/ c \in New
  BY <1>4, <1>5, <1>9, <1>10, WaitingPlaces, WaitingPlacesNext DEF InPlace
<1>12. Before(Waiting, New)
  BY <1>1, NewComesLast DEF IInv, New
<1>13. Sending("prepared", n)
  BY <1>1, <1>6, <1>11 DEF Sending
<1>14. WayInv'
  <2>1. \A y \in heap' : node'[y].node_buff # << >> /\ \A c \in Chars(y)' : c.way = "prepared"
    BY <1>4, <1>6, <1>7, <1>8, <1>9 DEF IInv, WayInv
  <2> QED
    BY <1>4, <1>10, <2>1 DEF IInv, WayInv
<1>15. OrderInv'
  <2>1. \A y \in heap' : Ordered(node'[y].node_buff)
    BY <1>4, <1>6, <1>7, <1>8 DEF IInv, OrderInv
  <2>2. Before(ToSet(rx_queue) \cup ToSet(push["bt"]), New)
    BY <1>12, WaitingPlaces DEF InPlace, Before
  <2>3. \A y \in heap : Before(ToSet(rx_queue) \cup ToSet(push["bt"]), Chars(y))
    BY <1>5 DEF IInv, OrderInv
  <2>4. \A y \in heap' \ printed' : Before(ToSet(rx_queue) \cup ToSet(push["bt"]), Chars(y)')
    BY <1>4, <1>9, <2>2, <2>3
  <2> QED
    BY <1>4, <1>10, <2>1, <2>4 DEF IInv, OrderInv
<1> QED
  BY <1>13, <1>14, <1>15

\* The text of the next node goes from the list to the reader's queue.
LEMMA PrintFlow ==
  ASSUME IInv, PrintNode
  PROVE  Losing /\ WayInv' /\ OrderInv'
<1>1. /\ exec = "print" /\ push["bt"] = << >> /\ p1 # Null
      /\ push' = [push EXCEPT !["bt"] = node[p1].node_buff]
      /\ printed' = printed \cup {p1}
      /\ UNCHANGED <<sent, got, heap, node, cmd_cmd_queue, rx_queue>>
  BY DEF PrintNode
<1>2. p1 \in heap \ printed /\ \A y \in heap \ printed : y # p1 => Before(Chars(p1), Chars(y))
  BY <1>1, NextToPrint DEF IInv
<1>3. push'["bt"] = node[p1].node_buff /\ push'["cmd"] = push["cmd"] /\ ToSet(push'["bt"]) = Chars(p1)
  BY <1>1 DEF IInv, TypeOK, Links, Chars
<1>4. Commands' = Commands /\ \A x : Chars(x)' = Chars(x)
  BY <1>1 DEF Commands, CharsOf, Chars
<1>5. Losing
  BY <1>1, <1>2, <1>3, <1>4, WaitingPlaces, WaitingPlacesNext DEF Losing, InPlace
<1>6. WayInv'
  BY <1>1, <1>2, <1>3, <1>4 DEF IInv, WayInv
<1>7. OrderInv'
  <2>1. Before(ToSet(rx_queue), Chars(p1))
    BY <1>2 DEF IInv, OrderInv, Before
  <2>2. \A t \in Links : Ordered(push'[t]) /\ Before(ToSet(rx_queue), ToSet(push'[t]))
    BY <1>2, <1>3, <2>1 DEF IInv, OrderInv, Links
  <2>3. ASSUME NEW y \in heap \ printed, y # p1 PROVE Before(ToSet(rx_queue) \cup Chars(p1), Chars(y))
    BY <1>2, <2>3 DEF IInv, OrderInv, Before
  <2>4. \A y \in heap' \ printed' : y \in heap \ printed /\ y # p1
    BY <1>1
  <2> QED
    BY <1>1, <1>3, <1>4, <2>2, <2>3, <2>4 DEF IInv, OrderInv
<1> QED
  BY <1>5, <1>6, <1>7

\* The next command goes from its queue to the reader's.
LEMMA CommandFlow ==
  ASSUME IInv, CommandTask
  PROVE  Losing /\ WayInv' /\ OrderInv'
<1>1. PICK q, r : q = cmd_cmd_queue /\ r = cmd_cmd_queue'
  OBVIOUS
<1>2. /\ push["cmd"] = << >> /\ q # << >> /\ r = Tail(q)
      /\ push' = [push EXCEPT !["cmd"] = Head(q)]
      /\ UNCHANGED <<sent, got, heap, node, printed, rx_queue>>
  BY <1>1 DEF CommandTask, list
<1>3. q \in Seq(Writes) /\ Len(q) \in Nat /\ Len(q) > 0 /\ Head(q) = q[1] /\ 1 \in 1 .. Len(q)
  BY <1>1, <1>2 DEF IInv, TypeOK
<1>4. /\ r \in Seq(Writes) /\ Len(r) = Len(q) - 1
      /\ \A i \in 1 .. Len(r) : r[i] = q[i + 1] /\ i + 1 \in 1 .. Len(q) /\ 1 < i + 1
  <2>1. r \in Seq(Writes) /\ Len(r) = Len(q) - 1 /\ \A i \in 1 .. Len(r) : r[i] = q[i + 1]
    BY <1>2, <1>3, HeadTailProperties
  <2> QED
    BY <1>3, <2>1
<1>5. push'["cmd"] = q[1] /\ push'["bt"] = push["bt"]
  BY <1>2, <1>3 DEF IInv, TypeOK, Links
<1>6. \A c : c \in Commands <=> \E i \in 1 .. Len(q) : c \in ToSet(q[i])
  BY <1>1, <1>3, CommandPlaces DEF Commands
<1>7. \A c : c \in Commands' <=> \E i \in 1 .. Len(r) : c \in ToSet(r[i])
  <2>1. Commands' = CharsOf(r)
    BY <1>1 DEF Commands
  <2> QED
    BY <1>4, <2>1, CommandPlaces
<1>8. Commands' \subseteq Commands /\ ToSet(q[1]) \subseteq Commands
  BY <1>3, <1>4, <1>6, <1>7
<1>9. \A x : Chars(x)' = Chars(x)
  BY <1>2 DEF Chars
<1>10. Losing
  BY <1>2, <1>5, <1>8, <1>9, WaitingPlaces, WaitingPlacesNext DEF Losing, InPlace
<1>11. WayInv'
  BY <1>2, <1>5, <1>8, <1>9 DEF IInv, WayInv
<1>12. OrderInv'
  <2>1. Before(ToSet(rx_queue), Commands)
    BY DEF IInv, OrderInv, Before
  <2>2. Before(ToSet(rx_queue), ToSet(q[1])) /\ Before(ToSet(rx_queue), Commands')
    BY <1>8, <2>1 DEF Before
  <2>3. \A i, j \in 1 .. Len(q) : i < j => Before(ToSet(q[i]), ToSet(q[j]))
    BY <1>1 DEF IInv, OrderInv
  <2>4. Before(ToSet(q[1]), Commands')
    BY <1>3, <1>4, <1>7, <2>3 DEF Before
  <2>5. \A i \in 1 .. Len(q) : Ordered(q[i])
    BY <1>1 DEF IInv, OrderInv
  <2>6. \A t \in Links : Ordered(push'[t]) /\ Before(ToSet(rx_queue), ToSet(push'[t]))
    BY <1>3, <1>5, <2>2, <2>5 DEF IInv, OrderInv, Links
  <2>7. \A i \in 1 .. Len(r) : Ordered(r[i])
    BY <1>4, <2>5
  <2>8. ASSUME NEW i \in 1 .. Len(r), NEW j \in 1 .. Len(r), i < j PROVE Before(ToSet(r[i]), ToSet(r[j]))
    <3>1. i + 1 < j + 1
      BY <1>3, <1>4, <2>8
    <3> QED
      BY <1>4, <2>3, <3>1
  <2>9. Before(ToSet(rx_queue) \cup ToSet(push'["cmd"]), Commands')
    BY <1>5, <2>2, <2>4 DEF Before
  <2> QED
    BY <1>1, <1>2, <1>5, <1>9, <2>6, <2>7, <2>8, <2>9 DEF IInv, OrderInv
<1> QED
  BY <1>10, <1>11, <1>12

\* A task in __link_rx puts one character into the queue, or gives up.
LEMMA LinkFlow ==
  ASSUME IInv, NEW t \in Links, LinkRx(t)
  PROVE  Losing /\ WayInv' /\ OrderInv'
<1>1. /\ push[t] # << >> /\ UNCHANGED <<sent, got, heap, node, printed, cmd_cmd_queue>>
      /\ push \in [Links -> Writes] /\ push[t] \in Seq(Char)
  BY DEF LinkRx, list, IInv, TypeOK, Writes
<1>2. Commands' = Commands /\ \A x : Chars(x)' = Chars(x)
  BY <1>1 DEF Commands, CharsOf, Chars
<1>3. Ordered(push[t]) /\ Before(ToSet(rx_queue), ToSet(push[t]))
  BY DEF IInv, OrderInv
<1>4. CASE UNCHANGED rx_queue /\ push' = [push EXCEPT ![t] = << >>]
  <2>1. push'[t] = << >> /\ \A u \in Links : u # t => push'[u] = push[u]
    BY <1>1, <1>4
  <2>2. \A u \in Links : ToSet(push'[u]) \subseteq ToSet(push[u])
    BY <2>1, ToSetEmpty
  <2>3. Losing
    BY <1>1, <1>2, <1>4, <2>2, WaitingPlaces, WaitingPlacesNext DEF Losing, InPlace, Links
  <2>4. WayInv'
    BY <1>1, <1>2, <2>2 DEF IInv, WayInv, Links
  <2>5. \A u \in Links : Ordered(push'[u])
    <3>1. Ordered(<< >>)
      BY DEF Ordered
    <3> QED
      BY <2>1, <3>1 DEF IInv, OrderInv
  <2>6. \A u \in Links : Before(ToSet(rx_queue), ToSet(push'[u]))
    BY <2>2 DEF IInv, OrderInv, Before
  <2>7. Before(ToSet(rx_queue) \cup ToSet(push'["cmd"]), Commands)
    BY <2>2 DEF IInv, OrderInv, Before, Links
  <2>8. \A x \in heap \ printed : Before(ToSet(rx_queue) \cup ToSet(push'["bt"]), Chars(x))
    BY <2>2 DEF IInv, OrderInv, Before, Links
  <2>9. OrderInv'
    BY <1>1, <1>2, <1>4, <2>5, <2>6, <2>7, <2>8 DEF IInv, OrderInv
  <2> QED
    BY <2>3, <2>4, <2>9
<1>5. CASE rx_queue' = Append(rx_queue, Head(push[t])) /\ push' = [push EXCEPT ![t] = Tail(@)]
  <2>1. PICK c, rest : c = Head(push[t]) /\ rest = Tail(push[t])
    OBVIOUS
  <2>2. /\ push'[t] = rest /\ \A u \in Links : u # t => push'[u] = push[u]
        /\ rx_queue' = Append(rx_queue, c)
    BY <1>1, <1>5, <2>1
  <2>3. c \in Char /\ rx_queue \in Seq(Char)
    BY <1>1, <2>1 DEF IInv, TypeOK
  <2>4. ToSet(push[t]) = {c} \cup ToSet(rest) /\ ToSet(rx_queue') = ToSet(rx_queue) \cup {c}
    BY <1>1, <2>1, <2>2, <2>3, ToSetTail, ToSetAppend
  <2>5. Ordered(rest) /\ Before({c}, ToSet(rest))
    BY <1>1, <1>3, <2>1, OrderedTail
  <2>6. Ordered(rx_queue')
    <3>1. Before(ToSet(rx_queue), {c})
      BY <1>3, <2>4 DEF Before
    <3> QED
      BY <2>2, <2>3, <3>1, OrderedAppend DEF IInv, OrderInv
  <2>7. \A u \in Links : ToSet(push'[u]) \subseteq ToSet(push[u])
    BY <2>2, <2>4
  <2>8. Losing
    BY <1>1, <1>2, <2>4, <2>7, WaitingPlaces, WaitingPlacesNext DEF Losing, InPlace, Links
  <2>9. WayInv'
    BY <1>1, <1>2, <2>7 DEF IInv, WayInv, Links
  <2>10. (t = "bt" => c.way # "command") /\ (t = "cmd" => c.way = "command")
    BY <2>4 DEF IInv, WayInv
  <2>11. Before({c}, ToSet(push'["bt"])) /\ Before({c}, ToSet(push'["cmd"]))
    <3>1. CASE t = "bt"
      <4>1. push'["cmd"] = push["cmd"]
        BY <2>2, <3>1 DEF Links
      <4> QED
        BY <2>2, <2>5, <2>10, <3>1, <4>1 DEF IInv, WayInv, Before
    <3>2. CASE t = "cmd"
      <4>1. push'["bt"] = push["bt"]
        BY <2>2, <3>2 DEF Links
      <4> QED
        BY <2>2, <2>5, <2>10, <3>2, <4>1 DEF IInv, WayInv, Before
    <3> QED
      BY <3>1, <3>2 DEF Links
  <2>12. Before({c}, Commands)
    <3>1. CASE t = "bt"
      BY <2>10, <3>1 DEF IInv, WayInv, Before
    <3>2. CASE t = "cmd"
      BY <2>4, <3>2 DEF IInv, OrderInv, Before
    <3> QED
      BY <3>1, <3>2 DEF Links
  <2>13. \A x \in heap \ printed : Before({c}, Chars(x))
    <3>1. CASE t = "bt"
      BY <2>4, <3>1 DEF IInv, OrderInv, Before
    <3>2. CASE t = "cmd"
      BY <2>10, <3>2 DEF IInv, WayInv, Before
    <3> QED
      BY <3>1, <3>2 DEF Links
  <2>14. \A u \in Links : Ordered(push'[u])
    BY <2>2, <2>5 DEF IInv, OrderInv
  <2>15. \A u \in Links : Before(ToSet(rx_queue'), ToSet(push'[u]))
    <3>1. \A u \in Links : Before(ToSet(rx_queue), ToSet(push'[u]))
      BY <2>7 DEF IInv, OrderInv, Before
    <3> QED
      BY <2>4, <2>11, <3>1 DEF Before, Links
  <2>16. Before(ToSet(rx_queue') \cup ToSet(push'["cmd"]), Commands)
    <3>1. Before(ToSet(rx_queue) \cup ToSet(push'["cmd"]), Commands)
      BY <2>7 DEF IInv, OrderInv, Before, Links
    <3> QED
      BY <2>4, <2>12, <3>1 DEF Before
  <2>17. ASSUME NEW x \in heap \ printed PROVE Before(ToSet(rx_queue') \cup ToSet(push'["bt"]), Chars(x))
    <3>1. Before(ToSet(rx_queue) \cup ToSet(push'["bt"]), Chars(x))
      BY <2>7 DEF IInv, OrderInv, Before, Links
    <3> QED
      BY <2>4, <2>13, <3>1 DEF Before
  <2>18. OrderInv'
    BY <1>1, <1>2, <2>6, <2>14, <2>15, <2>16, <2>17 DEF IInv, OrderInv
  <2> QED
    BY <2>8, <2>9, <2>18
<1> QED
  BY <1>4, <1>5 DEF LinkRx

\* The reader takes the first character of its way.
LEMMA GetcFlow ==
  ASSUME IInv, Getc
  PROVE  Flow /\ WayInv' /\ OrderInv'
<1>1. PICK h, rest : h = Head(rx_queue) /\ rest = Tail(rx_queue)
  OBVIOUS
<1>2. /\ rx_queue # << >> /\ rx_queue \in Seq(Char) /\ rx_queue' = rest
      /\ got' = [got EXCEPT ![h.way] = h.num]
      /\ UNCHANGED <<sent, heap, node, printed, push, cmd_cmd_queue>>
  BY <1>1 DEF Getc, list, IInv, TypeOK
<1>3. ToSet(rx_queue) = {h} \cup ToSet(rest)
  BY <1>1, <1>2, ToSetTail
<1>4. Ordered(rest) /\ Before({h}, ToSet(rest))
  BY <1>1, <1>2, OrderedTail DEF IInv, OrderInv
<1>5. Commands' = Commands /\ \A x : Chars(x)' = Chars(x)
  BY <1>2 DEF Commands, CharsOf, Chars
<1>6. h \in Waiting /\ Waiting' \subseteq Waiting /\ \A c \in Waiting : c = h \/ c \in Waiting'
  BY <1>2, <1>3, <1>5, WaitingPlaces, WaitingPlacesNext DEF InPlace
<1>7. Before({h}, Waiting')
  <2>1. \A t \in Links : Before({h}, ToSet(push[t]))
    BY <1>3 DEF IInv, OrderInv, Before
  <2>2. Before({h}, Commands)
    BY <1>3 DEF IInv, OrderInv, Before
  <2>3. \A x \in heap \ printed : Before({h}, Chars(x))
    BY <1>3 DEF IInv, OrderInv, Before
  <2> SUFFICES ASSUME NEW c \in Waiting', c.way = h.way PROVE h.num < c.num
    BY DEF Before
  <2>4. \/ c \in ToSet(rest) \/ c \in ToSet(push["bt"]) \/ c \in ToSet(push["cmd"])
        \/ c \in Commands \/ \E x \in heap \ printed : c \in Chars(x)
    BY <1>2, <1>5, WaitingPlacesNext DEF InPlace
  <2> QED
    BY <1>4, <2>1, <2>2, <2>3, <2>4 DEF Before, Links
<1>8. h.num \in Nat
  BY <1>6, WaitingChars DEF IInv, Char
<1>9. Reading(h)
  <2>1. \A c \in Waiting' : c.way = h.way => h.num < c.num
    BY <1>7 DEF Before
  <2>2. ~ (h.way = h.way => h.num < h.num)
    BY <1>8
  <2> QED
    BY <1>2, <1>6, <2>1, <2>2 DEF Reading
<1>10. WayInv'
  BY <1>2, <1>5 DEF IInv, WayInv
<1>11. OrderInv'
  <2>1. \A t \in Links : Before(ToSet(rest), ToSet(push[t]))
    BY <1>3 DEF IInv, OrderInv, Before
  <2>2. Before(ToSet(rest) \cup ToSet(push["cmd"]), Commands)
    BY <1>3 DEF IInv, OrderInv, Before
  <2>3. \A x \in heap \ printed : Before(ToSet(rest) \cup ToSet(push["bt"]), Chars(x))
    BY <1>3 DEF IInv, OrderInv, Before
  <2> QED
    BY <1>2, <1>4, <1>5, <2>1, <2>2, <2>3 DEF IInv, OrderInv
<1> QED
  BY <1>6, <1>9, <1>10, <1>11 DEF Flow

\* Every step does one of the three things with the waiting characters, and
\* keeps their places and their order.
LEMMA FlowStep == IInv /\ [Next]_vars => Flow /\ WayInv' /\ OrderInv'
<1> SUFFICES ASSUME IInv, [Next]_vars PROVE Flow /\ WayInv' /\ OrderInv'
  OBVIOUS
<1>a. {"data", "prepared", "command"} \subseteq Ways
  BY DEF Ways
<1>1. ASSUME NEW n \in 1 .. MaxWrite, DataWrite(n) PROVE Flow /\ WayInv' /\ OrderInv'
  BY <1>a, <1>1, DataStep DEF Flow
<1>2. ASSUME NEW n \in 1 .. MaxWrite, CommandWrite(n) PROVE Flow /\ WayInv' /\ OrderInv'
  BY <1>a, <1>2, CommandWriteStep DEF Flow
<1>3. ASSUME NEW n \in 1 .. MaxWrite, StoreWrBuffer(n) PROVE Flow /\ WayInv' /\ OrderInv'
  BY <1>a, <1>3, PreparedStep DEF Flow
<1>4. ASSUME NEW n \in 1 .. MaxWrite, StoreFails(n) PROVE Flow /\ WayInv' /\ OrderInv'
  <2>1. CASE Restart
    <3>1. UNCHANGED <<sent, got>>
      BY <2>1 DEF Restart
    <3> QED
      BY <2>1, <3>1, RestartStep DEF Flow, Losing
  <2>2. CASE Arrive("prepared", n) /\ UNCHANGED <<heap, node, printed, queues>>
    <3>1. Waiting' = Waiting
      BY <2>2 DEF queues, Waiting
    <3>2. Sending("prepared", n)
      BY <2>2, <3>1 DEF Arrive, Sending
    <3>3. WayInv' /\ OrderInv'
      BY <2>2, QuietStep
    <3> QED
      BY <1>a, <3>2, <3>3 DEF Flow
  <2> QED
    BY <1>4, <2>1, <2>2 DEF StoreFails
<1>5. CASE ExecWrite \/ PrintEnds \/ FreeEnds
  <2>1. UNCHANGED <<sent, got, heap, node, printed, queues>>
    BY <1>5 DEF ExecWrite, PrintEnds, FreeEnds
  <2> QED
    BY <2>1, QuietStep DEF Flow, Losing
<1>6. CASE PrintNode
  BY <1>6, PrintFlow DEF Flow
<1>7. CASE FreeNode
  <2>1. /\ UNCHANGED <<sent, got, queues>> /\ exec = "free"
        /\ heap' = heap \ {p1} /\ printed' = printed \ {p1} /\ node' = [node EXCEPT ![p1] = Blank]
    BY <1>7 DEF FreeNode
  <2>2. printed = heap
    BY <2>1 DEF IInv, ListInv, ListOf
  <2>3. heap' \subseteq heap /\ heap' \ printed' \subseteq heap \ printed
    BY <2>1, <2>2
  <2>4. \A x \in heap' : node'[x].node_buff = node[x].node_buff
    BY <2>1 DEF IInv, TypeOK
  <2> QED
    BY <2>1, <2>3, <2>4, QuietStep DEF Flow, Losing
<1>8. CASE CommandTask
  BY <1>8, CommandFlow DEF Flow
<1>9. ASSUME NEW t \in Links, LinkRx(t) PROVE Flow /\ WayInv' /\ OrderInv'
  BY <1>9, LinkFlow DEF Flow
<1>10. CASE Getc
  BY <1>10, GetcFlow
<1>11. CASE UNCHANGED vars
  <2>1. UNCHANGED <<sent, got, heap, node, printed, queues>>
    BY <1>11 DEF vars, list
  <2> QED
    BY <2>1, QuietStep DEF Flow, Losing
<1> QED
  BY <1>1, <1>2, <1>3, <1>4, <1>5, <1>6, <1>7, <1>8, <1>9, <1>10, <1>11 DEF Next, BtStep

\* What waits after such a step has been sent and not been read.
LEMMA WaitStep == TypeOK /\ WaitInv /\ Flow => WaitInv'
<1> SUFFICES ASSUME TypeOK, WaitInv, Flow
             PROVE  /\ \A w \in Ways : got'[w] <= sent'[w]
                    /\ \A c \in Waiting' : got'[c.way] < c.num /\ c.num <= sent'[c.way]
  BY DEF WaitInv
<1>1. sent \in [Ways -> 0 .. MaxSent] /\ got \in [Ways -> 0 .. MaxSent] /\ MaxSent \in Nat
  BY DownlinkAssumption DEF TypeOK
<1>2. \A d \in Waiting : d.way \in Ways /\ d.num \in Nat /\ got[d.way] < d.num /\ d.num <= sent[d.way]
  BY WaitingChars DEF WaitInv, Char
<1>3. CASE Losing
  BY <1>2, <1>3 DEF Losing, WaitInv
<1>4. ASSUME NEW w \in Ways, NEW n \in 1 .. MaxWrite, Sending(w, n)
      PROVE  /\ \A u \in Ways : got'[u] <= sent'[u]
             /\ \A c \in Waiting' : got'[c.way] < c.num /\ c.num <= sent'[c.way]
  <2>1. /\ got' = got /\ sent'[w] = sent[w] + n /\ \A u \in Ways : u # w => sent'[u] = sent[u]
        /\ n \in Nat /\ sent[w] \in Nat
    BY <1>1, <1>4 DEF Sending
  <2>2. \A u \in Ways : got[u] \in Nat /\ sent[u] \in Nat /\ sent'[u] \in Nat /\ got[u] <= sent[u] /\ sent[u] <= sent'[u]
    BY <1>1, <2>1 DEF WaitInv
  <2>3. ASSUME NEW c \in Waiting' PROVE got'[c.way] < c.num /\ c.num <= sent'[c.way]
    <3>1. CASE c \in Waiting
      BY <1>2, <2>1, <2>2, <3>1
    <3>2. CASE c \notin Waiting
      <4>1. c.way = w /\ c.num \in sent[w] + 1 .. sent[w] + n
        BY <1>4, <3>2 DEF Sending
      <4> QED
        BY <2>1, <2>2, <4>1
    <3> QED
      BY <3>1, <3>2
  <2>4. ASSUME NEW u \in Ways PROVE got'[u] <= sent'[u]
    BY <2>1, <2>2
  <2> QED
    BY <2>3, <2>4
<1>5. ASSUME NEW h \in Waiting, Reading(h)
      PROVE  /\ \A u \in Ways : got'[u] <= sent'[u]
             /\ \A c \in Waiting' : got'[c.way] < c.num /\ c.num <= sent'[c.way]
  <2>1. sent' = sent /\ got'[h.way] = h.num /\ \A u \in Ways : u # h.way => got'[u] = got[u]
    BY <1>1, <1>2, <1>5 DEF Reading
  <2>2. \A c \in Waiting' : c \in Waiting /\ (c.way = h.way => h.num < c.num)
    BY <1>5 DEF Reading
  <2> QED
    BY <1>2, <2>1, <2>2 DEF WaitInv
<1> QED
  BY <1>3, <1>4, <1>5 DEF Flow

-----------------------------------------------------------------------------

\* The invariant holds before anything has been sent.
LEMMA InvInit == Init => IInv
<1> SUFFICES ASSUME Init PROVE IInv
  OBVIOUS
<1>1. /\ sent = [w \in Ways |-> 0] /\ got = [w \in Ways |-> 0]
      /\ heap = {} /\ node = Empty /\ first_node = Null /\ node_num = 0
      /\ p1 = Null /\ p2 = Null /\ exec = "no" /\ printed = {}
      /\ push = [t \in Links |-> << >>] /\ cmd_cmd_queue = << >> /\ rx_queue = << >>
      /\ push["bt"] = << >> /\ push["cmd"] = << >>
  BY DEF Init, Links
<1>2. {RxLen, CmdLen, MaxWrite, MaxSent} \subseteq Nat /\ 0 \in 0 .. MaxSent
  BY DownlinkAssumption
<1>3. TypeOK
  <2>1. << >> \in Seq(Writes) /\ << >> \in Seq(Char) /\ Len(<< >>) = 0
    OBVIOUS
  <2> QED
    BY <1>1, <1>2, <2>1, WritesTail DEF TypeOK, Empty, Blank
<1>4. Commands = {}
  BY <1>1, ToSetEmpty DEF Commands, CharsOf
<1>5. WayInv
  BY <1>1, <1>4, ToSetEmpty DEF WayInv
<1>6. WaitInv
  <2>1. Waiting = {}
    BY <1>1, <1>4, ToSetEmpty, WaitingPlaces DEF InPlace
  <2> QED
    BY <1>1, <2>1 DEF WaitInv
<1>7. OrderInv
  <2>1. 1 .. Len(<< >>) = {}
    OBVIOUS
  <2>2. Ordered(<< >>)
    BY DEF Ordered
  <2>3. Before({}, {})
    BY DEF Before
  <2> QED
    BY <1>1, <1>4, <2>1, <2>2, <2>3, ToSetEmpty DEF OrderInv
<1>8. ListInv
  <2>1. << >> \in Seq(Nodes) /\ Len(<< >>) = 0
    OBVIOUS
  <2>2. ListOf(<< >>)
    BY <1>1, <2>1, ToSetEmpty DEF ListOf, IsList, Ends, At
  <2> QED
    BY <2>1, <2>2 DEF ListInv
<1> QED
  BY <1>3, <1>5, <1>6, <1>7, <1>8 DEF IInv

\* Every step keeps the invariant.
LEMMA InvStep == IInv /\ [Next]_vars => IInv'
<1> SUFFICES ASSUME IInv, [Next]_vars PROVE IInv'
  OBVIOUS
<1>1. TypeOK' /\ ListInv'
  BY TypeStep, ListStep DEF IInv
<1>2. WaitInv' /\ WayInv' /\ OrderInv'
  BY FlowStep, WaitStep DEF IInv
<1> QED
  BY <1>1, <1>2 DEF IInv

\* The invariant, for queues of any length, writes of any size and any number
\* of list nodes: where each character waits, and that those nearer to the
\* reader were sent earlier (ble_spp_server.c:244-312, 398-506).
THEOREM InvariantHolds == Spec => []IInv
  BY InvInit, InvStep, PTL DEF Spec

\* The text queues and the prepared list never hold anything but texts that
\* the client has sent.
THEOREM TypeCorrect == Spec => []TypeOK
<1>1. IInv => TypeOK
  BY DEF IInv
<1> QED
  BY <1>1, InvariantHolds, PTL

\* Between two events the prepared list is whole: node_num, first_node and p2
\* agree with the links through all that is allocated, although the free loop
\* uses p2 as a scratch variable (ble_spp_server.c:244-283).
THEOREM ListWholeHolds == Spec => []ListWhole
<1>1. IInv => ListWhole
  BY InvIsWhole DEF IInv
<1> QED
  BY <1>1, InvariantHolds, PTL

-----------------------------------------------------------------------------
(* The streams of LossyStreams.                                            *)

\* The abstract initial state is the image of the first.
LEMMA StreamsStart == Init => Streams!Init
<1> SUFFICES ASSUME Init PROVE Streams!Init
  OBVIOUS
<1>1. /\ sent = [w \in Ways |-> 0] /\ got = [w \in Ways |-> 0]
      /\ heap = {} /\ cmd_cmd_queue = << >> /\ rx_queue = << >>
      /\ push["bt"] = << >> /\ push["cmd"] = << >>
  BY DEF Init, Links
<1>2. Commands = {}
  BY <1>1, ToSetEmpty DEF Commands, CharsOf
<1>3. Waiting = {}
  BY <1>1, <1>2, ToSetEmpty, WaitingPlaces DEF InPlace
<1> QED
  BY <1>1, <1>3 DEF Streams!Init

\* What becomes of the characters is what the streams allow.
LEMMA StreamsStep == IInv /\ [Next]_vars => [Streams!Next]_(Streams!vars)
<1> SUFFICES ASSUME IInv, [Next]_vars PROVE Streams!Next
  OBVIOUS
<1>1. Flow
  BY FlowStep
<1>2. /\ sent \in [Ways -> 0 .. MaxSent] /\ got \in [Ways -> 0 .. MaxSent] /\ MaxSent \in Nat
      /\ \A c \in Waiting : c.way \in Ways /\ c.num \in 1 .. MaxSent
      /\ \A c \in Waiting' : c.way \in Ways /\ c.num \in 1 .. MaxSent
  <2>1. Waiting \subseteq Char /\ Waiting' \subseteq Char
    BY WaitingChars, WaitingCharsNext, TypeStep DEF IInv
  <2> QED
    BY <2>1, DownlinkAssumption DEF IInv, TypeOK, Char
<1>3. PICK A, B : /\ A = [w \in Ways |-> { c.num : c \in { d \in Waiting : d.way = w } }]
                  /\ B = [w \in Ways |-> { c.num : c \in { d \in Waiting' : d.way = w } }]
  OBVIOUS
<1>4. /\ A \in [Ways -> SUBSET (1 .. MaxSent)] /\ B \in [Ways -> SUBSET (1 .. MaxSent)]
      /\ \A w \in Ways : \A k : k \in A[w] <=> \E c \in Waiting : c.way = w /\ k = c.num
      /\ \A w \in Ways : \A k : k \in B[w] <=> \E c \in Waiting' : c.way = w /\ k = c.num
  BY <1>2, <1>3
<1>5. CASE Losing
  <2>1. UNCHANGED <<sent, got>> /\ \A w \in Ways : B[w] \subseteq A[w]
    BY <1>4, <1>5 DEF Losing
  <2>2. Streams!Lose
    BY <1>3, <1>4, <2>1 DEF Streams!Lose
  <2> QED
    BY <2>2 DEF Streams!Next
<1>6. ASSUME NEW w \in Ways, NEW n \in 1 .. MaxWrite, Sending(w, n) PROVE Streams!Next
  <2>1. /\ sent' = [sent EXCEPT ![w] = sent[w] + n] /\ got' = got
        /\ sent[w] + n \in sent[w] + 1 .. MaxSent
    BY <1>2, <1>6 DEF Sending
  <2>2. PICK kept : kept = B[w] \cap (sent[w] + 1 .. sent[w] + n)
    OBVIOUS
  <2>3. \A k : k \in B[w] <=> k \in A[w] \/ k \in kept
    BY <1>4, <1>6, <2>2 DEF Sending
  <2>4. \A v \in Ways : v # w => \A k : k \in B[v] <=> k \in A[v]
    BY <1>4, <1>6 DEF Sending
  <2>5. B = [A EXCEPT ![w] = A[w] \cup kept]
    <3>1. B[w] = A[w] \cup kept
      BY <2>3
    <3>2. \A v \in Ways : v # w => B[v] = A[v]
      <4> TAKE v \in Ways
      <4>1. B[v] \in SUBSET (1 .. MaxSent) /\ A[v] \in SUBSET (1 .. MaxSent)
        BY <1>4
      <4> QED
        BY <2>4, <4>1
    <3> QED
      BY <1>4, <3>1, <3>2
  <2>6. kept \in SUBSET (sent[w] + 1 .. sent[w] + n)
    BY <2>2
  <2>7. Streams!Send(w)
    BY <1>3, <2>1, <2>5, <2>6 DEF Streams!Send
  <2> QED
    BY <2>7 DEF Streams!Next
<1>7. ASSUME NEW h \in Waiting, Reading(h) PROVE Streams!Next
  <2>1. h.way \in Ways /\ h.num \in A[h.way] /\ sent' = sent /\ got' = [got EXCEPT ![h.way] = h.num]
    BY <1>2, <1>4, <1>7 DEF Reading
  <2>2. \A k : k \in B[h.way] <=> k \in A[h.way] /\ k > h.num
    BY <1>2, <1>4, <1>7, <2>1 DEF Reading
  <2>3. \A v \in Ways : v # h.way => \A k : k \in B[v] <=> k \in A[v]
    BY <1>4, <1>7 DEF Reading
  <2>4. B = [A EXCEPT ![h.way] = { k \in A[h.way] : k > h.num }]
    BY <1>4, <2>1, <2>2, <2>3
  <2>5. Streams!Deliver(h.way)
    BY <1>3, <2>1, <2>4 DEF Streams!Deliver
  <2> QED
    BY <2>1, <2>5 DEF Streams!Next
<1> QED
  BY <1>1, <1>5, <1>6, <1>7 DEF Flow

\* In each way the reader gets what the client sent, in order and at most once,
\* whatever is lost on full queues, interleaved between the two tasks or
\* executed twice (ble_spp_server.c:285-294, 398, 499; console_ll.c:88-104).
THEOREM TextInOrderHolds == Spec => TextInOrder
<1>1. Spec => Streams!Init /\ [][Streams!Next]_(Streams!vars)
  BY StreamsStart, StreamsStep, InvariantHolds, PTL DEF Spec
<1> QED
  BY <1>1 DEF TextInOrder, Streams!Spec
=============================================================================
