-------------------------- MODULE MyEncoderProofs ---------------------------
(***************************************************************************)
(* The safety properties of MyEncoder, for a queue of any length, counters *)
(* of any width and any positions set from outside; those of RotaryEncoder *)
(* for any times of the button; and that what the one sends the other      *)
(* expects.                                                                *)
(***************************************************************************)
EXTENDS MyEncoder, RotaryEncoder, TLAPS, SequenceTheorems

\* init_encoder and destroy_encoder keep the task and the registered encoder in
\* step; a repeated init_encoder finds both.
AppInv ==
  /\ task # "none" <=> app = "up" \/ again
  /\ again => app \in {"zeroing", "zeroed"}
  /\ enc <=> again \/ app \in {"adding", "added", "up", "killed"}

\* A position that is being set, and no race: encoder_task is not in a round
\* and has not been in one since the first of the two stores.
SetInv ==
  setter # << >> /\ raced < 2 =>
    task \in {"none", "wait"} /\ app # "zeroing" /\ ctlD = setter[1]

\* What encoder_task has loaded is the position, unless a store fell into the
\* round; the two words agree between rounds, unless one fell into this round
\* or the one before it.
RoundInv ==
  /\ raced < 2 /\ task \in {"store", "copyStore"} => copy = ctlD
  /\ raced = 0 /\ app = "zeroing" => ctlD = 0
  /\ raced = 0 /\ app = "zeroing" => ~InRound
  /\ raced = 0 /\ setter = << >> /\ app # "zeroing"
       /\ (task = "wait" \/ (task = "none" /\ app \in {"zeroed", "adding", "added"})) => ctlD = ctlQ
  /\ raced = 0 /\ task \in {"load", "store"} => ctlD = ctlQ
  /\ raced = 0 /\ task = "callback" /\ ev # "BTN" => ctlD = Wrap(ctlQ + Diff(ev))
  /\ task \in {"load", "store"} => ev # "BTN"

IInv == TypeOK /\ AppInv /\ SetInv /\ RoundInv /\ DirectionUnlessRaced

-----------------------------------------------------------------------------
(* Arithmetic and typing.                                                  *)

\* The counters wrap around within their range, and only at its ends: any other
\* turn moves the position by one.
LEMMA WrapMoves ==
  \A x \in Position :
    /\ x \in Int /\ Wrap(x) = x
    /\ Wrap(x + 1) \in Position /\ (x # High => Wrap(x + 1) = x + 1) /\ (x = High => Wrap(x + 1) = Low)
    /\ Wrap(x + (-1)) \in Position /\ (x # Low => Wrap(x + (-1)) = x - 1)
    /\ x = Low => Wrap(x + (-1)) = High
  BY EncAssumption DEF Position, Low, High, Wrap

\* A turn keeps the position in range.
LEMMA DiffType == \A x \in Position, e \in Events : Diff(e) \in {-1, 0, 1} /\ Wrap(x + Diff(e)) \in Position
<1> TAKE x \in Position, e \in Events
<1>1. CASE e = "INC"
  BY <1>1, WrapMoves DEF Diff
<1>2. CASE e = "DEC"
  BY <1>2, WrapMoves DEF Diff
<1>3. CASE e = "BTN"
  <2>1. Diff(e) = 0 /\ x + 0 = x
    BY <1>3, WrapMoves DEF Diff
  <2> QED
    BY <2>1, WrapMoves
<1> QED
  BY <1>1, <1>2, <1>3 DEF Events

\* Zero is a position.
LEMMA ZeroType == 0 \in Position
  BY EncAssumption DEF Position, Low, High

\* The queue starts within its length.
LEMMA EmptyQueue == << >> \in Seq(Events) /\ Len(<< >>) <= QLen
  BY EncAssumption

\* The timer fills the queue up to its length and drops the rest.
LEMMA TickType ==
  ASSUME TypeOK, NEW events \in PollEvents, Tick(events)
  PROVE  queue' \in Seq(Events) /\ Len(queue') <= QLen
<1> DEFINE all == queue \o events
<1>1. events \in Seq(Events)
  <2>1. \A a, b, c \in Events : { << >>, <<a>>, <<a, b>>, <<a, b, c>> } \subseteq Seq(Events)
    OBVIOUS
  <2>2. {"INC", "DEC", "BTN"} \subseteq Events
    BY DEF Events
  <2>3. \/ events \in { << >>, <<"BTN">>, <<"BTN", "BTN">> }
        \/ \E e \in Events : events \in { <<e>>, <<"BTN", e>>, <<"BTN", "BTN", e>> }
    BY <2>2 DEF PollEvents
  <2> QED
    BY <2>1, <2>2, <2>3
<1>2. all \in Seq(Events) /\ Len(all) \in Nat /\ QLen \in Nat
  BY <1>1, EncAssumption DEF TypeOK
<1> DEFINE n == IF Len(all) < QLen THEN Len(all) ELSE QLen
<1>3. queue' = SubSeq(all, 1, n)
  BY DEF Tick
<1>4. n \in Nat /\ n <= Len(all) /\ n <= QLen
  BY <1>2
<1> HIDE DEF n, all
<1>5. \A i \in 1 .. n : all[i] \in Events
  BY <1>2, <1>4, ElementOfSeq
<1>6. SubSeq(all, 1, n) \in Seq(Events) /\ Len(SubSeq(all, 1, n)) = IF 1 <= n THEN n - 1 + 1 ELSE 0
  BY <1>4, <1>5, SubSeqProperties
<1> QED
  BY <1>2, <1>3, <1>4, <1>6

\* Every step keeps the variables in their types.
LEMMA TypeStep == TypeOK /\ [Next]_vars => TypeOK'
<1> SUFFICES ASSUME TypeOK, [Next]_vars PROVE TypeOK'
  OBVIOUS
<1> USE ZeroType DEF TypeOK
<1>1. CASE InitZero \/ KillTask \/ DestroyStep
  BY <1>1 DEF InitZero, InRound, KillTask, DestroyStep, RemoveTake, RemoveGive
<1>2. CASE InitStep
  <2>1. CASE AddFails \/ AddFull
    BY <2>1, EmptyQueue DEF AddFails, AddFull, Restart, Events
  <2> QED
    BY <1>2, <2>1 DEF InitStep, InitZeroed, InRound, AddTake, AddGive, StartTask
<1>3. ASSUME NEW events \in PollEvents, Tick(events) PROVE TypeOK'
  BY <1>3, TickType DEF Tick
<1>4. CASE TaskStep
  <2>1. CASE Receive
    <3>1. Head(queue) \in Events /\ Tail(queue) \in Seq(Events) /\ Len(Tail(queue)) = Len(queue) - 1
      BY <2>1, HeadTailProperties DEF Receive
    <3>2. Len(queue) \in Nat /\ QLen \in Nat
      BY EncAssumption
    <3> QED
      BY <2>1, <3>1, <3>2 DEF Receive
  <2>2. CASE CountLoad \/ CopyLoad
    BY <2>2 DEF CountLoad, CopyLoad
  <2>3. CASE CountStore
    BY <2>3, DiffType DEF CountStore
  <2>4. CASE Callback
    BY <2>4 DEF Callback, Events
  <2>5. CASE CopyStore
    BY <2>5 DEF CopyStore, EndRound
  <2> QED
    BY <1>4, <2>1, <2>2, <2>3, <2>4, <2>5 DEF TaskStep
<1>5. ASSUME NEW v \in SetValues, SetFirst(v) PROVE TypeOK'
  BY <1>5, EncAssumption DEF SetFirst
<1>6. CASE SetSecond
  BY <1>6 DEF SetSecond
<1>7. CASE UNCHANGED vars
  BY <1>7 DEF vars
<1> QED
  BY <1>1, <1>2, <1>3, <1>4, <1>5, <1>6, <1>7 DEF Next

-----------------------------------------------------------------------------
(* The invariant.                                                          *)

\* Every step keeps what is known of the application's task, the setter and
\* encoder_task.
LEMMA InvStep == IInv /\ [Next]_vars => IInv'
<1> SUFFICES ASSUME IInv, [Next]_vars PROVE IInv'
  OBVIOUS
<1> DEFINE Goal == (AppInv /\ SetInv /\ RoundInv /\ DirectionUnlessRaced)'
<1>0. TypeOK /\ TypeOK'
  BY TypeStep DEF IInv
<1> SUFFICES Goal
  BY <1>0 DEF IInv
<1>a. enc \in BOOLEAN /\ enc' \in BOOLEAN /\ raced \in {0, 1, 2} /\ ev \in Events /\ ctlD \in Position /\ ctlQ \in Position
  BY <1>0 DEF TypeOK
<1> USE <1>a DEF IInv, AppInv, SetInv, RoundInv, InRound, BeingSet, DirectionUnlessRaced, Wrapped
<1>1. CASE InitZero
  BY <1>1 DEF InitZero
<1>2. CASE InitStep
  <2>1. CASE InitZeroed
    BY <2>1 DEF InitZeroed
  <2>2. CASE AddTake \/ AddGive \/ StartTask
    BY <2>2 DEF AddTake, AddGive, StartTask
  <2>3. CASE AddFails \/ AddFull
    BY <2>3 DEF AddFails, AddFull, Restart
  <2> QED
    BY <1>2, <2>1, <2>2, <2>3 DEF InitStep
<1>3. CASE KillTask \/ DestroyStep
  BY <1>3 DEF KillTask, DestroyStep, RemoveTake, RemoveGive
<1>4. ASSUME NEW events \in PollEvents, Tick(events) PROVE Goal
  BY <1>4 DEF Tick
<1>5. CASE TaskStep
  <2>1. CASE Receive
    BY <2>1 DEF Receive
  <2>2. CASE CountLoad \/ CopyLoad
    BY <2>2 DEF CountLoad, CopyLoad
  <2>3. CASE CountStore
    BY <2>3 DEF CountStore
  <2>4. CASE Callback
    <3>1. AppInv' /\ SetInv' /\ RoundInv'
      BY <2>4 DEF Callback
    <3>2. ASSUME raced = 0, ~Wrapped PROVE called' = ev
      <4>1. ctlQ \in Int /\ Low \in Int /\ High \in Int /\ Low <= ctlQ /\ ctlQ <= High
        BY EncAssumption DEF Position, Low, High
      <4>2. CASE ev = "INC"
        <5>1. ctlD = Wrap(ctlQ + 1) /\ ctlQ # High
          BY <2>4, <3>2, <4>2, WrapMoves DEF Callback, Diff
        <5>2. ctlD > ctlQ
          BY <4>1, <5>1, WrapMoves
        <5> QED
          BY <2>4, <4>2, <5>2 DEF Callback
      <4>3. CASE ev = "DEC"
        <5>1. ctlD = Wrap(ctlQ + (-1)) /\ ctlQ # Low
          BY <2>4, <3>2, <4>3, WrapMoves DEF Callback, Diff
        <5>2. ~(ctlD > ctlQ)
          BY <4>1, <5>1, WrapMoves
        <5> QED
          BY <2>4, <4>3, <5>2 DEF Callback
      <4> QED
        BY <2>4, <4>2, <4>3 DEF Callback, Events
    <3> QED
      BY <2>4, <3>1, <3>2 DEF Callback
  <2>5. CASE CopyStore
    BY <2>5 DEF CopyStore, EndRound
  <2> QED
    BY <1>5, <2>1, <2>2, <2>3, <2>4, <2>5 DEF TaskStep
<1>6. ASSUME NEW v \in SetValues, SetFirst(v) PROVE Goal
  BY <1>6 DEF SetFirst, Disturbs
<1>7. CASE SetSecond
  BY <1>7 DEF SetSecond, Disturbs
<1>8. CASE UNCHANGED vars
  BY <1>8 DEF vars
<1> QED
  BY <1>1, <1>2, <1>3, <1>4, <1>5, <1>6, <1>7, <1>8 DEF Next

\* The inductive invariant holds in every reachable state.
THEOREM InvariantHolds == Spec => []IInv
<1>1. Init => IInv
  <2> SUFFICES ASSUME Init PROVE IInv
    OBVIOUS
  <2>1. TypeOK
    BY ZeroType, EmptyQueue DEF Init, TypeOK, Events
  <2>2. AppInv /\ SetInv /\ RoundInv /\ DirectionUnlessRaced
    BY DEF Init, AppInv, SetInv, RoundInv, InRound, DirectionUnlessRaced
  <2> QED
    BY <2>1, <2>2 DEF IInv
<1> QED
  BY <1>1, InvStep, PTL DEF Spec

\* The queue stays within its length, the counters within their width.
THEOREM TypeCorrect == Spec => []TypeOK
<1>1. IInv => TypeOK
  BY DEF IInv
<1> QED
  BY <1>1, InvariantHolds, PTL

\* A descriptor is zeroed while the timer may poll it only by an init_encoder that
\* is repeated without destroy_encoder, and that one ends in a restart.
THEOREM DescriptorNotSharedHolds == Spec => []DescriptorNotShared
<1>1. IInv => DescriptorNotShared
  BY DEF IInv, AppInv, DescriptorNotShared
<1> QED
  BY <1>1, InvariantHolds, PTL

\* The callback reports the direction of the turn, unless a position set from
\* outside raced with the round or the counter overflowed.
THEOREM DirectionUnlessRacedHolds == Spec => []DirectionUnlessRaced
<1>1. IInv => DirectionUnlessRaced
  BY DEF IInv
<1> QED
  BY <1>1, InvariantHolds, PTL

\* Unless a store from outside raced with it, a round adds its turn to the
\* position as it is.
THEOREM CountUnlessRacedHolds == Spec => CountUnlessRaced
<1>1. IInv /\ [Next]_vars => [(CountStore /\ raced = 0) => ctlD' = Wrap(ctlD + Diff(ev))]_vars
  BY DEF IInv, RoundInv, CountStore
<1> QED
  BY <1>1, InvariantHolds, PTL DEF Spec, CountUnlessRaced

-----------------------------------------------------------------------------
(* The decoder: what it remembers of the shaft and of the button.          *)

\* The last n quarter turns were in direction dir.
EndsWith(s, n, dir) == Len(s) >= n /\ \A i \in 0 .. n - 1 : s[Len(s) - i] = dir

\* The shaft is n quarters into a cycle it has turned in one direction.
Progress(dir, n) == EndsWith(moves, n, dir) /\ phase = (n * dir + 4) % 4

\* The code of a quarter turn, by its direction and the quarter it begins in.
Codes == [d \in {1, -1} |-> IF d = 1 THEN <<14, 8, 1, 7>> ELSE <<13, 11, 2, 4>>]

\* The beginnings of the two patterns, by direction and quarters.
Pattern == [d \in {1, -1} |-> IF d = 1 THEN <<14, 232, 3713>> ELSE <<13, 212, 3394>>]

\* What the decoder remembers of the shaft.
DecoderInv ==
  /\ polled => code % 4 = Pins[phase + 1]
  /\ ~polled => code = 0 /\ store = 0 /\ moves = << >>
  /\ \A dir \in {1, -1} :
       /\ store % 16 = Pattern[dir][1] <=> Progress(dir, 1)
       /\ store % 256 = Pattern[dir][2] <=> Progress(dir, 2)
       /\ store % 4096 = Pattern[dir][3] <=> Progress(dir, 3)

\* How long ago the press was that is going on, and whether it was reported long.
PressInv ==
  /\ btnState = "pressed" => btnTime < LongTime /\ since = btnTime /\ ~longed
  /\ btnState = "long" => since >= LongTime /\ longed

PollInv == DecoderTypeOK /\ PressInv /\ DecoderInv

\* The last four quarter turns after one more.
Moved(m, move) == LET x == Append(m, move) IN IF Len(x) > 4 THEN Tail(x) ELSE x

-----------------------------------------------------------------------------
(* The button.                                                             *)

\* The events of a poll.
ButtonEvents == { << >>, <<"PRESSED">>, <<"LONG">>, <<"RELEASED">>, <<"RELEASED", "CLICKED">> }
TurnEvents == { << >>, <<"INC">>, <<"DEC">> }

\* No two of them are the same.
LEMMA EventsDiffer ==
  \A x, y : /\ << >> # <<x>> /\ << >> # <<x, y>>
            /\ \A z : <<z>> # <<x, y>> /\ (<<z>> = <<x>> => z = x)
  OBVIOUS

\* The button's part of a poll: what it sends, and when.
LEMMA ButtonStep ==
  ASSUME DecoderTypeOK, PressInv, NEW down \in BOOLEAN
  PROVE  LET b == Button(down)
         IN /\ b.state \in {"released", "pressed", "long"} /\ b.time \in 0 .. LongTime
            /\ b.events \in ButtonEvents
            /\ b.events = <<"PRESSED">> => b.state = "pressed" /\ b.time = 0
            /\ b.events # <<"PRESSED">> =>
                 /\ b.state = "pressed" => btnState = "pressed" /\ b.time = since + 1 /\ b.time < LongTime
                 /\ b.state = "long" => since + 1 >= LongTime /\ (b.events = <<"LONG">> \/ longed)
            /\ b.events = <<"LONG">> => since + 1 = LongTime /\ ~longed /\ b.state = "long"
            /\ b.events = <<"RELEASED">> => since >= LongTime /\ longed /\ b.state = "released"
            /\ b.events = <<"RELEASED", "CLICKED">> =>
                 since >= DeadTime /\ since < LongTime /\ ~longed /\ b.state = "released"
<1> DEFINE b == Button(down)
<1>1. /\ DeadTime \in Nat /\ LongTime \in Nat /\ DeadTime < LongTime
      /\ btnTime \in 0 .. LongTime /\ since \in 0 .. LongTime + 2
      /\ btnState \in {"released", "pressed", "long"}
  BY TimeAssumption DEF DecoderTypeOK, TimeAssumption
<1>2. Elapsed(btnTime) \in 0 .. LongTime /\ (btnTime < LongTime => Elapsed(btnTime) = btnTime + 1)
  BY <1>1 DEF Elapsed
<1>0. \A s, t, e : Result(s, t, e).state = s /\ Result(s, t, e).time = t /\ Result(s, t, e).events = e
  BY DEF Result
<1>3. CASE btnState = "pressed" /\ btnTime < DeadTime
  <2>1. b.state = "pressed" /\ b.time = Elapsed(btnTime) /\ b.events = << >>
    BY <1>3, <1>0 DEF Button
  <2> QED
    BY <1>1, <1>2, <1>3, <2>1 DEF PressInv, ButtonEvents
<1>4. CASE ~(btnState = "pressed" /\ btnTime < DeadTime)
  <2>0. b = ReadButton(down)
    BY <1>4 DEF Button
  <2>1. CASE ~down
    <3>1. b.state = "released" /\ b.time = btnTime /\ b.events = ReleaseEvents(btnState)
      BY <2>0, <2>1, <1>0 DEF ReadButton
    <3>2. CASE btnState = "released"
      BY <1>1, <3>1, <3>2 DEF ReleaseEvents, ButtonEvents
    <3>3. CASE btnState = "pressed"
      <4>1. b.events = <<"RELEASED", "CLICKED">>
        BY <3>1, <3>3 DEF ReleaseEvents
      <4>2. since < LongTime /\ since >= DeadTime /\ ~longed
        BY <1>1, <1>4, <3>3 DEF PressInv
      <4>3. b.events \notin {<<"PRESSED">>, <<"LONG">>, <<"RELEASED">>}
        BY <4>1, EventsDiffer
      <4> QED
        BY <1>1, <3>1, <4>1, <4>2, <4>3, Zenon DEF ButtonEvents
    <3>4. CASE btnState = "long"
      <4>1. b.events = <<"RELEASED">>
        BY <3>1, <3>4 DEF ReleaseEvents
      <4>2. since >= LongTime /\ longed
        BY <3>4 DEF PressInv
      <4>3. b.events \notin {<<"PRESSED">>, <<"LONG">>, <<"RELEASED", "CLICKED">>}
        BY <4>1, EventsDiffer
      <4> QED
        BY <1>1, <3>1, <4>1, <4>2, <4>3, Zenon DEF ButtonEvents
    <3> QED
      BY <1>1, <3>2, <3>3, <3>4
  <2>2. CASE down /\ btnState = "released"
    <3>1. b.state = "pressed" /\ b.time = 0 /\ b.events = <<"PRESSED">>
      BY <2>0, <2>2, <1>0 DEF ReadButton
    <3>2. b.events \notin {<<"LONG">>, <<"RELEASED">>, <<"RELEASED", "CLICKED">>}
      BY <3>1, EventsDiffer
    <3> QED
      BY <1>1, <3>1, <3>2 DEF ButtonEvents
  <2>3. CASE down /\ btnState = "pressed" /\ Elapsed(btnTime) >= LongTime
    <3>1. b.state = "long" /\ b.time = Elapsed(btnTime) /\ b.events = <<"LONG">>
      BY <2>0, <2>3, <1>0 DEF ReadButton
    <3>2. since + 1 = LongTime /\ since + 1 >= LongTime /\ ~longed /\ Elapsed(btnTime) \in 0 .. LongTime
      BY <1>1, <1>2, <2>3 DEF PressInv
    <3>3. b.events \notin {<<"PRESSED">>, <<"RELEASED">>, <<"RELEASED", "CLICKED">>}
      BY <3>1, EventsDiffer
    <3> QED
      BY <3>1, <3>2, <3>3, Zenon DEF ButtonEvents
  <2>4. CASE down /\ btnState # "released" /\ ~(btnState = "pressed" /\ Elapsed(btnTime) >= LongTime)
    <3>1. b.state = btnState /\ b.time = Elapsed(btnTime) /\ b.events = << >>
      BY <2>0, <2>4, <1>0 DEF ReadButton
    <3>2. /\ b.state \in {"released", "pressed", "long"} /\ b.time \in 0 .. LongTime
          /\ b.state = "pressed" => btnState = "pressed" /\ b.time = since + 1 /\ b.time < LongTime
          /\ b.state = "long" => since + 1 >= LongTime /\ longed
      <4>1. btnState = "pressed" => Elapsed(btnTime) = since + 1 /\ Elapsed(btnTime) < LongTime
        BY <1>1, <1>2, <2>4 DEF PressInv
      <4>2. btnState = "long" => since + 1 >= LongTime /\ longed
        BY <1>1 DEF PressInv
      <4> QED
        BY <1>1, <1>2, <3>1, <4>1, <4>2, Zenon
    <3>3. b.events \notin {<<"PRESSED">>, <<"LONG">>, <<"RELEASED">>, <<"RELEASED", "CLICKED">>}
      BY <3>1, EventsDiffer
    <3> QED
      BY <3>1, <3>2, <3>3, Zenon DEF ButtonEvents
  <2> QED
    BY <1>1, <2>1, <2>2, <2>3, <2>4
<1> QED
  BY <1>3, <1>4

\* A poll sends at most three events, and what it sends is what the button or
\* the turn sent.
LEMMA EventsSent ==
  ASSUME NEW b \in ButtonEvents, NEW t \in TurnEvents
  PROVE  /\ Len(b \o t) <= 3
         /\ Contains(b, "PRESSED") <=> b = <<"PRESSED">>
         /\ Contains(b, "LONG") <=> b = <<"LONG">>
         /\ Contains(b \o t, "RELEASED") <=> b \in {<<"RELEASED">>, <<"RELEASED", "CLICKED">>}
         /\ Contains(b \o t, "CLICKED") <=> b = <<"RELEASED", "CLICKED">>
         /\ Contains(b \o t, "LONG") <=> b = <<"LONG">>
         /\ Contains(b \o t, "INC") <=> t = <<"INC">>
         /\ Contains(b \o t, "DEC") <=> t = <<"DEC">>
<1>1. \E E : b \in Seq(E) /\ t \in Seq(E) /\ Len(b) <= 2 /\ Len(t) <= 1
  <2> DEFINE E == {"PRESSED", "LONG", "RELEASED", "CLICKED", "INC", "DEC"}
  <2>1. /\ << >> \in Seq(E) /\ Len(<< >>) <= 1 /\ Len(<< >>) <= 2
        /\ <<"RELEASED", "CLICKED">> \in Seq(E) /\ Len(<<"RELEASED", "CLICKED">>) <= 2
    OBVIOUS
  <2>2. \A x \in E : <<x>> \in Seq(E) /\ Len(<<x>>) <= 1 /\ Len(<<x>>) <= 2
    OBVIOUS
  <2>3. /\ <<"PRESSED">> \in Seq(E) /\ <<"LONG">> \in Seq(E) /\ <<"RELEASED">> \in Seq(E)
        /\ <<"INC">> \in Seq(E) /\ <<"DEC">> \in Seq(E)
        /\ Len(<<"PRESSED">>) <= 2 /\ Len(<<"LONG">>) <= 2 /\ Len(<<"RELEASED">>) <= 2
        /\ Len(<<"INC">>) <= 1 /\ Len(<<"DEC">>) <= 1
    BY <2>2
  <2> HIDE DEF E
  <2>4. b \in Seq(E) /\ Len(b) <= 2
    BY <2>1, <2>3, Zenon DEF ButtonEvents
  <2>5. t \in Seq(E) /\ Len(t) <= 1
    BY <2>1, <2>3, Zenon DEF TurnEvents
  <2> WITNESS E
  <2> QED
    BY <2>4, <2>5
<1>2. \A e : Contains(b \o t, e) <=> Contains(b, e) \/ Contains(t, e)
  BY <1>1 DEF Contains
<1>3. \A e : Contains(<< >>, e) <=> FALSE
  BY DEF Contains
<1>4. \A e, x : Contains(<<x>>, e) <=> e = x
  BY DEF Contains
<1>5. \A e, x, y : Contains(<<x, y>>, e) <=> e = x \/ e = y
  BY DEF Contains
<1> HIDE DEF Contains
<1>7. Len(b \o t) <= 3
  BY <1>1
<1>8. Contains(t, "INC") <=> t = <<"INC">>
  BY <1>3, <1>4, EventsDiffer DEF TurnEvents
<1>9. Contains(t, "DEC") <=> t = <<"DEC">>
  BY <1>3, <1>4, EventsDiffer DEF TurnEvents
<1>10. \A e \in {"PRESSED", "RELEASED", "CLICKED", "LONG"} : ~Contains(t, e)
  BY <1>3, <1>4 DEF TurnEvents
<1>11. ~Contains(b, "INC") /\ ~Contains(b, "DEC")
  BY <1>3, <1>4, <1>5 DEF ButtonEvents
<1>12. /\ Contains(b, "PRESSED") <=> b = <<"PRESSED">>
       /\ Contains(b, "RELEASED") <=> b \in {<<"RELEASED">>, <<"RELEASED", "CLICKED">>}
       /\ Contains(b, "CLICKED") <=> b = <<"RELEASED", "CLICKED">>
       /\ Contains(b, "LONG") <=> b = <<"LONG">>
  <2>1. CASE b = << >>
    BY <2>1, <1>3, EventsDiffer
  <2>2. CASE b = <<"PRESSED">>
    BY <2>2, <1>4, EventsDiffer
  <2>3. CASE b = <<"LONG">>
    BY <2>3, <1>4, EventsDiffer
  <2>4. CASE b = <<"RELEASED">>
    BY <2>4, <1>4, EventsDiffer
  <2>5. CASE b = <<"RELEASED", "CLICKED">>
    BY <2>5, <1>5, EventsDiffer
  <2> QED
    BY <2>1, <2>2, <2>3, <2>4, <2>5 DEF ButtonEvents
<1> QED
  BY <1>2, <1>7, <1>8, <1>9, <1>10, <1>11, <1>12

\* What a turn sends is one event or none.
LEMMA TurnedType == \A count \in {-1, 0, 1} : Turned(count) \in TurnEvents
  BY DEF Turned, TurnEvents

\* Counts are one or none.
LEMMA CountType == \A c : Count(c) \in {-1, 0, 1}
  BY DEF Count

\* The press that is going on began since polls ago; every step keeps it so, and
\* tells its story.
LEMMA StoryStep ==
  ASSUME DecoderTypeOK, PressInv, [DecoderNext]_decoderVars
  PROVE  /\ PressInv'
         /\ [ /\ Sent("RELEASED") => since' > DeadTime
              /\ Sent("LONG") => ~longed /\ since' = LongTime
              /\ Sent("CLICKED") <=> Sent("RELEASED") /\ ~longed ]_decoderVars
<1>1. /\ DeadTime \in Nat /\ LongTime \in Nat /\ DeadTime < LongTime
      /\ btnTime \in 0 .. LongTime /\ since \in 0 .. LongTime + 2
  BY TimeAssumption DEF DecoderTypeOK, TimeAssumption
<1>2. ASSUME NEW move \in {-1, 0, 1}, NEW down \in BOOLEAN, Poll(move, down)
      PROVE  /\ PressInv'
             /\ Sent("RELEASED") => since' > DeadTime
             /\ Sent("LONG") => ~longed /\ since' = LongTime
             /\ Sent("CLICKED") <=> Sent("RELEASED") /\ ~longed
  <2>1. PICK b : b = Button(down)
    OBVIOUS
  <2>2. PICK t \in TurnEvents : out' = b.events \o t
    BY <1>2, <2>1, TurnedType, CountType DEF Poll
  <2>3. /\ btnState' = b.state /\ btnTime' = b.time
        /\ since' = IF Contains(b.events, "PRESSED") THEN 0
                    ELSE IF since < LongTime + 2 THEN since + 1 ELSE since
        /\ longed' = (Contains(b.events, "LONG") \/ (longed /\ ~Contains(b.events, "PRESSED")))
    BY <1>2, <2>1 DEF Poll
  <2>4. /\ b.events \in ButtonEvents
        /\ b.events = <<"PRESSED">> => b.state = "pressed" /\ b.time = 0
        /\ b.events # <<"PRESSED">> =>
             /\ b.state = "pressed" => btnState = "pressed" /\ b.time = since + 1 /\ b.time < LongTime
             /\ b.state = "long" => since + 1 >= LongTime /\ (b.events = <<"LONG">> \/ longed)
        /\ b.events = <<"LONG">> => since + 1 = LongTime /\ ~longed /\ b.state = "long"
        /\ b.events = <<"RELEASED">> => since >= LongTime /\ longed
        /\ b.events = <<"RELEASED", "CLICKED">> => since >= DeadTime /\ since < LongTime /\ ~longed
    BY <2>1, ButtonStep, Zenon
  <2>0. b.state = "pressed" /\ b.events # <<"PRESSED">> => b.events # <<"LONG">> /\ ~longed
    BY <2>4 DEF PressInv
  <2>5. b.events = <<"PRESSED">> => since' = 0 /\ longed' = FALSE
    <3>1. b.events = <<"PRESSED">> => b.events # <<"LONG">>
      BY EventsDiffer
    <3> QED
      BY <2>2, <2>3, <2>4, <3>1, EventsSent, Zenon
  <2>6. b.events # <<"PRESSED">> => since' = IF since < LongTime + 2 THEN since + 1 ELSE since
    BY <2>2, <2>3, <2>4, EventsSent, Zenon
  <2>7. PressInv'
    <3>1. CASE b.events = <<"PRESSED">>
      <4>1. btnState' = "pressed" /\ btnTime' = 0 /\ since' = 0 /\ longed' = FALSE
        BY <2>3, <2>4, <2>5, <3>1, Zenon
      <4> QED
        BY <1>1, <4>1 DEF PressInv
    <3>2. CASE b.events # <<"PRESSED">>
      <4>0. longed' <=> b.events = <<"LONG">> \/ longed
        BY <2>2, <2>3, <2>4, <3>2, EventsSent, Zenon
      <4>1. /\ btnState' = "pressed" => btnTime' = since + 1 /\ btnTime' < LongTime /\ ~longed'
            /\ btnState' = "long" => since + 1 >= LongTime /\ longed'
        BY <2>0, <2>3, <2>4, <3>2, <4>0, Zenon
      <4>2. since' = IF since < LongTime + 2 THEN since + 1 ELSE since
        BY <2>6, <3>2
      <4> QED
        BY <1>1, <4>1, <4>2 DEF PressInv
    <3> QED
      BY <3>1, <3>2
  <2>8. /\ Sent("RELEASED") <=> b.events \in {<<"RELEASED">>, <<"RELEASED", "CLICKED">>}
        /\ Sent("CLICKED") <=> b.events = <<"RELEASED", "CLICKED">>
        /\ Sent("LONG") <=> b.events = <<"LONG">>
    BY <2>2, <2>4, EventsSent, Zenon DEF Sent
  <2>9. b.events \in {<<"LONG">>, <<"RELEASED">>, <<"RELEASED", "CLICKED">>} => b.events # <<"PRESSED">>
    BY EventsDiffer
  <2>10. b.events = <<"RELEASED">> => b.events # <<"RELEASED", "CLICKED">>
    BY EventsDiffer
  <2>11. CASE b.events = <<"RELEASED">>
    <3>1. since' > DeadTime /\ longed
      BY <1>1, <2>4, <2>6, <2>9, <2>11
    <3>2. ~Sent("LONG") /\ ~Sent("CLICKED")
      BY <2>8, <2>11, EventsDiffer
    <3> QED
      BY <2>7, <3>1, <3>2
  <2>12. CASE b.events = <<"RELEASED", "CLICKED">>
    <3>1. since' > DeadTime /\ ~longed
      BY <1>1, <2>4, <2>6, <2>9, <2>12
    <3>2. ~Sent("LONG") /\ Sent("RELEASED") /\ Sent("CLICKED")
      BY <2>8, <2>12, EventsDiffer
    <3> QED
      BY <2>7, <3>1, <3>2
  <2>13. CASE b.events = <<"LONG">>
    <3>1. since' = LongTime /\ ~longed
      BY <1>1, <2>4, <2>6, <2>9, <2>13
    <3>2. ~Sent("RELEASED") /\ ~Sent("CLICKED")
      BY <2>8, <2>13, EventsDiffer
    <3> QED
      BY <2>7, <3>1, <3>2
  <2> QED
    BY <2>7, <2>8, <2>11, <2>12, <2>13, Zenon
<1>3. CASE Readd
  <2>1. \A e : ~Contains(<< >>, e)
    BY DEF Contains
  <2>2. ~Sent("RELEASED") /\ ~Sent("LONG") /\ ~Sent("CLICKED")
    BY <1>3, <2>1 DEF Readd, Sent
  <2>3. PressInv'
    BY <1>3 DEF Readd, PressInv
  <2> QED
    BY <2>2, <2>3
<1>4. CASE UNCHANGED decoderVars
  BY <1>4 DEF decoderVars, PressInv
<1> QED
  BY <1>2, <1>3, <1>4 DEF DecoderNext

-----------------------------------------------------------------------------
(* The decoder.                                                            *)

\* The history stays one of at most four quarter turns, and its last n + 1 are in
\* one direction if the new one and the n before it are.
LEMMA MovedEnds ==
  ASSUME NEW m \in Seq({-1, 1}), Len(m) <= 4, NEW move \in {-1, 1}
  PROVE  /\ Moved(m, move) \in Seq({-1, 1}) /\ Len(Moved(m, move)) <= 4
         /\ \A n \in 0 .. 3, dir \in {-1, 1} :
              EndsWith(Moved(m, move), n + 1, dir) <=> move = dir /\ EndsWith(m, n, dir)
<1> DEFINE x == Append(m, move)
           r == Moved(m, move)
<1>1. /\ x \in Seq({-1, 1}) /\ Len(x) = Len(m) + 1 /\ Len(m) \in 0 .. 4
      /\ x[Len(m) + 1] = move /\ \A k \in 1 .. Len(m) : x[k] = m[k]
  <2>1. Len(m) \in Nat
    BY LenProperties
  <2>2. \A k \in Nat : k <= 4 => k \in 0 .. 4
    OBVIOUS
  <2>3. Len(m) \in 0 .. 4
    BY <2>1, <2>2, Zenon
  <2>4. /\ x \in Seq({-1, 1}) /\ Len(x) = Len(m) + 1
        /\ \A k \in 1 .. Len(m) : x[k] = m[k]
        /\ x[Len(m) + 1] = move
    BY AppendProperties, Zenon
  <2> QED
    BY <2>3, <2>4
<1> HIDE DEF r, x
<1>2. /\ r \in Seq({-1, 1}) /\ Len(r) <= 4 /\ Len(r) >= 1 /\ r[Len(r)] = move
      /\ Len(m) <= 3 => Len(r) = Len(m) + 1
      /\ Len(m) = 4 => Len(r) = 4
      /\ \A i \in 0 .. 2 : i < Len(m) => r[Len(r) - (i + 1)] = m[Len(m) - i]
  <2>1. CASE Len(m) <= 3
    <3>1. r = x
      BY <1>1, <2>1 DEF r, x, Moved
    <3>2. Len(r) = Len(m) + 1 /\ r[Len(r)] = move /\ r \in Seq({-1, 1})
      BY <1>1, <3>1
    <3>3. ASSUME NEW i \in 0 .. 2, i < Len(m) PROVE r[Len(r) - (i + 1)] = m[Len(m) - i]
      <4>1. Len(m) - i \in 1 .. Len(m) /\ Len(r) - (i + 1) = Len(m) - i
        BY <1>1, <3>2, <3>3
      <4> QED
        BY <1>1, <3>1, <4>1
    <3> QED
      BY <1>1, <2>1, <3>2, <3>3
  <2>2. CASE Len(m) = 4
    <3>1. r = Tail(x)
      BY <1>1, <2>2 DEF r, x, Moved
    <3>2. Tail(x) \in Seq({-1, 1}) /\ Len(Tail(x)) = 4 /\ \A k \in 1 .. 4 : Tail(x)[k] = x[k + 1]
      BY <1>1, <2>2
    <3>3. r[Len(r)] = move
      <4>1. 4 \in 1 .. 4
        OBVIOUS
      <4>2. Len(r) = 4 /\ r[4] = x[4 + 1]
        BY <3>1, <3>2, <4>1, Zenon
      <4> QED
        BY <1>1, <2>2, <4>2
    <3>4. ASSUME NEW i \in 0 .. 2, i < Len(m) PROVE r[Len(r) - (i + 1)] = m[Len(m) - i]
      <4>1. /\ Len(r) - (i + 1) = 3 - i /\ Len(m) - i = 4 - i
            /\ 3 - i \in 1 .. 4 /\ (3 - i) + 1 = 4 - i /\ 4 - i \in 1 .. Len(m)
        BY <2>2, <3>1, <3>2
      <4> QED
        BY <1>1, <3>1, <3>2, <4>1
    <3>5. r \in Seq({-1, 1}) /\ Len(r) = 4
      BY <3>1, <3>2
    <3> QED
      BY <2>2, <3>3, <3>4, <3>5
  <2> QED
    BY <1>1, <2>1, <2>2
<1>3. ASSUME NEW n \in 0 .. 3, NEW dir \in {-1, 1}
      PROVE  EndsWith(r, n + 1, dir) <=> move = dir /\ EndsWith(m, n, dir)
  <2>1. Len(r) >= n + 1 <=> Len(m) >= n
    BY <1>1, <1>2
  <2>2. ASSUME EndsWith(r, n + 1, dir) PROVE move = dir /\ EndsWith(m, n, dir)
    <3>1. \A i \in 0 .. n : r[Len(r) - i] = dir
      BY <2>2 DEF EndsWith
    <3>2. move = dir
      <4>1. 0 \in 0 .. n /\ Len(r) - 0 = Len(r)
        BY <1>2
      <4> QED
        BY <1>2, <3>1, <4>1
    <3>3. Len(m) >= n
      BY <2>1, <2>2 DEF EndsWith
    <3>4. \A i \in 0 .. n - 1 : m[Len(m) - i] = dir
      <4> TAKE i \in 0 .. n - 1
      <4>1. i \in 0 .. 2 /\ i < Len(m) /\ i + 1 \in 0 .. n
        BY <1>1, <3>3
      <4>2. r[Len(r) - (i + 1)] = m[Len(m) - i]
        BY <1>2, <4>1
      <4> QED
        BY <3>1, <4>1, <4>2
    <3> QED
      BY <3>2, <3>3, <3>4 DEF EndsWith
  <2>3. ASSUME move = dir, EndsWith(m, n, dir) PROVE EndsWith(r, n + 1, dir)
    <3>1. Len(m) >= n /\ \A i \in 0 .. n - 1 : m[Len(m) - i] = dir
      BY <2>3 DEF EndsWith
    <3>2. \A i \in 1 .. n : r[Len(r) - i] = dir
      <4> TAKE i \in 1 .. n
      <4>1. i - 1 \in 0 .. n - 1 /\ i - 1 \in 0 .. 2 /\ i - 1 < Len(m) /\ i = (i - 1) + 1
        BY <1>1, <3>1
      <4> QED
        BY <1>2, <3>1, <4>1
    <3>3. r[Len(r) - 0] = dir
      BY <1>2, <2>3
    <3>4. \A i \in 0 .. (n + 1) - 1 : r[Len(r) - i] = dir
      BY <3>2, <3>3
    <3> QED
      BY <2>1, <3>1, <3>4 DEF EndsWith
  <2> QED
    BY <2>2, <2>3
<1> QED
  BY <1>2, <1>3 DEF r

\* The quarter after a move.
Quarter(p, move) == IF p + move = 4 THEN 0 ELSE IF p + move = -1 THEN 3 ELSE p + move

\* The samples before and after it side by side.
Samples(p, move) == Pins[p + 1] * 4 + Pins[Quarter(p, move) + 1]

\* The samples, by where the quarter turn began and its direction: every turn gives a valid code of its own, and standing still none.
LEMMA CodeTable ==
  ASSUME NEW p \in 0 .. 3, NEW move \in {-1, 0, 1}
  PROVE  /\ move = 0 => Quarter(p, move) = p /\ Samples(p, move) \notin ValidStates
         /\ move # 0 => /\ Quarter(p, move) # p
                        /\ Samples(p, move) = Codes[move][p + 1] /\ Samples(p, move) \in ValidStates
<1> USE DEF Quarter, Samples
<1>1. Pins[1] = 3 /\ Pins[2] = 2 /\ Pins[3] = 0 /\ Pins[4] = 1
  BY DEF Pins
<1>2. CASE move = 0
  BY <1>1, <1>2 DEF ValidStates
<1>3. CASE move = 1
  <2>1. Codes[move] = <<14, 8, 1, 7>>
    BY <1>3 DEF Codes
  <2> QED
    BY <1>1, <1>3, <2>1 DEF ValidStates
<1>4. CASE move = -1
  <2>1. Codes[move] = <<13, 11, 2, 4>>
    BY <1>4 DEF Codes
  <2> QED
    BY <1>1, <1>4, <2>1 DEF ValidStates
<1> QED
  BY <1>2, <1>3, <1>4

\* The same of the code that a poll computes from the code before it.
LEMMA CodeOfMove ==
  ASSUME phase \in 0 .. 3, code \in 0 .. 15, code % 4 = Pins[phase + 1], NEW move \in {-1, 0, 1},
         phase' = (phase + move) % 4, code' = NewCode(Pins[phase' + 1])
  PROVE  /\ phase' \in 0 .. 3 /\ code' \in 0 .. 15 /\ code' % 4 = Pins[phase' + 1]
         /\ move = 0 => phase' = phase /\ code' \notin ValidStates
         /\ move # 0 => /\ phase' # phase
                        /\ code' = Codes[move][phase + 1] /\ code' \in ValidStates
<1>1. Pins[1] = 3 /\ Pins[2] = 2 /\ Pins[3] = 0 /\ Pins[4] = 1
  BY DEF Pins
<1>2. phase' \in 0 .. 3 /\ Pins[phase' + 1] \in 0 .. 3 /\ Pins[phase + 1] \in 0 .. 3
  BY <1>1
<1>3. \A a \in 0 .. 15, b \in 0 .. 3 : (a * 4 + b) % 16 = (a % 4) * 4 + b /\ ((a % 4) * 4 + b) % 4 = b
  OBVIOUS
<1>4. code' = Pins[phase + 1] * 4 + Pins[phase' + 1] /\ code' % 4 = Pins[phase' + 1]
  BY <1>2, <1>3 DEF NewCode
<1>5. phase' = Quarter(phase, move)
  BY DEF Quarter
<1>6. \A a, b \in 0 .. 3 : a * 4 + b \in 0 .. 15
  OBVIOUS
<1>7. code' \in 0 .. 15
  BY <1>2, <1>4, <1>6, Zenon
<1>8. code' = Samples(phase, move)
  BY <1>4, <1>5 DEF Samples
<1>9. /\ move = 0 => phase' = phase /\ code' \notin ValidStates
      /\ move # 0 => /\ phase' # phase
                     /\ code' = Codes[move][phase + 1] /\ code' \in ValidStates
  BY <1>5, <1>8, CodeTable, Zenon
<1> QED
  BY <1>2, <1>4, <1>7, <1>9, Zenon

\* A code shifted into the store: what its lower parts become.
LEMMA Shift ==
  ASSUME NEW s \in Nat, NEW c \in 0 .. 15, NEW t, t = (s * 16 + c) % Word
  PROVE  /\ t \in 0 .. Word - 1 /\ t = (s % 4096) * 16 + c
         /\ t % 16 = c /\ t % 256 = (s % 16) * 16 + c /\ t % 4096 = (s % 256) * 16 + c
<1>1. t = (s % 4096) * 16 + c
  BY DEF Word
<1>2. t % 16 = c
  BY DEF Word
<1>3. t % 256 = (s % 16) * 16 + c
  BY DEF Word
<1>4. t % 4096 = (s % 256) * 16 + c
  BY DEF Word
<1>5. t \in 0 .. Word - 1
  <2>1. Word \in Nat \ {0}
    BY DEF Word
  <2> QED
    BY <2>1
<1> QED
  BY <1>1, <1>2, <1>3, <1>4, <1>5

\* A history of four.
LEMMA FourEnds ==
  ASSUME NEW m \in Seq({-1, 1}), Len(m) <= 4, NEW dir \in {-1, 1}
  PROVE  /\ EndsWith(m, 4, dir) <=> m = <<dir, dir, dir, dir>>
         /\ EndsWith(m, 0, dir)
<1>1. ASSUME EndsWith(m, 4, dir) PROVE m = <<dir, dir, dir, dir>>
  <2>1. Len(m) = 4
    <3>1. \A k \in Nat : k <= 4 /\ k >= 4 => k = 4
      OBVIOUS
    <3> QED
      BY <1>1, <3>1, LenProperties, Zenon DEF EndsWith
  <2>2. \A i \in 0 .. 3 : m[4 - i] = dir
    BY <1>1, <2>1 DEF EndsWith
  <2>3. m[4 - 3] = dir /\ m[4 - 2] = dir /\ m[4 - 1] = dir /\ m[4 - 0] = dir
    BY <2>2
  <2>4. m[1] = dir /\ m[2] = dir /\ m[3] = dir /\ m[4] = dir
    BY <2>3
  <2> QED
    BY <2>1, <2>4
<1>2. ASSUME m = <<dir, dir, dir, dir>> PROVE EndsWith(m, 4, dir)
  BY <1>2 DEF EndsWith
<1>3. EndsWith(m, 0, dir)
  BY LenProperties DEF EndsWith
<1> QED
  BY <1>1, <1>2, <1>3

\* The codes of quarter turns tell them apart.
LEMMA CodesDiffer ==
  ASSUME NEW p \in 0 .. 3, NEW move \in {-1, 1}
  PROVE  /\ Codes[move][p + 1] = 14 <=> p = 0 /\ move = 1
         /\ Codes[move][p + 1] = 8  <=> p = 1 /\ move = 1
         /\ Codes[move][p + 1] = 1  <=> p = 2 /\ move = 1
         /\ Codes[move][p + 1] = 7  <=> p = 3 /\ move = 1
         /\ Codes[move][p + 1] = 13 <=> p = 0 /\ move = -1
         /\ Codes[move][p + 1] = 4  <=> p = 3 /\ move = -1
         /\ Codes[move][p + 1] = 2  <=> p = 2 /\ move = -1
         /\ Codes[move][p + 1] = 11 <=> p = 1 /\ move = -1
<1>1. CASE move = 1
  <2>1. Codes[move] = <<14, 8, 1, 7>>
    BY <1>1 DEF Codes
  <2> QED
    BY <1>1, <2>1
<1>2. CASE move = -1
  <2>1. Codes[move] = <<13, 11, 2, 4>>
    BY <1>2 DEF Codes
  <2> QED
    BY <1>2, <2>1
<1> QED
  BY <1>1, <1>2

\* The histories are the sequences of at most four quarter turns.
LEMMA Histories == \A m : m \in BoundedSeq({-1, 1}, 4) <=> m \in Seq({-1, 1}) /\ Len(m) <= 4
<1> TAKE m
<1>1. ASSUME m \in BoundedSeq({-1, 1}, 4) PROVE m \in Seq({-1, 1}) /\ Len(m) <= 4
  <2>1. PICK k \in 0 .. 4 : m \in [1 .. k -> {-1, 1}]
    BY <1>1 DEF BoundedSeq, SeqOf
  <2> QED
    BY <2>1
<1>2. ASSUME m \in Seq({-1, 1}), Len(m) <= 4 PROVE m \in BoundedSeq({-1, 1}, 4)
  <2>1. Len(m) \in 0 .. 4 /\ m \in [1 .. Len(m) -> {-1, 1}]
    <3>1. Len(m) \in Nat /\ m \in [1 .. Len(m) -> {-1, 1}]
      BY <1>2, LenProperties
    <3>2. \A k \in Nat : k <= 4 => k \in 0 .. 4
      OBVIOUS
    <3> QED
      BY <1>2, <3>1, <3>2, Zenon
  <2> QED
    BY <2>1, Zenon DEF BoundedSeq, SeqOf
<1> QED
  BY <1>1, <1>2

\* Another quarter turn in the same direction, from the quarter that is due,
\* is progress, and there is no other.
LEMMA ProgressStep ==
  ASSUME moves \in Seq({-1, 1}), Len(moves) <= 4, phase \in 0 .. 3, NEW move \in {-1, 1},
         moves' = Moved(moves, move), phase' = (phase + move) % 4,
         NEW dir \in {-1, 1}, NEW n \in 0 .. 3
  PROVE  Progress(dir, n + 1)' <=> move = dir /\ Progress(dir, n)
<1>1. EndsWith(moves', n + 1, dir) <=> move = dir /\ EndsWith(moves, n, dir)
  BY MovedEnds
<1>2. \A p \in 0 .. 3 : (p + dir) % 4 = ((n + 1) * dir + 4) % 4 <=> p = (n * dir + 4) % 4
  <2>1. CASE dir = 1
    BY <2>1
  <2>2. CASE dir = -1
    BY <2>2
  <2> QED
    BY <2>1, <2>2
<1>3. move = dir => (phase' = ((n + 1) * dir + 4) % 4 <=> phase = (n * dir + 4) % 4)
  BY <1>2
<1> QED
  BY <1>1, <1>3, Zenon DEF Progress

\* The patterns, spelled out.
LEMMA PatternsOf ==
  /\ Pattern[1][1] = 14 /\ Pattern[1][2] = 232 /\ Pattern[1][3] = 3713
  /\ Pattern[-1][1] = 13 /\ Pattern[-1][2] = 212 /\ Pattern[-1][3] = 3394
<1>1. Pattern[1] = <<14, 232, 3713>> /\ Pattern[-1] = <<13, 212, 3394>>
  BY DEF Pattern
<1> QED
  BY <1>1

\* A poll's effect on the decoder, once the encoder has been sampled: the code is
\* the samples side by side, and the store takes the codes of quarter turns.
LEMMA SampledStep ==
  ASSUME DecoderTypeOK, DecoderInv, polled, NEW move \in {-1, 0, 1}, NEW down \in BOOLEAN, Poll(move, down)
  PROVE  /\ phase' \in 0 .. 3 /\ code' \in 0 .. 15 /\ store' \in 0 .. Word - 1
         /\ moves' \in Seq({-1, 1}) /\ Len(moves') <= 4
         /\ DecoderInv'
         /\ Count(code') = 1  <=> phase' # phase /\ FullCycle(1)'
         /\ Count(code') = -1 <=> phase' # phase /\ FullCycle(-1)'
<1>1. /\ phase \in 0 .. 3 /\ code \in 0 .. 15 /\ store \in 0 .. Word - 1 /\ code % 4 = Pins[phase + 1]
      /\ moves \in Seq({-1, 1}) /\ Len(moves) <= 4
  BY Histories DEF DecoderTypeOK, DecoderInv
<1>2. /\ phase' = (phase + move) % 4 /\ code' = NewCode(Pins[phase' + 1])
      /\ store' = NewStore(code') /\ polled'
      /\ moves' = IF move = 0 THEN moves ELSE Moved(moves, move)
  BY DEF Poll, Moved
<1>3. /\ phase' \in 0 .. 3 /\ code' \in 0 .. 15 /\ code' % 4 = Pins[phase' + 1]
      /\ move = 0 => phase' = phase /\ code' \notin ValidStates
      /\ move # 0 => phase' # phase /\ code' = Codes[move][phase + 1] /\ code' \in ValidStates
  BY <1>1, <1>2, CodeOfMove, Zenon
<1>4. CASE move = 0
  <2>1. UNCHANGED <<phase, store, moves>>
    BY <1>2, <1>3, <1>4 DEF NewStore
  <2>2. \A dir, n : Progress(dir, n)' <=> Progress(dir, n)
    BY <2>1 DEF Progress
  <2>3. DecoderInv'
    BY <1>2, <1>3, <2>1, <2>2 DEF DecoderInv
  <2>4. Count(code') = 0
    BY <1>3, <1>4 DEF Count
  <2> QED
    BY <1>1, <1>3, <2>1, <2>3, <2>4
<1>5. CASE move # 0
  <2>1. move \in {-1, 1} /\ moves' = Moved(moves, move)
    BY <1>2, <1>5
  <2>2. moves' \in Seq({-1, 1}) /\ Len(moves') <= 4
    BY <1>1, <2>1, MovedEnds
  <2>3. store \in Nat /\ store' = (store * 16 + code') % Word
    <3>1. Word \in Nat
      BY DEF Word
    <3> QED
      BY <1>1, <1>2, <1>3, <1>5, <3>1 DEF NewStore
  <2>4. /\ store' \in 0 .. Word - 1 /\ store' = (store % 4096) * 16 + code'
        /\ store' % 16 = code' /\ store' % 256 = (store % 16) * 16 + code'
        /\ store' % 4096 = (store % 256) * 16 + code'
    BY <1>3, <2>3, Shift
  <2>5. \A dir \in {-1, 1}, n \in 0 .. 3 : Progress(dir, n + 1)' <=> move = dir /\ Progress(dir, n)
    BY <1>1, <1>2, <2>1, ProgressStep
  <2>6. \A dir \in {-1, 1} : Progress(dir, 0) <=> phase = 0
    BY <1>1, FourEnds DEF Progress
  <2>7. /\ code' = 14 <=> phase = 0 /\ move = 1
        /\ code' = 8  <=> phase = 1 /\ move = 1
        /\ code' = 1  <=> phase = 2 /\ move = 1
        /\ code' = 7  <=> phase = 3 /\ move = 1
        /\ code' = 13 <=> phase = 0 /\ move = -1
        /\ code' = 4  <=> phase = 3 /\ move = -1
        /\ code' = 2  <=> phase = 2 /\ move = -1
        /\ code' = 11 <=> phase = 1 /\ move = -1
    <3>1. code' = Codes[move][phase + 1]
      BY <1>3, <1>5
    <3> QED
      BY <1>1, <2>1, <3>1, CodesDiffer, Zenon
  <2>8. /\ store' % 16 = 14 <=> Progress(1, 1)'
        /\ store' % 16 = 13 <=> Progress(-1, 1)'
    <3>1. Progress(1, 0 + 1)' <=> move = 1 /\ phase = 0
      BY <2>5, <2>6
    <3>2. Progress(-1, 0 + 1)' <=> move = -1 /\ phase = 0
      BY <2>5, <2>6
    <3> QED
      BY <2>4, <2>7, <3>1, <3>2
  <2>9. /\ store % 16 \in Nat /\ store % 256 \in Nat /\ store % 4096 \in Nat
        /\ \A a, b \in Nat, x, y \in 0 .. 15 : a * 16 + x = b * 16 + y <=> a = b /\ x = y
    BY <2>3
  <2>16. /\ store % 16 = 14 <=> Progress(1, 1)
         /\ store % 16 = 13 <=> Progress(-1, 1)
         /\ store % 256 = 232 <=> Progress(1, 2)
         /\ store % 256 = 212 <=> Progress(-1, 2)
         /\ store % 4096 = 3713 <=> Progress(1, 3)
         /\ store % 4096 = 3394 <=> Progress(-1, 3)
    BY PatternsOf DEF DecoderInv
  <2>17. /\ Progress(1, 1) => phase = 1
         /\ Progress(-1, 1) => phase = 3
         /\ Progress(1, 2) => phase = 2
         /\ Progress(-1, 2) => phase = 2
         /\ Progress(1, 3) => phase = 3
         /\ Progress(-1, 3) => phase = 1
    <3>1. (1 * 1 + 4) % 4 = 1 /\ (2 * 1 + 4) % 4 = 2 /\ (3 * 1 + 4) % 4 = 3
      OBVIOUS
    <3>2. (1 * (-1) + 4) % 4 = 3 /\ (2 * (-1) + 4) % 4 = 2 /\ (3 * (-1) + 4) % 4 = 1
      OBVIOUS
    <3> QED
      BY <3>1, <3>2, Zenon DEF Progress
  <2>10. /\ store' % 256 = 232 <=> Progress(1, 2)'
         /\ store' % 256 = 212 <=> Progress(-1, 2)'
    <3>1. /\ Progress(1, 1 + 1)' <=> move = 1 /\ phase = 1 /\ store % 16 = 14
          /\ Progress(-1, 1 + 1)' <=> move = -1 /\ phase = 3 /\ store % 16 = 13
      BY <2>5, <2>16, <2>17
    <3>2. /\ store' % 256 = 232 <=> store % 16 = 14 /\ code' = 8
          /\ store' % 256 = 212 <=> store % 16 = 13 /\ code' = 4
      BY <1>3, <2>4, <2>9
    <3> QED
      BY <2>7, <3>1, <3>2
  <2>11. /\ store' % 4096 = 3713 <=> Progress(1, 3)'
         /\ store' % 4096 = 3394 <=> Progress(-1, 3)'
    <3>1. /\ Progress(1, 2 + 1)' <=> move = 1 /\ phase = 2 /\ store % 256 = 232
          /\ Progress(-1, 2 + 1)' <=> move = -1 /\ phase = 2 /\ store % 256 = 212
      BY <2>5, <2>16, <2>17
    <3>2. /\ store' % 4096 = 3713 <=> store % 256 = 232 /\ code' = 1
          /\ store' % 4096 = 3394 <=> store % 256 = 212 /\ code' = 2
      BY <1>3, <2>4, <2>9
    <3> QED
      BY <2>7, <3>1, <3>2
  <2>12. /\ store' = 59415 <=> Progress(1, 4)'
         /\ store' = 54315 <=> Progress(-1, 4)'
    <3>1. /\ Progress(1, 3 + 1)' <=> move = 1 /\ phase = 3 /\ store % 4096 = 3713
          /\ Progress(-1, 3 + 1)' <=> move = -1 /\ phase = 1 /\ store % 4096 = 3394
      BY <2>5, <2>16, <2>17
    <3>2. /\ store' = 59415 <=> store % 4096 = 3713 /\ code' = 7
          /\ store' = 54315 <=> store % 4096 = 3394 /\ code' = 11
      <4>1. code' \in 0 .. 15 /\ store' = (store % 4096) * 16 + code'
        BY <1>3, <2>4
      <4> QED
        BY <2>9, <4>1
    <3> QED
      BY <2>7, <3>1, <3>2
  <2>13. \A dir \in {-1, 1} : Progress(dir, 4)' <=> FullCycle(dir)'
    BY <1>3, <2>2, FourEnds DEF Progress, FullCycle
  <2>15. DecoderInv'
    <3>1. /\ Pattern[1][1]' = 14 /\ Pattern[1][2]' = 232 /\ Pattern[1][3]' = 3713
          /\ Pattern[-1][1]' = 13 /\ Pattern[-1][2]' = 212 /\ Pattern[-1][3]' = 3394
      BY PatternsOf
    <3>2. \A dir \in {1, -1} :
            /\ store' % 16 = Pattern[dir][1] <=> Progress(dir, 1)'
            /\ store' % 256 = Pattern[dir][2] <=> Progress(dir, 2)'
            /\ store' % 4096 = Pattern[dir][3] <=> Progress(dir, 3)'
      BY <2>8, <2>10, <2>11, <3>1
    <3> QED
      BY <1>2, <1>3, <3>2 DEF DecoderInv
  <2>14. /\ Count(code') = 1 <=> store' = 59415
         /\ Count(code') = -1 <=> store' = 54315
    BY <1>2, <1>3, <1>5 DEF Count
  <2> QED
    BY <1>3, <1>5, <2>2, <2>4, <2>12, <2>13, <2>14, <2>15
<1> QED
  BY <1>4, <1>5

\* The first sample after an encoder was added counts nothing: of the two samples
\* in the code, one is the zero that rotary_encoder_add left there.
LEMMA FirstStep ==
  ASSUME DecoderTypeOK, DecoderInv, ~polled, NEW move \in {-1, 0, 1}, NEW down \in BOOLEAN, Poll(move, down)
  PROVE  /\ phase' \in 0 .. 3 /\ code' \in 0 .. 15 /\ store' \in 0 .. Word - 1
         /\ moves' \in Seq({-1, 1}) /\ Len(moves') <= 4
         /\ DecoderInv'
         /\ Count(code') = 1  <=> phase' # phase /\ FullCycle(1)'
         /\ Count(code') = -1 <=> phase' # phase /\ FullCycle(-1)'
<1>1. phase \in 0 .. 3 /\ code = 0 /\ store = 0 /\ moves = << >>
  BY DEF DecoderTypeOK, DecoderInv
<1>2. /\ phase' = (phase + move) % 4 /\ code' = NewCode(Pins[phase' + 1])
      /\ store' = NewStore(code') /\ polled' /\ moves' = << >>
  BY <1>1 DEF Poll
<1>3. phase' \in 0 .. 3 /\ Pins[phase' + 1] \in 0 .. 3
  <2>1. phase' \in 0 .. 3
    BY <1>1, <1>2
  <2>2. Pins[1] = 3 /\ Pins[2] = 2 /\ Pins[3] = 0 /\ Pins[4] = 1
    BY DEF Pins
  <2> QED
    BY <2>1, <2>2
<1>4. code' = Pins[phase' + 1]
  <2>1. \A s \in 0 .. 3 : (0 * 4 + s) % 16 = s
    OBVIOUS
  <2> QED
    BY <1>1, <1>2, <1>3, <2>1 DEF NewCode
<1>5. code' \in 0 .. 3 /\ code' % 4 = code' /\ code' \in 0 .. 15
  BY <1>3, <1>4
<1>6. store' \in {0, code'}
  <2>1. \A c \in 0 .. 3 : (0 * 16 + c) % Word = c
    BY DEF Word
  <2>2. CASE code' \in ValidStates
    <3>1. store' = (0 * 16 + code') % Word
      BY <1>1, <1>2, <2>2 DEF NewStore
    <3> QED
      BY <1>5, <2>1, <3>1
  <2>3. CASE code' \notin ValidStates
    BY <1>1, <1>2, <2>3 DEF NewStore
  <2> QED
    BY <2>2, <2>3
<1>7. store' \in 0 .. 3
  BY <1>5, <1>6
<1>8. store' \in 0 .. Word - 1
  BY <1>7 DEF Word
<1>9. Count(code') = 0
  BY <1>2, <1>7 DEF Count
<1>10. moves' \in Seq({-1, 1}) /\ Len(moves') = 0
  BY <1>2
<1>11. \A dir \in {1, -1}, n \in 1 .. 3 : ~Progress(dir, n)'
  BY <1>10 DEF Progress, EndsWith
<1>12. ~FullCycle(1)' /\ ~FullCycle(-1)'
  <2>1. \A d : Len(<<d, d, d, d>>) = 4
    OBVIOUS
  <2> QED
    BY <1>10, <2>1 DEF FullCycle
<1>13. DecoderInv'
  <2>1. /\ Pattern[1][1]' = 14 /\ Pattern[1][2]' = 232 /\ Pattern[1][3]' = 3713
        /\ Pattern[-1][1]' = 13 /\ Pattern[-1][2]' = 212 /\ Pattern[-1][3]' = 3394
    BY PatternsOf
  <2>2. \A x \in 0 .. 3 : x % 16 = x /\ x % 256 = x /\ x % 4096 = x
    OBVIOUS
  <2>3. \A dir \in {1, -1} :
          /\ store' % 16 # Pattern[dir][1]' /\ store' % 256 # Pattern[dir][2]'
          /\ store' % 4096 # Pattern[dir][3]'
    BY <1>7, <2>1, <2>2
  <2>4. \A dir \in {1, -1} : ~Progress(dir, 1)' /\ ~Progress(dir, 2)' /\ ~Progress(dir, 3)'
    BY <1>11
  <2> QED
    BY <1>2, <1>4, <1>5, <2>3, <2>4 DEF DecoderInv
<1> QED
  BY <1>3, <1>5, <1>8, <1>9, <1>10, <1>12, <1>13

\* A fresh descriptor, wherever the shaft is, has no memory of it.
LEMMA FreshDecoder == code = 0 /\ store = 0 /\ moves = << >> /\ ~polled => DecoderInv
<1> SUFFICES ASSUME code = 0, store = 0, moves = << >>, ~polled PROVE DecoderInv
  OBVIOUS
<1>1. /\ Pattern[1][1] = 14 /\ Pattern[1][2] = 232 /\ Pattern[1][3] = 3713
      /\ Pattern[-1][1] = 13 /\ Pattern[-1][2] = 212 /\ Pattern[-1][3] = 3394
  BY PatternsOf
<1>2. store % 16 = 0 /\ store % 256 = 0 /\ store % 4096 = 0
  OBVIOUS
<1>3. \A dir \in {1, -1} :
        store % 16 # Pattern[dir][1] /\ store % 256 # Pattern[dir][2] /\ store % 4096 # Pattern[dir][3]
  BY <1>1, <1>2
<1>4. Len(moves) = 0
  OBVIOUS
<1>5. \A dir \in {1, -1} : ~Progress(dir, 1) /\ ~Progress(dir, 2) /\ ~Progress(dir, 3)
  BY <1>4 DEF Progress, EndsWith
<1> QED
  BY <1>3, <1>5 DEF DecoderInv

\* What a count sends.
LEMMA TurnedCounts ==
  \A count \in {-1, 0, 1} : /\ Turned(count) = <<"INC">> <=> count = 1
                            /\ Turned(count) = <<"DEC">> <=> count = -1
<1>1. Turned(1) = <<"INC">> /\ Turned(-1) = <<"DEC">> /\ Turned(0) = << >>
  BY DEF Turned
<1> QED
  BY <1>1, EventsDiffer

\* Every step of the decoder keeps what it remembers of the shaft, and what it
\* sends is the cycles that were completed.
LEMMA CycleStep ==
  ASSUME PollInv, [DecoderNext]_decoderVars
  PROVE  /\ DecoderInv'
         /\ [ /\ Sent("INC") <=> phase' # phase /\ FullCycle(1)'
              /\ Sent("DEC") <=> phase' # phase /\ FullCycle(-1)' ]_decoderVars
<1>1. ASSUME NEW move \in {-1, 0, 1}, NEW down \in BOOLEAN, Poll(move, down)
      PROVE  /\ DecoderInv'
             /\ Sent("INC") <=> phase' # phase /\ FullCycle(1)'
             /\ Sent("DEC") <=> phase' # phase /\ FullCycle(-1)'
  <2>1. /\ DecoderInv'
        /\ Count(code') = 1  <=> phase' # phase /\ FullCycle(1)'
        /\ Count(code') = -1 <=> phase' # phase /\ FullCycle(-1)'
    BY <1>1, SampledStep, FirstStep, Zenon DEF PollInv
  <2>2. out' = Button(down).events \o Turned(Count(code'))
    BY <1>1 DEF Poll
  <2>3. Button(down).events \in ButtonEvents
    BY ButtonStep, Zenon DEF PollInv
  <2>4. Count(code') \in {-1, 0, 1} /\ Turned(Count(code')) \in TurnEvents
    BY CountType, TurnedType
  <2>5. /\ Sent("INC") <=> Turned(Count(code')) = <<"INC">>
        /\ Sent("DEC") <=> Turned(Count(code')) = <<"DEC">>
    BY <2>2, <2>3, <2>4, EventsSent, Zenon DEF Sent
  <2>6. /\ Turned(Count(code')) = <<"INC">> <=> Count(code') = 1
        /\ Turned(Count(code')) = <<"DEC">> <=> Count(code') = -1
    BY <2>4, TurnedCounts, Zenon
  <2> QED
    BY <2>1, <2>5, <2>6, Zenon
<1>2. CASE Readd
  <2>1. DecoderInv'
    <3>1. (code = 0 /\ store = 0 /\ moves = << >> /\ ~polled => DecoderInv)'
      BY FreshDecoder, PTL
    <3>2. code' = 0 /\ store' = 0 /\ moves' = << >> /\ ~polled'
      BY <1>2 DEF Readd
    <3> QED
      BY <3>1, <3>2, Zenon
  <2>2. ~Sent("INC") /\ ~Sent("DEC")
    <3>1. \A e : ~Contains(<< >>, e)
      BY DEF Contains
    <3> QED
      BY <1>2, <3>1 DEF Readd, Sent
  <2>3. ~FullCycle(1)' /\ ~FullCycle(-1)'
    <3>1. \A d : << >> # <<d, d, d, d>>
      OBVIOUS
    <3> QED
      BY <1>2, <3>1 DEF Readd, FullCycle
  <2> QED
    BY <2>1, <2>2, <2>3
<1>3. CASE UNCHANGED decoderVars
  <2>1. \A dir, n : Progress(dir, n)' <=> Progress(dir, n)
    BY <1>3 DEF decoderVars, Progress
  <2> QED
    BY <1>3, <2>1 DEF decoderVars, PollInv, DecoderInv
<1> QED
  BY <1>1, <1>2, <1>3 DEF DecoderNext

\* Every step keeps the variables in their types.
LEMMA DecoderTypeStep ==
  ASSUME PollInv, [DecoderNext]_decoderVars
  PROVE  DecoderTypeOK'
<1>0. DeadTime \in Nat /\ LongTime \in Nat
  BY TimeAssumption DEF TimeAssumption
<1>1. ASSUME NEW move \in {-1, 0, 1}, NEW down \in BOOLEAN, Poll(move, down)
      PROVE  DecoderTypeOK'
  <2>1. /\ phase' \in 0 .. 3 /\ code' \in 0 .. 15 /\ store' \in 0 .. Word - 1
        /\ moves' \in Seq({-1, 1}) /\ Len(moves') <= 4
    BY <1>1, SampledStep, FirstStep, Zenon DEF PollInv
  <2>2. moves' \in BoundedSeq({-1, 1}, 4)
    BY <2>1, Histories, Zenon
  <2>3. /\ Button(down).state \in {"released", "pressed", "long"}
        /\ Button(down).time \in 0 .. LongTime
        /\ Button(down).events \in ButtonEvents
    BY ButtonStep, Zenon DEF PollInv
  <2>4. btnState' \in {"released", "pressed", "long"} /\ btnTime' \in 0 .. LongTime
    BY <1>1, <2>3 DEF Poll
  <2>5. Len(out') <= 3
    <3>1. out' = Button(down).events \o Turned(Count(code'))
      BY <1>1 DEF Poll
    <3>2. Turned(Count(code')) \in TurnEvents
      BY CountType, TurnedType
    <3> QED
      BY <2>3, <3>1, <3>2, EventsSent, Zenon
  <2>6. since' \in 0 .. LongTime + 2 /\ polled' \in BOOLEAN /\ longed' \in BOOLEAN
    BY <1>0, <1>1 DEF Poll, PollInv, DecoderTypeOK
  <2> QED
    BY <2>1, <2>2, <2>4, <2>5, <2>6, Zenon DEF DecoderTypeOK
<1>2. CASE Readd
  <2>1. << >> \in BoundedSeq({-1, 1}, 4)
    <3>1. << >> \in Seq({-1, 1}) /\ Len(<< >>) <= 4
      OBVIOUS
    <3> QED
      BY <3>1, Histories, Zenon
  <2>2. 0 \in 0 .. Word - 1
    BY DEF Word
  <2>3. /\ phase' \in 0 .. 3 /\ code' \in 0 .. 15 /\ btnTime' \in 0 .. LongTime
        /\ btnState' \in {"released", "pressed", "long"}
        /\ Len(out') <= 3 /\ polled' \in BOOLEAN /\ since' \in 0 .. LongTime + 2 /\ longed' \in BOOLEAN
    <3>1. /\ 0 \in 0 .. 15 /\ 0 \in 0 .. LongTime /\ 0 \in 0 .. LongTime + 2
          /\ Len(<< >>) <= 3 /\ FALSE \in BOOLEAN
      BY <1>0
    <3> QED
      BY <1>2, <3>1, Zenon DEF Readd
  <2>4. store' \in 0 .. Word - 1 /\ moves' \in BoundedSeq({-1, 1}, 4)
    BY <1>2, <2>1, <2>2, Zenon DEF Readd
  <2> QED
    BY <2>3, <2>4, Zenon DEF DecoderTypeOK
<1>3. CASE UNCHANGED decoderVars
  BY <1>3 DEF decoderVars, PollInv, DecoderTypeOK
<1> QED
  BY <1>1, <1>2, <1>3 DEF DecoderNext

\* The decoder's inductive invariant holds in every reachable state.
THEOREM PollInvariantHolds == DecoderSpec => []PollInv
<1>1. DecoderInit => PollInv
  <2> SUFFICES ASSUME DecoderInit PROVE PollInv
    OBVIOUS
  <2>1. << >> \in BoundedSeq({-1, 1}, 4)
    <3>1. << >> \in Seq({-1, 1}) /\ Len(<< >>) <= 4
      OBVIOUS
    <3> QED
      BY <3>1, Histories, Zenon
  <2>2. 0 \in 0 .. Word - 1
    BY DEF Word
  <2>3. DecoderTypeOK
    <3>1. /\ phase \in 0 .. 3 /\ code \in 0 .. 15 /\ btnTime \in 0 .. LongTime
          /\ btnState \in {"released", "pressed", "long"}
          /\ Len(out) <= 3 /\ polled \in BOOLEAN /\ since \in 0 .. LongTime + 2 /\ longed \in BOOLEAN
      <4>1. /\ 0 \in 0 .. 15 /\ 0 \in 0 .. LongTime /\ 0 \in 0 .. LongTime + 2
            /\ Len(<< >>) <= 3 /\ FALSE \in BOOLEAN
        BY TimeAssumption DEF TimeAssumption
      <4> QED
        BY <4>1, Zenon DEF DecoderInit
    <3>2. store \in 0 .. Word - 1 /\ moves \in BoundedSeq({-1, 1}, 4)
      BY <2>1, <2>2, Zenon DEF DecoderInit
    <3> QED
      BY <3>1, <3>2, Zenon DEF DecoderTypeOK
  <2>4. PressInv
    BY DEF DecoderInit, PressInv
  <2>5. DecoderInv
    BY FreshDecoder DEF DecoderInit
  <2> QED
    BY <2>3, <2>4, <2>5 DEF PollInv
<1>2. PollInv /\ [DecoderNext]_decoderVars => PollInv'
  BY StoryStep, CycleStep, DecoderTypeStep, Zenon DEF PollInv
<1> QED
  BY <1>1, <1>2, PTL DEF DecoderSpec

\* The code, the store, the button's state and time stay within their widths, and a
\* poll sends at most three events.
THEOREM DecoderTypeCorrect == DecoderSpec => []DecoderTypeOK
<1>1. PollInv => DecoderTypeOK
  BY DEF PollInv
<1> QED
  BY <1>1, PollInvariantHolds, PTL

\* A press is one story, for any dead time and any longer long-press time: bounce on
\* the press is filtered, a button held beyond its time is reported long, once and
\* not early, and a release is a click unless a long press was reported.
THEOREM ButtonStoryHolds == DecoderSpec => ButtonStory
<1>1. PollInv /\ [DecoderNext]_decoderVars =>
        [ /\ Sent("RELEASED") => since' > DeadTime
          /\ Sent("LONG") => ~longed /\ since' \in {LongTime, LongTime + 1}
          /\ Sent("CLICKED") <=> Sent("RELEASED") /\ ~longed
          /\ btnState' # "released" /\ since' > LongTime => longed' ]_decoderVars
  <2> SUFFICES ASSUME PollInv, [DecoderNext]_decoderVars, decoderVars' # decoderVars
               PROVE  /\ Sent("RELEASED") => since' > DeadTime
                      /\ Sent("LONG") => ~longed /\ since' \in {LongTime, LongTime + 1}
                      /\ Sent("CLICKED") <=> Sent("RELEASED") /\ ~longed
                      /\ btnState' # "released" /\ since' > LongTime => longed'
    BY Zenon
  <2>1. /\ Sent("RELEASED") => since' > DeadTime
        /\ Sent("LONG") => ~longed /\ since' = LongTime
        /\ Sent("CLICKED") <=> Sent("RELEASED") /\ ~longed
    BY StoryStep, Zenon DEF PollInv
  <2>2. PressInv' /\ DecoderTypeOK'
    BY StoryStep, DecoderTypeStep, Zenon DEF PollInv
  <2>3. btnState' # "released" /\ since' > LongTime => longed'
    <3>1. /\ btnState' \in {"released", "pressed", "long"}
          /\ since' \in 0 .. LongTime + 2 /\ btnTime' \in 0 .. LongTime /\ LongTime \in Nat
      BY <2>2, TimeAssumption DEF DecoderTypeOK, TimeAssumption
    <3> QED
      BY <2>2, <3>1 DEF PressInv
  <2> QED
    BY <2>1, <2>3, Zenon
<1> QED
  BY <1>1, PollInvariantHolds, PTL DEF DecoderSpec, ButtonStory

\* The reading of the limit that the code follows: a long press is reported in no
\* poll but the one in which the press time equals the limit (encoder.c:65), where
\* encoder.h:53 asks for a time above it.
THEOREM LongPressAtLimit == DecoderSpec => [][Sent("LONG") => since' = LongTime]_decoderVars
<1>1. PollInv /\ [DecoderNext]_decoderVars => [Sent("LONG") => since' = LongTime]_decoderVars
  BY StoryStep, Zenon DEF PollInv
<1> QED
  BY <1>1, PollInvariantHolds, PTL DEF DecoderSpec

\* The table of valid codes and the two patterns count a detent exactly when the
\* shaft comes to rest after four quarter turns in one direction.
THEOREM CountIsCycleHolds == DecoderSpec => CountIsCycle
<1>1. PollInv /\ [DecoderNext]_decoderVars =>
        [ /\ Sent("INC") <=> phase' # phase /\ FullCycle(1)'
          /\ Sent("DEC") <=> phase' # phase /\ FullCycle(-1)' ]_decoderVars
  BY CycleStep, Zenon
<1> QED
  BY <1>1, PollInvariantHolds, PTL DEF DecoderSpec, CountIsCycle

-----------------------------------------------------------------------------
(* The composition: MyEncoder leaves a poll's events open within           *)
(* PollEvents, where button events are alike.                              *)

\* An event as MyEncoder has it.
Kind(e) == IF e \in {"INC", "DEC"} THEN e ELSE "BTN"
Kinds(events) == [i \in DOMAIN events |-> Kind(events[i])]

\* One event or two before one or none.
LEMMA Joined ==
  ASSUME NEW E, NEW x \in E, NEW y \in E, NEW z \in E
  PROVE  /\ << >> \o << >> = << >>
         /\ << >> \o <<x>> = <<x>> /\ <<x>> \o << >> = <<x>>
         /\ <<x>> \o <<y>> = <<x, y>> /\ <<x, y>> \o << >> = <<x, y>>
         /\ <<x, y>> \o <<z>> = <<x, y, z>>
<1>1. << >> \o << >> = << >>
  OBVIOUS
<1>2. << >> \o <<x>> = <<x>> /\ <<x>> \o << >> = <<x>>
  OBVIOUS
<1>3. <<x>> \o <<y>> = <<x, y>>
  <2> DEFINE s == <<x>> \o <<y>>
  <2>1. <<x>> \in Seq(E) /\ <<y>> \in Seq(E) /\ Len(<<x>>) = 1 /\ Len(<<y>>) = 1
    OBVIOUS
  <2>2. s \in Seq(E) /\ Len(s) = 2 /\ s[1] = x /\ s[2] = y
    BY <2>1, ConcatProperties
  <2> HIDE DEF s
  <2>3. s = <<x, y>>
    BY <2>2
  <2> QED
    BY <2>3 DEF s
<1>4. <<x, y>> \o << >> = <<x, y>>
  BY ConcatEmptySeq
<1>5. <<x, y>> \o <<z>> = <<x, y, z>>
  <2> DEFINE s == <<x, y>> \o <<z>>
  <2>1. <<x, y>> \in Seq(E) /\ <<z>> \in Seq(E) /\ Len(<<x, y>>) = 2 /\ Len(<<z>>) = 1
    OBVIOUS
  <2>2. s \in Seq(E) /\ Len(s) = 3 /\ s[1] = x /\ s[2] = y /\ s[3] = z
    BY <2>1, ConcatProperties
  <2> HIDE DEF s
  <2>3. s = <<x, y, z>>
    BY <2>2
  <2> QED
    BY <2>3 DEF s
<1> QED
  BY <1>1, <1>2, <1>3, <1>4, <1>5

\* The polls of MyEncoder.
LEMMA PollShapes ==
  /\ << >> \in PollEvents /\ <<"BTN">> \in PollEvents /\ <<"BTN", "BTN">> \in PollEvents
  /\ \A e \in {"INC", "DEC"} :
       <<e>> \in PollEvents /\ <<"BTN", e>> \in PollEvents /\ <<"BTN", "BTN", e>> \in PollEvents
  BY Zenon DEF PollEvents

\* What the button and the turn send together is among MyEncoder's polls.
LEMMA KindsOfPoll ==
  ASSUME NEW b \in ButtonEvents, NEW t \in TurnEvents
  PROVE  Kinds(b \o t) \in PollEvents
<1> DEFINE E == {"PRESSED", "LONG", "RELEASED", "CLICKED", "INC", "DEC"}
<1>1. /\ Kind("RELEASED") = "BTN" /\ Kind("CLICKED") = "BTN" /\ "RELEASED" \in E /\ "CLICKED" \in E
      /\ \A e \in {"PRESSED", "LONG", "RELEASED"} : Kind(e) = "BTN" /\ e \in E
      /\ \A e \in {"INC", "DEC"} : Kind(e) = e /\ e \in E
  BY DEF Kind
<1> HIDE DEF E
<1>2. /\ Kinds(<< >>) = << >>
      /\ \A x : Kinds(<<x>>) = <<Kind(x)>>
      /\ \A x, y : Kinds(<<x, y>>) = <<Kind(x), Kind(y)>>
      /\ \A x, y, z : Kinds(<<x, y, z>>) = <<Kind(x), Kind(y), Kind(z)>>
  BY DEF Kinds
<1>3. t = << >> \/ \E e \in {"INC", "DEC"} : t = <<e>>
  BY DEF TurnEvents
<1>4. CASE b = << >>
  <2>1. CASE t = << >>
    <3>1. Kinds(b \o t) = << >>
      BY <1>1, <1>2, <1>4, <2>1, Joined, Zenon
    <3> QED
      BY <3>1, PollShapes, Zenon
  <2>2. ASSUME NEW e \in {"INC", "DEC"}, t = <<e>> PROVE Kinds(b \o t) \in PollEvents
    <3>1. b \o t = <<e>>
      BY <1>1, <1>4, <2>2, Joined, Zenon
    <3>2. Kinds(b \o t) = <<e>>
      BY <1>1, <1>2, <3>1, Zenon
    <3> QED
      BY <3>2, PollShapes, Zenon
  <2> QED
    BY <1>3, <2>1, <2>2
<1>5. ASSUME NEW x \in {"PRESSED", "LONG", "RELEASED"}, b = <<x>> PROVE Kinds(b \o t) \in PollEvents
  <2>1. CASE t = << >>
    <3>1. b \o t = <<x>>
      BY <1>1, <1>5, <2>1, Joined, Zenon
    <3>2. Kinds(b \o t) = <<"BTN">>
      BY <1>1, <1>2, <3>1, Zenon
    <3> QED
      BY <3>2, PollShapes, Zenon
  <2>2. ASSUME NEW e \in {"INC", "DEC"}, t = <<e>> PROVE Kinds(b \o t) \in PollEvents
    <3>1. b \o t = <<x, e>>
      BY <1>1, <1>5, <2>2, Joined, Zenon
    <3>2. Kinds(b \o t) = <<Kind(x), Kind(e)>>
      BY <1>2, <3>1, Zenon
    <3>3. Kinds(b \o t) = <<"BTN", e>>
      BY <1>1, <3>2
    <3> QED
      BY <3>3, PollShapes, Zenon
  <2> QED
    BY <1>3, <2>1, <2>2
<1>6. CASE b = <<"RELEASED", "CLICKED">>
  <2>1. CASE t = << >>
    <3>1. b \o t = <<"RELEASED", "CLICKED">>
      BY <1>1, <1>6, <2>1, Joined, Zenon
    <3>2. Kinds(b \o t) = <<Kind("RELEASED"), Kind("CLICKED")>>
      BY <1>2, <3>1, Zenon
    <3>3. Kinds(b \o t) = <<"BTN", "BTN">>
      BY <1>1, <3>2
    <3> QED
      BY <3>3, PollShapes, Zenon
  <2>2. ASSUME NEW e \in {"INC", "DEC"}, t = <<e>> PROVE Kinds(b \o t) \in PollEvents
    <3>1. <<"RELEASED", "CLICKED">> \o <<e>> = <<"RELEASED", "CLICKED", e>>
      BY <1>1, Joined, Zenon
    <3>2. Kinds(b \o t) = <<Kind("RELEASED"), Kind("CLICKED"), Kind(e)>>
      BY <1>2, <1>6, <2>2, <3>1, Zenon
    <3>3. Kinds(b \o t) = <<"BTN", "BTN", e>>
      BY <1>1, <3>2, Zenon
    <3> QED
      BY <3>3, PollShapes, Zenon
  <2> QED
    BY <1>3, <2>1, <2>2
<1> QED
  BY <1>4, <1>5, <1>6 DEF ButtonEvents

\* Whatever a poll of read_encoder sends is one of the polls that MyEncoder's
\* timer may make: its Tick leaves out nothing the decoder and the button do.
THEOREM PollsAreTicks == DecoderSpec => [](Kinds(out) \in PollEvents)
<1> DEFINE P == Kinds(out) \in PollEvents
<1>1. Kinds(<< >>) \in PollEvents
  BY DEF Kinds, PollEvents
<1>2. DecoderInit => P
  BY <1>1 DEF DecoderInit
<1>3. PollInv /\ P /\ [DecoderNext]_decoderVars => P'
  <2> SUFFICES ASSUME PollInv, P, [DecoderNext]_decoderVars PROVE P'
    OBVIOUS
  <2>1. ASSUME NEW move \in {-1, 0, 1}, NEW down \in BOOLEAN, Poll(move, down)
        PROVE  P'
    <3>1. out' = Button(down).events \o Turned(Count(code'))
      BY <2>1 DEF Poll
    <3>2. Button(down).events \in ButtonEvents
      BY ButtonStep, Zenon DEF PollInv
    <3>3. Turned(Count(code')) \in TurnEvents
      BY CountType, TurnedType
    <3> QED
      BY <3>1, <3>2, <3>3, KindsOfPoll, Zenon
  <2>2. CASE Readd
    BY <1>1, <2>2 DEF Readd
  <2>3. CASE UNCHANGED decoderVars
    BY <2>3 DEF decoderVars
  <2> QED
    BY <2>1, <2>2, <2>3 DEF DecoderNext
<1> QED
  BY <1>2, <1>3, PollInvariantHolds, PTL DEF DecoderSpec
=============================================================================
