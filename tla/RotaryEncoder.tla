--------------------------- MODULE RotaryEncoder ----------------------------
(***************************************************************************)
(* read_encoder of src/components/rotary_encoder/encoder.c, which the      *)
(* periodic timer runs on a registered encoder: the quadrature decoder and *)
(* the button.  One Poll is one run; the events it sends are in out.  What *)
(* becomes of them is the business of MyEncoder, and MyEncoderProofs       *)
(* extends both: hence the names DecoderInit, DecoderNext and so on.       *)
(*                                                                         *)
(* The shaft and the button are external: the shaft moves by at most a     *)
(* quarter of a detent between two polls (1 ms apart), the button does as  *)
(* it likes, contact bounce included.                                      *)
(***************************************************************************)
EXTENDS Integers, Sequences, SequencesExt

CONSTANTS
  DeadTime,   \* CONFIG_RE_BTN_DEAD_TIME_US in polls
  LongTime    \* CONFIG_RE_BTN_LONG_PRESS_TIME_US in polls

ASSUME TimeAssumption ==
  DeadTime \in Nat /\ LongTime \in Nat /\ DeadTime < LongTime

VARIABLES
  phase,      \* external: quarter of the detent cycle the shaft is in, 0 at rest
  code,       \* re->code: the last two samples of the pins, 4 bits
  store,      \* re->store: the last four valid codes, 16 bits
  btnState,   \* re->btn_state
  btnTime,    \* re->btn_pressed_time_us in polls, no further than LongTime
  out,        \* the events the last poll sent
  polled,     \* history: the pins have been sampled since the encoder was added
  moves,      \* history: the last four quarter turns between samples
  since,      \* history: polls since the last PRESSED event, up to LongTime + 2
  longed      \* history: a LONG event was sent since then

decoderVars == <<phase, code, store, btnState, btnTime, out, polled, moves, since, longed>>

\* Levels of the pins (B, A as bits 1, 0) in each quarter; pull-ups at rest.
Pins == <<3, 2, 0, 1>>

Word == 65536   \* re->store has 16 bits

ValidStates == {1, 2, 4, 7, 8, 11, 13, 14}

DecoderTypeOK ==
  /\ phase \in 0 .. 3
  /\ code \in 0 .. 15
  /\ store \in 0 .. Word - 1
  /\ btnState \in {"released", "pressed", "long"}
  /\ btnTime \in 0 .. LongTime
  /\ Len(out) <= 3
  /\ polled \in BOOLEAN
  /\ moves \in BoundedSeq({-1, 1}, 4)
  /\ since \in 0 .. LongTime + 2
  /\ longed \in BOOLEAN

\* A descriptor fresh from memset and rotary_encoder_add, wherever the shaft is.
DecoderInit ==
  /\ phase \in 0 .. 3
  /\ code = 0 /\ store = 0
  /\ btnState = "released" /\ btnTime = 0
  /\ out = << >> /\ polled = FALSE /\ moves = << >> /\ since = 0 /\ longed = FALSE

-----------------------------------------------------------------------------
(* The button: the new state and time, and the events.                     *)

Elapsed(time) == IF time < LongTime THEN time + 1 ELSE time

Result(state, time, events) == [state |-> state, time |-> time, events |-> events]

\* Variant: a long press is a click as well.
ReleaseEvents_Click(state) ==
  IF state = "released" THEN << >> ELSE <<"RELEASED", "CLICKED">>

ReleaseEvents(state) ==
  CASE state = "released" -> << >>
    [] state = "pressed"  -> <<"RELEASED", "CLICKED">>
    [] state = "long"     -> <<"RELEASED">>

\* The level of the button's pin is read.
ReadButton(down) ==
  IF ~down THEN Result("released", btnTime, ReleaseEvents(btnState))
  ELSE IF btnState = "released" THEN Result("pressed", 0, <<"PRESSED">>)
  ELSE IF btnState = "pressed" /\ Elapsed(btnTime) >= LongTime
    THEN Result("long", Elapsed(btnTime), <<"LONG">>)
    ELSE Result(btnState, Elapsed(btnTime), << >>)

\* For the dead time after a press the pin is not looked at.
Button(down) ==
  IF btnState = "pressed" /\ btnTime < DeadTime
    THEN Result("pressed", Elapsed(btnTime), << >>)
    ELSE ReadButton(down)

-----------------------------------------------------------------------------
(* The decoder.                                                            *)

\* Variant: the code is not masked.
NewCode_NoMask(sample) == code * 4 + sample

\* Two samples side by side: pin B is bit 1, pin A bit 0 of each.
NewCode(sample) == (code * 4 + sample) % 16

NewStore(c) == IF c \in ValidStates THEN (store * 16 + c) % Word ELSE store

\* Variant: only the end of the pattern is compared.
Count_Tail(c) ==
  CASE c \in ValidStates /\ NewStore(c) % 256 = \h17 -> 1
    [] c \in ValidStates /\ NewStore(c) % 256 = \h2b -> -1
    [] OTHER -> 0

\* Only a code that entered the store can complete a count.
Count(c) ==
  CASE c \in ValidStates /\ NewStore(c) = \he817 -> 1
    [] c \in ValidStates /\ NewStore(c) = \hd42b -> -1
    [] OTHER -> 0

Turned(count) ==
  CASE count = 1 -> <<"INC">> [] count = -1 -> <<"DEC">> [] OTHER -> << >>

\* One run of read_encoder, after the shaft has moved by move.
Poll(move, down) ==
  LET b == Button(down)
      c == NewCode(Pins[((phase + move) % 4) + 1])
  IN
  /\ phase' = (phase + move) % 4
  /\ btnState' = b.state /\ btnTime' = b.time
  /\ code' = c
  /\ store' = NewStore(c)
  /\ out' = b.events \o Turned(Count(c))
  /\ polled' = TRUE
  /\ moves' = IF move = 0 \/ ~polled THEN moves
              ELSE LET m == Append(moves, move)
                   IN IF Len(m) > 4 THEN Tail(m) ELSE m
  /\ since' = IF Contains(b.events, "PRESSED") THEN 0
              ELSE IF since < LongTime + 2 THEN since + 1 ELSE since
  /\ longed' = (Contains(b.events, "LONG") \/ (longed /\ ~Contains(b.events, "PRESSED")))

\* The encoder is removed, and added again later with the shaft elsewhere.
Readd ==
  /\ phase' \in 0 .. 3
  /\ code' = 0 /\ store' = 0
  /\ btnState' = "released" /\ btnTime' = 0
  /\ out' = << >> /\ polled' = FALSE /\ moves' = << >> /\ since' = 0 /\ longed' = FALSE

DecoderNext == Readd \/ \E move \in {-1, 0, 1}, down \in BOOLEAN : Poll(move, down)

DecoderSpec == DecoderInit /\ [][DecoderNext]_decoderVars

-----------------------------------------------------------------------------
(* Properties.                                                             *)

Sent(e) == Contains(out', e)

\* The decoder's table and patterns mean what they should: a detent is counted
\* at the poll in which the shaft comes to rest after four quarter turns in one
\* direction, and at no other; jitter between two quarters only loses counts,
\* and nothing seen before an encoder was added counts.
FullCycle(dir) == phase = 0 /\ moves = <<dir, dir, dir, dir>>

CountIsCycle ==
  [][ /\ Sent("INC") <=> phase' # phase /\ FullCycle(1)'
      /\ Sent("DEC") <=> phase' # phase /\ FullCycle(-1)' ]_decoderVars

\* A press is one story, over any sequence of polls: no release is reported
\* within the dead time, so bounce on the press is filtered; a button held beyond
\* the long press time has been reported long, once and not early; and a release
\* is a click if and only if no long press was reported.  At the limit itself the
\* repository disagrees: encoder.h:53 asks for a press time above it, encoder.c:65
\* reports at equality.  The story holds on either reading, which differ by one
\* poll; LongPressAtLimit (MyEncoderProofs) says which one the code follows.
ButtonStory ==
  [][ /\ Sent("RELEASED") => since' > DeadTime
      /\ Sent("LONG") => ~longed /\ since' \in {LongTime, LongTime + 1}
      /\ Sent("CLICKED") <=> Sent("RELEASED") /\ ~longed
      /\ btnState' # "released" /\ since' > LongTime => longed' ]_decoderVars
=============================================================================
