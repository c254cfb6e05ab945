--------------------------- MODULE MCMqttWrapper ----------------------------
(* Two endpoints with callbacks; the topic of 1 begins with that of 0, so  *)
(* that a message for 0 reaches both.                                      *)
EXTENDS MqttWrapper

MCSubscribers == {0, 1}
MCBegins == [e \in 0 .. 1 |-> IF e = 0 THEN {0, 1} ELSE {e}]
=============================================================================
