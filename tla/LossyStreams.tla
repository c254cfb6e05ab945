---------------------------- MODULE LossyStreams ----------------------------
(***************************************************************************)
(* What the reader of the BLE console may rely on: each of the client's    *)
(* ways to send text is a stream that can lose characters, but never       *)
(* repeats, reorders or invents one.  Characters are numbered; how the     *)
(* streams mix is left open.                                               *)
(***************************************************************************)
EXTENDS Naturals

CONSTANTS Sources, MaxSent

VARIABLES
  sent,     \* the number of the last character each source has sent
  transit,  \* those that may still arrive
  got       \* the last one that has arrived

vars == <<sent, transit, got>>

Init ==
  /\ sent = [s \in Sources |-> 0] /\ got = [s \in Sources |-> 0]
  /\ transit = [s \in Sources |-> {}]

Send(s) ==
  /\ \E n \in sent[s] + 1 .. MaxSent :
       /\ sent' = [sent EXCEPT ![s] = n]
       /\ \E kept \in SUBSET (sent[s] + 1 .. n) :
            transit' = [transit EXCEPT ![s] = @ \cup kept]
  /\ UNCHANGED got

Lose ==
  /\ transit' \in [Sources -> SUBSET (1 .. MaxSent)]
  /\ \A s \in Sources : transit'[s] \subseteq transit[s]
  /\ UNCHANGED <<sent, got>>

\* What it overtakes is lost.
Deliver(s) ==
  /\ \E n \in transit[s] :
       /\ got' = [got EXCEPT ![s] = n]
       /\ transit' = [transit EXCEPT ![s] = { k \in @ : k > n }]
  /\ UNCHANGED sent

Next == Lose \/ \E s \in Sources : Send(s) \/ Deliver(s)

Spec == Init /\ [][Next]_vars
=============================================================================
