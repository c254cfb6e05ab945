------------------------------- MODULE Device -------------------------------
(***************************************************************************)
(* One chip that first runs setup_provisioning and then start_ota_http,    *)
(* the order their needs impose: the server wants the network and the      *)
(* event loop that setup_provisioning makes.  The two share the chip:      *)
(* whichever component restarts it, the other one loses its memory, and a  *)
(* restart while a new image is on probation undoes an update.             *)
(***************************************************************************)
EXTENDS Naturals

CONSTANTS
  Slots,      \* the two OTA partitions
  MaxChunks,  \* bound: receives of one upload
  MaxLosses   \* bound: power losses

ASSUME DeviceAssumption ==
  /\ \E a, b \in Slots : a # b /\ Slots = {a, b}
  /\ MaxChunks \in Nat /\ MaxLosses \in Nat

VARIABLES
  chip,                                              \* shared
  creds, pc, sem, bit, ip, sta, mgr, prov,           \* Provisioning
  arrived, ended, late,
  boot, running, img, state, srv, req,               \* SimpleOta
  losses                                             \* power losses so far

Wifi == INSTANCE Provisioning
Ota  == INSTANCE SimpleOta

wifi == <<creds, pc, sem, bit, ip, sta, mgr, prov, arrived, ended, late>>
ota  == <<boot, running, img, state, srv, req>>
vars == <<chip, wifi, ota, losses>>

TypeOK == Wifi!TypeOK /\ Ota!TypeOK /\ losses \in 0 .. MaxLosses

Init == Wifi!Init /\ Ota!Init /\ losses = 0

WifiOnly == chip = "on" /\ UNCHANGED <<ota, losses>>
OtaOnly  == chip = "on" /\ UNCHANGED <<wifi, losses>>

\* setup_provisioning, with the wait for the event bit or the timeout.
SetupStep == WifiOnly /\ (Wifi!SetupStep \/ Wifi!WaitEnds)
Erase     == WifiOnly /\ Wifi!Erase
EventStep == WifiOnly /\ Wifi!EventStep

\* start_ota_http is called when setup_provisioning has returned.
StartStep   == OtaOnly /\ pc = "returned" /\ Ota!StartStep
RequestStep == OtaOnly /\ Ota!RequestStep

Reboot ==
  /\ chip = "reset" /\ chip' = "on"
  /\ Wifi!Reboot /\ Ota!Reboot
  /\ UNCHANGED losses

PowerLoss ==
  /\ chip = "on" /\ losses < MaxLosses
  /\ chip' = "reset" /\ losses' = losses + 1
  /\ UNCHANGED <<wifi, ota>>

Next ==
  \/ SetupStep \/ Erase \/ EventStep \/ StartStep \/ RequestStep
  \/ Reboot \/ PowerLoss

Spec == Init /\ [][Next]_vars

\* The tasks run, the timeout of five minutes elapses, and erasing the flash
\* does not fail for ever.  The network and the people who enter credentials
\* or upload images may do nothing.
FairSpec ==
  /\ Spec
  /\ WF_vars(SetupStep) /\ SF_vars(Erase) /\ WF_vars(StartStep) /\ WF_vars(Reboot)

-----------------------------------------------------------------------------

\* The chip always has an image that will serve the next update: a valid
\* boot image served once, and behind an image that is new or on probation
\* stands a valid one (otaserver.c:35-36, 61-64, 132-143).
Recoverable ==
  IF state[boot] = "valid"
  THEN img[boot] = "serves"
  ELSE LET other == Ota!Other(boot)
       IN  /\ state[boot] \in {"new", "pending"}
           /\ state[other] = "valid" /\ img[other] = "serves"

\* Credentials are erased only when the wait ran into its timeout, and those
\* that had brought an address by then only if the semaphore is tried between
\* that arrival and the give, though setup_provisioning does not look why its
\* wait ended (my_provisioning.c:91-97, 332-336).
WorkingCredentialsKept ==
  pc \in {"erase", "fail"} => ended = "timeout" /\ (arrived => late)

\* Wrong credentials do not stay: the chip restarts without them and can be
\* provisioned again (my_provisioning.c:332-348).
WrongForgotten == creds = "wrong" ~> creds # "wrong"

\* Probation ends: the image is marked valid or the chip goes back to the
\* other one, whatever the network does to setup_provisioning meanwhile; or
\* the marking failed, which the code does not notice, and the image runs on
\* probation until the next restart (otaserver.c:132-143,
\* my_provisioning.c:332-348).
ProbationEnds ==
  \A s \in Slots :
    (running = s /\ state[s] = "pending")
      ~> (state[s] # "pending" \/ (running = s /\ srv = "failed"))

\* What my_provisioning.c:341 says, "Clean up all resources allocated by
\* provisioning": once setup_provisioning has returned, no IP_EVENT runs its
\* handler, which gives the semaphore on its stack.
CleanedUp == [][~(pc = "returned" /\ sta = "trying" /\ sta' = "up")]_vars
=============================================================================
