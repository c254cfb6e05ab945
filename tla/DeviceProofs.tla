---------------------------- MODULE DeviceProofs ----------------------------
(***************************************************************************)
(* The safety properties of Device for any two partitions and any bounds.  *)
(* What an update leaves behind depends on SimpleOta alone, what happens   *)
(* to the credentials on Provisioning alone; the chip that both share only *)
(* decides which of them steps.                                            *)
(***************************************************************************)
EXTENDS Device, TLAPS

\* The partition that is going to start is the running one, or the one an
\* update has selected while the running image was valid; a server runs in an
\* image that can run one, and writes behind a valid one only.
BootInv ==
  /\ \/ /\ boot = running
        /\ \/ state[boot] = "valid" /\ img[boot] = "serves"
           \/ /\ state[boot] = "pending"
              /\ state[Ota!Other(boot)] = "valid" /\ img[Ota!Other(boot)] = "serves"
     \/ /\ boot = Ota!Other(running) /\ state[boot] = "new" /\ req.at = "restart"
        /\ state[running] = "valid" /\ img[running] = "serves"
  /\ srv # "off" => img[running] = "serves"
  /\ req.at = "receive" => state[running] = "valid" /\ boot = running

\* Until the semaphore is tried, an address that has arrived is in it or is
\* about to be given, and the event bit is never set without it; nothing has
\* happened before the wait.
ArrivedInv ==
  /\ pc \in {"boot", "start"} =>
       ~arrived /\ ~bit /\ ip = "none" /\ sta = "off" /\ mgr \in {"off", "ready"}
  /\ pc \in {"wait", "take"} =>
       /\ arrived => sem \/ ip = "give"
       /\ bit \/ ip = "bit" => sem
  /\ pc = "take" => ended = "timeout" \/ (ended = "bit" /\ sem)
  /\ pc \in {"erase", "fail"} => ended = "timeout" /\ (arrived => late)

IInv == TypeOK /\ BootInv /\ ArrivedInv

-----------------------------------------------------------------------------

\* There are two partitions, and each is the other one of the other.
LEMMA OtherSlot ==
  ASSUME NEW s \in Slots
  PROVE  /\ Ota!Other(s) \in Slots /\ Ota!Other(s) # s
         /\ Ota!Other(Ota!Other(s)) = s
         /\ \A o \in Slots : o = s \/ o = Ota!Other(s)
<1>1. PICK a, b \in Slots : a # b /\ Slots = {a, b}
  BY DeviceAssumption
<1>2. \E o \in Slots : o # s
  BY <1>1
<1>3. Ota!Other(s) \in Slots /\ Ota!Other(s) # s
  BY <1>2 DEF Ota!Other
<1>4. \E o \in Slots : o # Ota!Other(s)
  BY <1>1
<1>5. Ota!Other(Ota!Other(s)) \in Slots /\ Ota!Other(Ota!Other(s)) # Ota!Other(s)
  BY <1>4 DEF Ota!Other
<1> QED
  BY <1>1, <1>3, <1>5

\* As flashed, one partition is valid and runs.
LEMMA InitInv == Init => IInv
<1> SUFFICES ASSUME Init PROVE IInv
  OBVIOUS
<1>1. TypeOK
  <2>1. Wifi!TypeOK
    BY DEF Init, Wifi!Init, Wifi!RamInit, Wifi!TypeOK
  <2>2. Ota!TypeOK
    BY DeviceAssumption DEF Init, Ota!Init, Ota!TypeOK, Ota!NoReq, Ota!Images
  <2>3. losses \in 0 .. MaxLosses
    BY DeviceAssumption DEF Init
  <2> QED
    BY <2>1, <2>2, <2>3 DEF TypeOK
<1>2. BootInv
  BY DEF Init, Ota!Init, Ota!NoReq, BootInv
<1>3. ArrivedInv
  BY DEF Init, Wifi!Init, Wifi!RamInit, ArrivedInv
<1> QED
  BY <1>1, <1>2, <1>3 DEF IInv

-----------------------------------------------------------------------------
(* Provisioning.                                                           *)

\* What setup_provisioning and its handler do, one statement of either at a time,
\* keeps the types and what is known of an address that has arrived.
LEMMA WifiStep ==
  ASSUME Wifi!TypeOK, ArrivedInv,
         Wifi!SetupStep \/ Wifi!WaitEnds \/ Wifi!Erase \/ Wifi!EventStep
  PROVE  Wifi!TypeOK' /\ ArrivedInv'
<1> USE DEF Wifi!TypeOK, ArrivedInv, Wifi!history
<1>1. CASE Wifi!SetupStep
  <2>1. CASE Wifi!Setup
    BY <2>1 DEF Wifi!Setup
  <2>2. CASE Wifi!StartProvisioning
    BY <2>2 DEF Wifi!StartProvisioning
  <2>3. CASE Wifi!StartStation
    BY <2>3 DEF Wifi!StartStation
  <2>4. CASE Wifi!TakeSemaphore
    BY <2>4 DEF Wifi!TakeSemaphore
  <2>5. CASE Wifi!EraseFails
    BY <2>5 DEF Wifi!EraseFails
  <2>6. CASE Wifi!CleanUp
    <3>1. /\ creds' = creds /\ sem' = sem /\ bit' = bit /\ ip' = ip /\ sta' = sta /\ mgr' = mgr
          /\ arrived' = arrived /\ ended' = ended /\ late' = late /\ prov' = FALSE
          /\ pc \in {"cleanup", "fail"}
          /\ (pc' = "returned" /\ chip' = chip) \/ (pc' = pc /\ chip' = "reset")
      BY <2>6, Zenon DEF Wifi!CleanUp
    <3>2. chip' \in {"on", "reset"} /\ pc' \in {"returned", "fail", "cleanup"}
      BY <3>1
    <3>3. Wifi!TypeOK'
      <4>1. prov' \in BOOLEAN
        BY <3>1
      <4>2. sem' \in BOOLEAN /\ bit' \in BOOLEAN /\ arrived' \in BOOLEAN /\ late' \in BOOLEAN
        BY <3>1
      <4>3. creds' \in {"none", "right", "wrong"} /\ mgr' \in {"off", "ready", "serving", "applied"}
        BY <3>1
      <4>4. sta' \in {"off", "trying", "up"} /\ ip' \in {"none", "give", "bit"}
        BY <3>1
      <4>5. ended' \in {"no", "bit", "timeout"}
        BY <3>1
      <4> QED
        BY <3>2, <4>1, <4>2, <4>3, <4>4, <4>5
    <3>4. ArrivedInv'
      BY <3>1
    <3> QED
      BY <3>3, <3>4
  <2> QED
    BY <1>1, <2>1, <2>2, <2>3, <2>4, <2>5, <2>6 DEF Wifi!SetupStep
<1>2. CASE Wifi!WaitEnds
  BY <1>2 DEF Wifi!WaitEnds
<1>3. CASE Wifi!Erase
  BY <1>3 DEF Wifi!Erase
<1>4. CASE Wifi!EventStep
  <2>1. CASE Wifi!CredentialsArrive
    BY <2>1 DEF Wifi!CredentialsArrive
  <2>2. CASE Wifi!GotIp
    <3>1. CASE Wifi!AddressArrives("give")
      BY <3>1 DEF Wifi!AddressArrives
    <3>2. CASE Wifi!GiveSemaphore("bit")
      <4>1. /\ ip = "give" /\ creds' = creds /\ pc' = pc /\ bit' = bit /\ sta' = sta
            /\ mgr' = mgr /\ prov' = prov
            /\ arrived' = arrived /\ ended' = ended /\ late' = late
            /\ \/ sem' = TRUE /\ ip' = "bit" /\ chip' = chip
               \/ (sem \/ pc = "returned") /\ chip' = "reset" /\ sem' = sem /\ ip' = ip
        BY <3>2, Zenon DEF Wifi!GiveSemaphore
      <4>2. chip' \in {"on", "reset"} /\ sem' \in BOOLEAN /\ ip' \in {"give", "bit"}
        BY <4>1
      <4>3. Wifi!TypeOK'
        BY <4>1, <4>2
      <4>4. ArrivedInv'
        BY <4>1
      <4> QED
        BY <4>3, <4>4
    <3>3. CASE Wifi!SetEventBit("none")
      BY <3>3 DEF Wifi!SetEventBit
    <3> QED
      BY <2>2, <3>1, <3>2, <3>3 DEF Wifi!GotIp
  <2>3. CASE Wifi!Disconnected
    BY <2>3 DEF Wifi!Disconnected
  <2>4. CASE Wifi!ProvEnd
    BY <2>4 DEF Wifi!ProvEnd
  <2> QED
    BY <1>4, <2>1, <2>2, <2>3, <2>4 DEF Wifi!EventStep
<1> QED
  BY <1>1, <1>2, <1>3, <1>4

-----------------------------------------------------------------------------
(* The update.                                                             *)

\* start_ota_http and the handlers keep the types, and an image that serves.
LEMMA OtaStep ==
  ASSUME Ota!TypeOK, BootInv, chip \in {"on", "reset"}, Ota!StartStep \/ Ota!RequestStep
  PROVE  Ota!TypeOK' /\ BootInv' /\ chip' \in {"on", "reset"}
<1> USE OtherSlot, DeviceAssumption DEF Ota!TypeOK, BootInv, Ota!Images, Ota!NoReq
<1>1. CASE Ota!StartServer
  BY <1>1 DEF Ota!StartServer
<1>2. CASE Ota!MarkValid
  BY <1>2 DEF Ota!MarkValid, Ota!Marked
<1>3. CASE Ota!Receive
  BY <1>3 DEF Ota!Receive
<1>4. CASE Ota!Finish
  BY <1>4 DEF Ota!Finish
<1>5. CASE Ota!RebootRequest
  BY <1>5 DEF Ota!RebootRequest
<1>6. CASE Ota!Restart
  BY <1>6 DEF Ota!Restart
<1>7. ASSUME NEW n \in 0 .. MaxChunks, NEW image \in Ota!Images, Ota!UpdateBegin(n, image)
      PROVE  Ota!TypeOK' /\ BootInv' /\ chip' \in {"on", "reset"}
  BY <1>7 DEF Ota!UpdateBegin
<1> QED
  BY <1>1, <1>2, <1>3, <1>4, <1>5, <1>6, <1>7 DEF Ota!StartStep, Ota!RequestStep

\* The bootloader goes back to a valid image, or puts a new one on probation
\* with a valid one behind it.
LEMMA BootStep ==
  ASSUME Ota!TypeOK, BootInv, Ota!Reboot
  PROVE  Ota!TypeOK' /\ BootInv'
<1> USE OtherSlot, DeviceAssumption DEF Ota!TypeOK, BootInv, Ota!Images, Ota!NoReq
<1> QED
  BY DEF Ota!Reboot

-----------------------------------------------------------------------------
(* The chip.                                                               *)

\* Every step of the chip keeps the invariant.
LEMMA InvStep == IInv /\ [Next]_vars => IInv'
<1> SUFFICES ASSUME IInv, [Next]_vars PROVE IInv'
  OBVIOUS
<1> USE DEF IInv, TypeOK
<1>1. CASE SetupStep \/ Erase \/ EventStep
  <2>1. Wifi!TypeOK' /\ ArrivedInv'
    BY <1>1, WifiStep DEF SetupStep, Erase, EventStep
  <2>2. UNCHANGED <<ota, losses>>
    BY <1>1 DEF SetupStep, Erase, EventStep, WifiOnly
  <2>3. Ota!TypeOK' /\ BootInv' /\ losses' \in 0 .. MaxLosses
    BY <2>2 DEF ota, Ota!TypeOK, BootInv, Ota!Other
  <2> QED BY <2>1, <2>3
<1>2. CASE StartStep \/ RequestStep
  <2>1. Ota!TypeOK' /\ BootInv' /\ chip' \in {"on", "reset"}
    BY <1>2, OtaStep DEF StartStep, RequestStep, Wifi!TypeOK
  <2>2. UNCHANGED <<wifi, losses>>
    BY <1>2 DEF StartStep, RequestStep, OtaOnly
  <2>3. Wifi!TypeOK' /\ ArrivedInv' /\ losses' \in 0 .. MaxLosses
    BY <2>1, <2>2 DEF wifi, Wifi!TypeOK, ArrivedInv
  <2> QED BY <2>1, <2>3
<1>3. CASE Reboot
  <2>1. Ota!TypeOK' /\ BootInv'
    BY <1>3, BootStep DEF Reboot
  <2>2. Wifi!TypeOK' /\ ArrivedInv'
    BY <1>3 DEF Reboot, Wifi!Reboot, Wifi!TypeOK, ArrivedInv
  <2> QED BY <1>3, <2>1, <2>2 DEF Reboot
<1>4. CASE PowerLoss
  <2>1. losses' \in 0 .. MaxLosses
    BY <1>4, DeviceAssumption DEF PowerLoss
  <2>2. Wifi!TypeOK' /\ ArrivedInv'
    BY <1>4 DEF PowerLoss, wifi, Wifi!TypeOK, ArrivedInv
  <2>3. Ota!TypeOK' /\ BootInv'
    BY <1>4 DEF PowerLoss, ota, Ota!TypeOK, BootInv, Ota!Other
  <2> QED BY <2>1, <2>2, <2>3
<1>5. CASE UNCHANGED vars
  BY <1>5 DEF vars, wifi, ota, Wifi!TypeOK, Ota!TypeOK, BootInv, ArrivedInv, Ota!Other
<1> QED
  BY <1>1, <1>2, <1>3, <1>4, <1>5 DEF Next

\* The inductive invariant holds in every reachable state: what the bootloader
\* is going to start, what runs, and an address that waits to be noticed.
THEOREM InvariantHolds == Spec => []IInv
  BY InitInv, InvStep, PTL DEF Spec

\* The variables of both components keep their types.
THEOREM TypeCorrect == Spec => []TypeOK
<1>1. IInv => TypeOK
  BY DEF IInv
<1> QED
  BY <1>1, InvariantHolds, PTL

\* After any sequence of updates, failures, power losses and restarts the chip
\* starts an image that can serve the next update, or one on probation with
\* such an image behind it.
THEOREM RecoverableHolds == Spec => []Recoverable
<1>1. IInv => Recoverable
  BY OtherSlot DEF IInv, TypeOK, Ota!TypeOK, BootInv, Recoverable
<1> QED
  BY <1>1, InvariantHolds, PTL

\* Whichever way the event bit, the timeout and the handler interleave,
\* credentials are erased only after the timeout, and if they had brought an
\* address by then, only because the semaphore was tried between that arrival
\* and the give.
THEOREM WorkingCredentialsKeptHolds == Spec => []WorkingCredentialsKept
<1>1. IInv => WorkingCredentialsKept
  BY DEF IInv, ArrivedInv, WorkingCredentialsKept
<1> QED
  BY <1>1, InvariantHolds, PTL
=============================================================================
