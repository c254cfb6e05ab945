---------------------------- MODULE Provisioning ----------------------------
(***************************************************************************)
(* Wi-Fi provisioning, my_provisioning.c: setup_provisioning in the main   *)
(* task against event_handler in the event loop's task.                    *)
(*                                                                         *)
(* The credentials outlive a restart.  The binary semaphore that says "an  *)
(* address was obtained" lives on the stack of setup_provisioning, and the *)
(* handler that gives it stays registered after that function returns.     *)
(* External: the station, the provisioning manager and the person who      *)
(* enters credentials.                                                     *)
(***************************************************************************)
VARIABLES
  chip,   \* "on", or "reset": esp_restart, abort or a power loss
  creds,  \* credentials in NVS: "none", "right" (the access point takes
          \* them) or "wrong"
  pc,     \* where the main task is
  sem,    \* wifi_sem is given
  bit,    \* WIFI_CONNECTED_EVENT
  ip,     \* an address has arrived and event_handler has yet to "give" the
          \* semaphore, or to set the event "bit"; otherwise "none"
  sta,    \* the station: "off", "trying" or "up"
  mgr,    \* the manager: "off", "ready", "serving" or "applied"
  prov,   \* event_handler is registered for the manager's events
  arrived,  \* history: an address arrived before the semaphore was tried
  ended,    \* history: what ended the wait, "bit" or "timeout"; before, "no"
  late      \* history: the semaphore was tried between an address's arrival
            \* and its give

history == <<arrived, ended, late>>
ram  == <<pc, sem, bit, ip, sta, mgr, prov, history>>
vars == <<chip, creds, ram>>

TypeOK ==
  /\ chip \in {"on", "reset"}
  /\ creds \in {"none", "right", "wrong"}
  /\ pc \in {"boot", "start", "wait", "take", "erase", "fail", "cleanup", "returned"}
  /\ sem \in BOOLEAN /\ bit \in BOOLEAN /\ ip \in {"none", "give", "bit"}
  /\ sta \in {"off", "trying", "up"}
  /\ mgr \in {"off", "ready", "serving", "applied"}
  /\ prov \in BOOLEAN
  /\ arrived \in BOOLEAN /\ late \in BOOLEAN /\ ended \in {"no", "bit", "timeout"}

RamInit ==
  /\ pc = "boot" /\ sem = FALSE /\ bit = FALSE /\ ip = "none"
  /\ sta = "off" /\ mgr = "off" /\ prov = FALSE
  /\ arrived = FALSE /\ ended = "no" /\ late = FALSE

Init == chip = "on" /\ creds = "none" /\ RamInit

\* What a restart does to this component.
Reboot ==
  /\ pc' = "boot" /\ sem' = FALSE /\ bit' = FALSE /\ ip' = "none"
  /\ sta' = "off" /\ mgr' = "off" /\ prov' = FALSE
  /\ arrived' = FALSE /\ ended' = "no" /\ late' = FALSE
  /\ UNCHANGED creds

-----------------------------------------------------------------------------
(* setup_provisioning.                                                     *)

\* NVS, which may have to be erased, the semaphore, the three handlers and
\* the manager.
Setup ==
  /\ pc = "boot"
  /\ creds' \in {creds, "none"}
  /\ pc' = "start" /\ prov' = TRUE /\ mgr' = "ready"
  /\ UNCHANGED <<chip, sem, bit, ip, sta, history>>

StartProvisioning ==
  /\ pc = "start" /\ creds = "none"
  /\ pc' = "wait" /\ mgr' = "serving"
  /\ UNCHANGED <<chip, creds, sem, bit, ip, sta, prov, history>>

\* wifi_prov_mgr_deinit and wifi_init_sta; the handler of STA_START connects.
StartStation ==
  /\ pc = "start" /\ creds # "none"
  /\ pc' = "wait" /\ mgr' = "off" /\ sta' = "trying"
  /\ UNCHANGED <<chip, creds, sem, bit, ip, prov, history>>

\* xEventGroupWaitBits returns with the bit or after WIFI_CONNECTED_TIMEOUT;
\* the code does not look which.
WaitEnds ==
  /\ pc = "wait"
  /\ pc' = "take" /\ ended' = IF bit THEN "bit" ELSE "timeout"
  /\ UNCHANGED <<chip, creds, sem, bit, ip, sta, mgr, prov, arrived, late>>

TakeSemaphore ==
  /\ pc = "take"
  /\ sem' = FALSE
  /\ pc' = IF sem THEN "cleanup" ELSE "erase"
  /\ late' = (ip = "give")
  /\ UNCHANGED <<chip, creds, bit, ip, sta, mgr, prov, arrived, ended>>

\* Variant: nothing is erased.
Erase_Skipped ==
  /\ pc = "erase"
  /\ pc' = "fail"
  /\ UNCHANGED <<chip, creds, sem, bit, ip, sta, mgr, prov, history>>

\* nvs_flash_erase; EraseFails: its result is not looked at.
Erase ==
  /\ pc = "erase"
  /\ creds' = "none"
  /\ pc' = "fail"
  /\ UNCHANGED <<chip, sem, bit, ip, sta, mgr, prov, history>>

EraseFails ==
  /\ pc = "erase"
  /\ pc' = "fail"
  /\ UNCHANGED <<chip, creds, sem, bit, ip, sta, mgr, prov, history>>

\* Only the handler of the manager's events is unregistered.
CleanUp ==
  /\ pc \in {"cleanup", "fail"}
  /\ prov' = FALSE
  /\ IF pc = "cleanup" THEN pc' = "returned" /\ UNCHANGED chip
                       ELSE chip' = "reset" /\ UNCHANGED pc
  /\ UNCHANGED <<creds, sem, bit, ip, sta, mgr, history>>

SetupStep ==
  \/ Setup \/ StartProvisioning \/ StartStation \/ TakeSemaphore
  \/ EraseFails \/ CleanUp

-----------------------------------------------------------------------------
(* event_handler, one event at a time, and the events themselves.          *)

\* The credentials are kept and tried; a second try needs a restart.
CredentialsArrive ==
  /\ mgr = "serving"
  /\ mgr' = "applied" /\ sta' = "trying"
  /\ creds' \in {"right", "wrong"}
  /\ UNCHANGED <<chip, pc, sem, bit, ip, prov, history>>

\* IP_EVENT_STA_GOT_IP is posted, and the event loop's task comes to it.
AddressArrives(next) ==
  /\ ip = "none" /\ sta = "trying" /\ creds = "right"
  /\ sta' = "up" /\ ip' = next
  /\ arrived' = (arrived \/ pc \in {"wait", "take"})
  /\ UNCHANGED <<chip, creds, pc, sem, bit, mgr, prov, ended, late>>

\* The give aborts if the semaphore was still given.  Once setup_provisioning
\* has returned the semaphore's memory is someone else's, and it may do either.
GiveSemaphore(next) ==
  /\ ip = "give"
  /\ \/ /\ ~sem \/ pc = "returned"
        /\ sem' = TRUE /\ ip' = next
        /\ UNCHANGED chip
     \/ /\ sem \/ pc = "returned"
        /\ chip' = "reset"
        /\ UNCHANGED <<sem, ip>>
  /\ UNCHANGED <<creds, pc, bit, sta, mgr, prov, history>>

SetEventBit(next) ==
  /\ ip = "bit"
  /\ bit' = TRUE /\ ip' = next
  /\ UNCHANGED <<chip, creds, pc, sem, sta, mgr, prov, history>>

\* Variant: the event bit is set before the semaphore is given.
GotIp_SignalFirst == AddressArrives("bit") \/ SetEventBit("give") \/ GiveSemaphore("none")

\* The handler of IP_EVENT_STA_GOT_IP, during which the main task goes on.
GotIp == AddressArrives("give") \/ GiveSemaphore("bit") \/ SetEventBit("none")

\* WIFI_EVENT_STA_DISCONNECTED: connects again.
Disconnected ==
  /\ ip = "none" /\ sta = "up"
  /\ sta' = "trying"
  /\ UNCHANGED <<chip, creds, pc, sem, bit, ip, mgr, prov, history>>

\* WIFI_PROV_END, some time after the credentials worked, deinitialises the
\* manager if the handler is still registered for it.
ProvEnd ==
  /\ ip = "none" /\ mgr = "applied" /\ sta = "up" /\ prov
  /\ mgr' = "off"
  /\ UNCHANGED <<chip, creds, pc, sem, bit, ip, sta, prov, history>>

EventStep == CredentialsArrive \/ GotIp \/ Disconnected \/ ProvEnd

\* The chip may be reset by anything else that runs on it.
Next ==
  \/ chip = "on" /\ (SetupStep \/ WaitEnds \/ Erase \/ EventStep)
  \/ chip = "on" /\ chip' = "reset" /\ UNCHANGED <<creds, ram>>
  \/ chip = "reset" /\ chip' = "on" /\ Reboot

Spec == Init /\ [][Next]_vars
=============================================================================
