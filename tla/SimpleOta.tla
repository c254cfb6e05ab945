----------------------------- MODULE SimpleOta ------------------------------
(***************************************************************************)
(* The firmware update over HTTP, otaserver.c: start_ota_http, which marks *)
(* a freshly booted image valid once its server runs, and the handlers of  *)
(* POST /update and POST /reboot, which the server's one task runs one     *)
(* request at a time.                                                      *)
(*                                                                         *)
(* External: the two partitions with their states, the esp_ota functions   *)
(* and the bootloader, with rollback: a new image is started once on       *)
(* probation, and a restart during probation goes back to the other one.   *)
(***************************************************************************)
EXTENDS Integers

CONSTANTS
  Slots,     \* the OTA partitions, two of them
  MaxChunks  \* bound: receives of one upload

Other(s) == CHOOSE o \in Slots : o # s

\* An image that can start its server, one that cannot, and one that fails
\* verification (truncated, garbled or erased).
Images == {"serves", "mute", "corrupt"}

VARIABLES
  chip,     \* "on" or "reset"
  boot,     \* the partition the bootloader starts next
  running,  \* the partition that runs
  img,      \* what each partition holds
  state,    \* esp_ota_img_states_t of each partition
  srv,      \* start_ota_http: "off", "serving", and when it is done "marked"
            \* or, if the image could not be marked valid, "failed"
  req       \* the request in progress: at, chunks left, image sent

vars == <<chip, boot, running, img, state, srv, req>>

NoReq == [at |-> "idle", left |-> 0, image |-> "corrupt"]

TypeOK ==
  /\ boot \in Slots /\ running \in Slots
  /\ img \in [Slots -> Images]
  /\ state \in [Slots -> {"valid", "new", "pending", "aborted"}]
  /\ srv \in {"off", "serving", "marked", "failed"}
  /\ req \in [at : {"idle", "receive", "restart"}, left : 0 .. MaxChunks, image : Images]

\* As flashed at first: one working image.
Init ==
  /\ chip = "on"
  /\ boot \in Slots /\ running = boot
  /\ img = [s \in Slots |-> IF s = boot THEN "serves" ELSE "corrupt"]
  /\ state = [s \in Slots |-> IF s = boot THEN "valid" ELSE "aborted"]
  /\ srv = "off" /\ req = NoReq

\* The bootloader.
Reboot ==
  LET back == state[boot] = "pending"
      next == IF back THEN Other(boot) ELSE boot
  IN  /\ boot' = next /\ running' = next
      /\ state' = [s \in Slots |->
           CASE s = boot /\ back -> "aborted"
             [] s = next /\ state[s] = "new" -> "pending"
             [] OTHER -> state[s]]
      /\ srv' = "off" /\ req' = NoReq
      /\ UNCHANGED img

-----------------------------------------------------------------------------
(* start_ota_http.                                                         *)

Marked(st) == [st EXCEPT ![running] = IF @ = "pending" THEN "valid" ELSE @]

\* Variant: the image is marked valid before the server runs.
StartServer_MarkFirst ==
  /\ srv = "off"
  /\ state' = Marked(state)
  /\ IF img[running] = "serves" THEN srv' = "serving" /\ UNCHANGED chip
                                ELSE chip' = "reset" /\ UNCHANGED srv
  /\ UNCHANGED <<boot, running, img, req>>

\* ESP_ERROR_CHECK(http_server_init()): from here on requests are served.
StartServer ==
  /\ srv = "off"
  /\ IF img[running] = "serves" THEN srv' = "serving" /\ UNCHANGED chip
                                ELSE chip' = "reset" /\ UNCHANGED srv
  /\ UNCHANGED <<boot, running, img, state, req>>

\* Variant: the image is never marked valid.
MarkValid_Never ==
  /\ srv = "serving"
  /\ srv' = "marked"
  /\ UNCHANGED <<chip, boot, running, img, state, req>>

\* esp_ota_get_state_partition may fail, which skips the marking, and so may
\* esp_ota_mark_app_valid_cancel_rollback, whose result is not looked at.
MarkValid ==
  /\ srv = "serving"
  /\ \/ srv' = "marked" /\ state' = Marked(state)
     \/ state[running] = "pending" /\ srv' = "failed" /\ UNCHANGED state
  /\ UNCHANGED <<chip, boot, running, img, req>>

-----------------------------------------------------------------------------
(* update_post_handler and reboot_post_handler.                            *)

\* esp_ota_begin erases the other partition.  It refuses while the running
\* image is on probation and may fail otherwise; ESP_ERROR_CHECK aborts.
UpdateBegin(n, image) ==
  /\ srv # "off" /\ req.at = "idle"
  /\ n = 0 => image = "corrupt"
  /\ \/ /\ state[running] # "pending"
        /\ img' = [img EXCEPT ![Other(running)] = "corrupt"]
        /\ req' = [at |-> "receive", left |-> n, image |-> image]
        /\ UNCHANGED chip
     \/ /\ chip' = "reset"
        /\ UNCHANGED <<img, req>>
  /\ UNCHANGED <<boot, running, state, srv>>

\* Variant: the loop runs once too often.
Receive_OnceMore ==
  /\ req.at = "receive"
  /\ req' = [req EXCEPT !.left = @ - 1]
  /\ UNCHANGED <<chip, boot, running, img, state, srv>>

\* A timeout of the receive is retried for ever; any other error of the
\* receive or of esp_ota_write ends the request.
Receive ==
  /\ req.at = "receive" /\ req.left > 0
  /\ \/ req' = [req EXCEPT !.left = @ - 1]
     \/ req' = NoReq
  /\ UNCHANGED <<chip, boot, running, img, state, srv>>

\* esp_ota_end verifies the image, esp_ota_set_boot_partition selects it.
Finish ==
  /\ req.at = "receive" /\ req.left = 0
  /\ img' = [img EXCEPT ![Other(running)] = req.image]
  /\ \/ /\ req.image # "corrupt"
        /\ boot' = Other(running)
        /\ state' = [state EXCEPT ![Other(running)] = "new"]
        /\ req' = [req EXCEPT !.at = "restart"]
     \/ /\ req' = NoReq
        /\ UNCHANGED <<boot, state>>
  /\ UNCHANGED <<chip, running, srv>>

RebootRequest ==
  /\ srv # "off" /\ req.at = "idle"
  /\ req' = [req EXCEPT !.at = "restart"]
  /\ UNCHANGED <<chip, boot, running, img, state, srv>>

\* After the answer and 500 ms.
Restart ==
  /\ req.at = "restart"
  /\ chip' = "reset"
  /\ UNCHANGED <<boot, running, img, state, srv, req>>

StartStep == StartServer \/ MarkValid
RequestStep ==
  \/ Receive \/ Finish \/ RebootRequest \/ Restart
  \/ \E n \in 0 .. MaxChunks, image \in Images : UpdateBegin(n, image)

\* The chip may be reset by anything else that runs on it.
Next ==
  \/ chip = "on" /\ (StartStep \/ RequestStep)
  \/ chip = "on" /\ chip' = "reset" /\ UNCHANGED <<boot, running, img, state, srv, req>>
  \/ chip = "reset" /\ chip' = "on" /\ Reboot

Spec == Init /\ [][Next]_vars
=============================================================================
