--------------------------- MODULE SessionMachine ---------------------------
(***************************************************************************)
(* What the operators of a shadow portfolio are promised about its trading *)
(* session, without versions, callers or database transactions: a session  *)
(* that was locked comes back to trading only through three separate steps *)
(* -- unlock to STOPPED with the kill switch still engaged, release of the *)
(* kill switch in STOPPED, activation with the kill switch released.       *)
(* SessionControl implements it.                                           *)
(***************************************************************************)
EXTENDS TradingStateMachines

VARIABLES status, killSwitchEngaged

machine == <<status, killSwitchEngaged>>

MachineInit == status = "STOPPED" /\ killSwitchEngaged = TRUE

Move(to) == <<status, to>> \in SessionTransitions /\ status' = to

Activate == Move("SHADOW_ACTIVE") /\ ~killSwitchEngaged /\ UNCHANGED killSwitchEngaged

Pause == Move("PAUSED") /\ UNCHANGED killSwitchEngaged

Lock == Move("ERROR_LOCKED") /\ killSwitchEngaged' = TRUE

Unlock == /\ status = "ERROR_LOCKED"
          /\ killSwitchEngaged
          /\ Move("STOPPED")
          /\ UNCHANGED killSwitchEngaged

Engage == status # "CLOSED" /\ killSwitchEngaged' = TRUE /\ UNCHANGED status

Release == status = "STOPPED" /\ killSwitchEngaged' = FALSE /\ UNCHANGED status

MachineNext == Activate \/ Pause \/ Lock \/ Unlock \/ Engage \/ Release

MachineSpec == MachineInit /\ [][MachineNext]_machine
=============================================================================
