------------------------------- MODULE NodeFSM -------------------------------
(***************************************************************************)
(* The status machine of a VPN node (internal/scheduler/fsm.go).  A status *)
(* change is validated against the caller's in-memory copy of the row, not *)
(* against the row itself.                                                 *)
(***************************************************************************)

NodeStatus == {"NEW", "DISCOVERED", "REPUTATION_CHECKED", "CONNECTING",
               "HEALTH_CHECK", "SPEED_TEST", "HEALTHY", "QUALIFIED", "STANDBY",
               "ACTIVE", "DRAINING", "FAILED", "COOLDOWN", "DEAD", "STALE"}

\* The statuses each status may move to.
AllowedTransitions == [st \in NodeStatus |->
    CASE st = "NEW" -> {"DISCOVERED", "FAILED"}
      [] st = "DISCOVERED" -> {"REPUTATION_CHECKED", "FAILED", "STALE"}
      [] st = "REPUTATION_CHECKED" -> {"CONNECTING", "HEALTHY", "QUALIFIED", "FAILED"}
      [] st = "CONNECTING" -> {"HEALTH_CHECK", "HEALTHY", "FAILED"}
      [] st = "HEALTH_CHECK" -> {"SPEED_TEST", "HEALTHY", "QUALIFIED", "FAILED"}
      [] st = "HEALTHY" -> {"CONNECTING", "SPEED_TEST", "QUALIFIED", "FAILED"}
      [] st = "SPEED_TEST" -> {"QUALIFIED", "FAILED"}
      [] st = "QUALIFIED" -> {"CONNECTING", "STANDBY", "ACTIVE", "FAILED"}
      [] st = "STANDBY" -> {"ACTIVE", "FAILED", "DEAD"}
      [] st = "ACTIVE" -> {"DRAINING", "FAILED", "DEAD"}
      [] st = "DRAINING" -> {"FAILED", "DEAD"}
      [] st = "FAILED" -> {"COOLDOWN", "DEAD", "DISCOVERED", "CONNECTING"}
      [] st = "COOLDOWN" -> {"DISCOVERED", "DEAD"}
      [] st = "STALE" -> {"DISCOVERED", "DEAD"}
      [] OTHER -> {"DISCOVERED"}]

CanTransition(current, target) ==
    current = target \/ target \in AllowedTransitions[current]

\* The in-memory status after TransitionNode: unchanged when it is refused.
Moved(current, target) ==
    IF CanTransition(current, target) THEN target ELSE current
=============================================================================
