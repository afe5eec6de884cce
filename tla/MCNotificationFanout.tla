------------------------ MODULE MCNotificationFanout ------------------------
(* Two users, one subscriber id, an activity that notifies only the user  *)
(* it is assigned to and one that notifies everybody, and preferences     *)
(* that turn in-app notifications off or filter by event and priority.    *)
EXTENDS NotificationFanout, TLC

MCActivities ==
    { [event |-> "bead.assigned", target |-> "u1", prio |-> None],
      [event |-> "workflow.failed", target |-> None, prio |-> None] }

MCPrefChoices ==
    { [inApp |-> FALSE, events |-> {}, minPriority |-> ""],
      [inApp |-> TRUE, events |-> {"workflow.failed"}, minPriority |-> "high"] }

(* Bounds of the run: channels made and notifications created.            *)
MaxChans == 2
MaxNotifications == 2

StateBound == Len(chans) <= MaxChans /\ nextId <= MaxNotifications
=============================================================================
