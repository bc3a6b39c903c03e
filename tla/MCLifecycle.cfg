SPECIFICATION FairSpec
CONSTANTS
  Controllers = {c1, c2}
  Subscribers = {cli}
  EventTypes = {"http", "action"}
  Filters = {{"action"}}
  ActionEvent = "action"
  Goals = {g}
  Plugins = {TRUE, FALSE}
  MaxSubscriptions = 1
  MaxStarts = 2
  MaxPlans = 1
  MaxTasks = 1
  MaxClientEvents = 1
INVARIANTS StoppedIsQuiet EventsDelivered
PROPERTY StopEnds
CHECK_DEADLOCK FALSE
