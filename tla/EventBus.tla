------------------------------ MODULE EventBus ------------------------------
(***************************************************************************)
(* The event bus (runtime/event_bus.go).  Publish hands an event to every  *)
(* matching subscriber on a goroutine of its own: delivered holds these    *)
(* goroutines in the order they were started, which says nothing about the *)
(* order the handlers run in.                                              *)
(*                                                                         *)
(* A subscription is told from a later one of the same subscriber by its   *)
(* number, as the code tells them by their pointer; its stopCh is closed   *)
(* in the critical section that removes it from the map.  Nothing is ever  *)
(* sent to eventQueue, so the loop that reads it only waits for stopCh.    *)
(* The history of events is left out: nothing in src reads it.             *)
(*                                                                         *)
(* The only caller of Publish is SubmitEvent, which holds r.mu: there is   *)
(* one publication at a time.                                              *)
(***************************************************************************)
EXTENDS Integers, Sequences, FiniteSets

CONSTANTS
  Subscribers,       \* subscriber identifiers
  EventTypes,
  Filters,           \* the lists of event types subscribers give
  MaxSubscriptions   \* bound on the subscriptions of one identifier

ASSUME BusAssumption == MaxSubscriptions \in Nat /\ Filters \subseteq SUBSET EventTypes

VARIABLES
  busRunning,    \* eb.running
  subscribers,   \* eb.subscribers: [id, number, types]
  subscribed,    \* how often each identifier has subscribed
  publishing,    \* the publication in progress: its event, "copy" or "deliver", and who is left
  delivered      \* the handler goroutines: <<subscription, event>>

busVars == <<busRunning, subscribers, subscribed, publishing, delivered>>

NoEvent == [id |-> 0, type |-> "none"]
Quiet   == [pc |-> "none", event |-> NoEvent, targets |-> {}]

BusInit ==
  /\ busRunning = FALSE
  /\ subscribers = {} /\ subscribed = [id \in Subscribers |-> 0]
  /\ publishing = Quiet
  /\ delivered = <<>>

\* No event types means all of them.
ShouldDeliver(sub, event) == sub.types = {} \/ event.type \in sub.types

-----------------------------------------------------------------------------

\* A second Subscribe of the same identifier changes nothing.
Subscribe(id, types) ==
  /\ \A sub \in subscribers : sub.id # id
  /\ subscribed[id] < MaxSubscriptions
  /\ subscribed' = [subscribed EXCEPT ![id] = @ + 1]
  /\ subscribers' = subscribers \cup
                      {[id |-> id, number |-> subscribed[id] + 1, types |-> types]}
  /\ UNCHANGED <<busRunning, publishing, delivered>>

Unsubscribe(id) ==
  /\ \E sub \in subscribers : sub.id = id
  /\ subscribers' = {sub \in subscribers : sub.id # id}
  /\ UNCHANGED <<busRunning, subscribed, publishing, delivered>>

\* Publish looks at running, and goes on without eb.mu.
Publish(event) ==
  /\ publishing = Quiet
  /\ publishing' = IF busRunning
                   THEN [pc |-> "copy", event |-> event, targets |-> {}]
                   ELSE Quiet
  /\ UNCHANGED <<busRunning, subscribers, subscribed, delivered>>

\* deliverEvent copies the subscribers under a lock of its own, ...
CopySubscribers ==
  /\ publishing.pc = "copy"
  /\ publishing' = [publishing EXCEPT !.pc = "deliver", !.targets = subscribers]
  /\ UNCHANGED <<busRunning, subscribers, subscribed, delivered>>

\* Mutant: nobody asks whether the subscription is still open or wants the event.
DeliverToAll(sub) ==
  /\ publishing.pc = "deliver" /\ sub \in publishing.targets
  /\ publishing' = [publishing EXCEPT !.targets = @ \ {sub}]
  /\ delivered' = Append(delivered, <<sub, publishing.event>>)
  /\ UNCHANGED <<busRunning, subscribers, subscribed>>

\* ... and starts the handlers of those that match and are still open.
Deliver(sub) ==
  /\ publishing.pc = "deliver" /\ sub \in publishing.targets
  /\ publishing' = [publishing EXCEPT !.targets = @ \ {sub}]
  /\ delivered' = IF ShouldDeliver(sub, publishing.event) /\ sub \in subscribers
                  THEN Append(delivered, <<sub, publishing.event>>)
                  ELSE delivered
  /\ UNCHANGED <<busRunning, subscribers, subscribed>>

Published ==
  /\ publishing.pc = "deliver" /\ publishing.targets = {}
  /\ publishing' = Quiet
  /\ UNCHANGED <<busRunning, subscribers, subscribed, delivered>>

BusTypeOK ==
  /\ busRunning \in BOOLEAN
  /\ subscribers \subseteq [id : Subscribers, number : 1..MaxSubscriptions,
                            types : Filters]
  /\ \A s, t \in subscribers : s.id = t.id => s = t
  /\ subscribed \in [Subscribers -> 0..MaxSubscriptions]
  /\ publishing.pc \in {"none", "copy", "deliver"}
=============================================================================
