---------------------------- MODULE MCEventStore ----------------------------
(***************************************************************************)
(* TLC instances of EventStore: one account balance with a policy, a       *)
(* mutator event, declarative events and one that mixes both.              *)
(***************************************************************************)
EXTENDS EventStore, TLC

CONSTANTS bal

MCPaths  == {bal}
MCValues == {Absent, 0, 1, 2}
MCData   == [MCPaths -> MCValues]

\* A deposit adds one, up to the values; the policy allows at most 1.
MCMutators == {"deposit"}
MCRun == [m \in MCMutators |-> [d \in MCData |->
            IF d[bal] = Absent THEN [d EXCEPT ![bal] = 1]
            ELSE IF d[bal] = 2 THEN Refuses
            ELSE [d EXCEPT ![bal] = @ + 1]]]
MCLegal == {d \in MCData : d[bal] # 2}

Deposit == [writes |-> {bal}, mutator |-> "deposit", sets |-> [p \in {} |-> Absent]]
Correct == [writes |-> {bal}, mutator |-> NoMutator, sets |-> bal :> 0]
Overrun == [writes |-> {bal}, mutator |-> NoMutator, sets |-> bal :> 2]
Mixed   == [writes |-> {bal}, mutator |-> "deposit", sets |-> bal :> 0]

\* A new name; a name whose log holds a correction; one whose log has a hole in it.
MCOldForks == {<< >>, <<[id |-> 1, clock |-> 1, ev |-> Correct]>>,
               <<[id |-> 2, clock |-> 1, ev |-> Persisted(Mixed)]>>}

AllEvents    == {Deposit, Correct, Overrun, Mixed}
OnlyDeposits == {Deposit}
=============================================================================
