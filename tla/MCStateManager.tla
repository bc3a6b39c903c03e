--------------------------- MODULE MCStateManager ---------------------------
(***************************************************************************)
(* TLC instance of StateManager: two paths, a mutator that counts the      *)
(* balance up to the policy's limit and fails beyond the values, an        *)
(* assigning mutator like the one of HTTP's state.set, and a declarative   *)
(* event.  Two of the events declare what they write, one does not.        *)
(***************************************************************************)
EXTENDS StateManager, TLC

CONSTANTS bal, ord, a, b

MCPaths  == {bal, ord}
MCValues == {Absent, 0, 1, 2}
MCData   == [MCPaths -> MCValues]

MCMutators == {"deposit", "setOrder"}
MCRun == [m \in MCMutators |-> [d \in MCData |->
            IF m = "setOrder" THEN [d EXCEPT ![ord] = 1]
            ELSE IF d[bal] = Absent THEN [d EXCEPT ![bal] = 0]
            ELSE IF d[bal] = 2 THEN Refuses
            ELSE [d EXCEPT ![bal] = @ + 1]]]

\* "the balance is at most 1"
MCLegal == {d \in MCData : d[bal] # 2}

NoSets == [p \in {} |-> Absent]
Deposit  == [writes |-> {bal}, mutator |-> "deposit", sets |-> NoSets]
SetOrder == [writes |-> {}, mutator |-> "setOrder", sets |-> NoSets]
Correct  == [writes |-> {bal}, mutator |-> NoMutator, sets |-> bal :> 0]

MCEvents == {Deposit, SetOrder, Correct}
=============================================================================
