------------------------------ MODULE TagStore ------------------------------
(***************************************************************************)
(* What the index server promises to those who search it: each tag serves  *)
(* one publication of its index at a time, moves only to newer ones, and a *)
(* search is one atomic read of what its tag serves.  A restart forgets    *)
(* what was served and the requests under way.                             *)
(***************************************************************************)
EXTENDS Naturals

CONSTANTS Tags, Clients, Nobody

VARIABLES
    newest,   \* publications so far
    served,   \* the one each tag serves, 0 for none
    asked,    \* the tag each client waits on, Nobody for none
    answer    \* the publication its answer comes from, 0 for not yet

vars == <<newest, served, asked, answer>>

Init ==
    /\ newest = 0
    /\ served = [t \in Tags |-> 0]
    /\ asked = [c \in Clients |-> Nobody]
    /\ answer = [c \in Clients |-> 0]

Publish == newest' = newest + 1 /\ UNCHANGED <<served, asked, answer>>

Serve(t) ==
    \E g \in served[t]..newest :
        /\ g # 0
        /\ served' = [served EXCEPT ![t] = g]
        /\ UNCHANGED <<newest, asked, answer>>

Ask(c, t) ==
    /\ asked[c] = Nobody /\ served[t] # 0
    /\ asked' = [asked EXCEPT ![c] = t]
    /\ UNCHANGED <<newest, served, answer>>

Read(c) ==
    /\ asked[c] \in Tags /\ answer[c] = 0
    /\ answer' = [answer EXCEPT ![c] = served[asked[c]]]
    /\ UNCHANGED <<newest, served, asked>>

Reply(c) ==
    /\ answer[c] # 0
    /\ asked' = [asked EXCEPT ![c] = Nobody]
    /\ answer' = [answer EXCEPT ![c] = 0]
    /\ UNCHANGED <<newest, served>>

Restart ==
    /\ served' = [t \in Tags |-> 0]
    /\ asked' = [c \in Clients |-> Nobody]
    /\ answer' = [c \in Clients |-> 0]
    /\ UNCHANGED newest

Next ==
    \/ Publish \/ Restart
    \/ \E t \in Tags : Serve(t)
    \/ \E c \in Clients : Read(c) \/ Reply(c) \/ \E t \in Tags : Ask(c, t)

Spec == Init /\ [][Next]_vars
=============================================================================
