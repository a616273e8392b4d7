---------------------------- MODULE PoolContract ----------------------------
(***************************************************************************)
(* What a connection pool of src/neobolt/direct.py promises the threads    *)
(* that use it, without locks, deques or timeouts: a thread asks for a     *)
(* connection, is granted one that is alive and owned by nobody else, or   *)
(* is refused; it gives the connection back. Connections die (closed,      *)
(* defunct, expired) at any time, and only a connection nobody owns is     *)
(* ever (re)created. Every request is answered.                            *)
(***************************************************************************)
CONSTANTS Threads, Conns, None

VARIABLES
    state,   \* thread -> "idle", "acquiring" or "holding"
    owner,   \* thread -> the connection it holds, or None
    dead     \* the connections that may not be handed out

avars == <<state, owner, dead>>

Free(c) == \A u \in Threads : owner[u] # c

\* Connections die freely; a dead one comes (back) to life only when free.
Churn ==
    /\ dead' \in SUBSET Conns
    /\ \A c \in dead \ dead' : Free(c)

Init ==
    /\ state = [t \in Threads |-> "idle"]
    /\ owner = [t \in Threads |-> None]
    /\ dead \in SUBSET Conns

Request(t) ==
    /\ state[t] = "idle"
    /\ state' = [state EXCEPT ![t] = "acquiring"]
    /\ UNCHANGED <<owner, dead>>

Grant(t, c) ==
    /\ state[t] = "acquiring"
    /\ Free(c)
    /\ Churn
    /\ c \notin dead'
    /\ state' = [state EXCEPT ![t] = "holding"]
    /\ owner' = [owner EXCEPT ![t] = c]

Refuse(t) ==
    /\ state[t] = "acquiring"
    /\ state' = [state EXCEPT ![t] = "idle"]
    /\ Churn
    /\ UNCHANGED owner

GiveBack(t) ==
    /\ state[t] = "holding"
    /\ state' = [state EXCEPT ![t] = "idle"]
    /\ owner' = [owner EXCEPT ![t] = None]
    /\ Churn

Environment == Churn /\ UNCHANGED <<state, owner>>

Next ==
    \/ \E t \in Threads :
          Request(t) \/ Refuse(t) \/ GiveBack(t) \/ \E c \in Conns : Grant(t, c)
    \/ Environment

\* An acquiring thread is answered: granted a connection or refused.
Answered == \A t \in Threads : state[t] = "acquiring" ~> state[t] # "acquiring"

Spec == Init /\ [][Next]_avars /\ Answered

====
