------------------------------ MODULE PlayLock ------------------------------
(***************************************************************************)
(* What the play lock of src/src/rtsp.c promises: of all the connections,  *)
(* one at a time owns the player; only the owner runs a player thread; and *)
(* the player changes hands only through nobody, with no thread left over. *)
(***************************************************************************)
CONSTANTS Conns, Nobody

VARIABLES owner,   \* the connection that has the player, or Nobody
          users    \* the connections with a player thread

vars == <<owner, users>>

Init == owner = Nobody /\ users = {}

Acquire(c) == owner = Nobody /\ owner' = c /\ UNCHANGED users
StartPlayer(c) == owner = c /\ c \notin users /\ users' = users \cup {c}
                  /\ UNCHANGED owner
StopPlayer(c) == owner = c /\ c \in users /\ users' = users \ {c}
                 /\ UNCHANGED owner
Release(c) == owner = c /\ c \notin users /\ owner' = Nobody /\ UNCHANGED users

Next == \E c \in Conns : Acquire(c) \/ StartPlayer(c) \/ StopPlayer(c) \/ Release(c)

Spec == Init /\ [][Next]_vars
=============================================================================
