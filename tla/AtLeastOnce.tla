---------------------------- MODULE AtLeastOnce ----------------------------
(***************************************************************************)
(* A queue that promises a message at least once: it may call a message    *)
(* delivered only when its receiver has accepted it, may give it up, and   *)
(* never loses one that it has taken on.                                   *)
(***************************************************************************)
CONSTANT Messages

VARIABLES
  taken,   \* messages the queue has taken on
  heard,   \* messages their receiver has accepted
  closed   \* [Messages -> "open", "delivered" or "given up"]

Init == taken = {} /\ heard = {} /\ closed = [m \in Messages |-> "open"]

Take(m) ==
  /\ m \notin taken
  /\ taken' = taken \cup {m}
  /\ UNCHANGED <<heard, closed>>

\* A message may be turned down on the spot.
Refuse(m) ==
  /\ m \notin taken
  /\ taken' = taken \cup {m}
  /\ closed' = [closed EXCEPT ![m] = "given up"]
  /\ UNCHANGED heard

Hear(m) ==
  /\ m \in taken
  /\ heard' = heard \cup {m}
  /\ UNCHANGED <<taken, closed>>

Close(m, how) ==
  /\ m \in taken
  /\ how = "delivered" => m \in heard
  /\ closed' = [closed EXCEPT ![m] = how]
  /\ UNCHANGED <<taken, heard>>

Next == \E m \in Messages : Take(m) \/ Refuse(m) \/ Hear(m) \/ \E how \in {"open", "delivered", "given up"} : Close(m, how)

Spec == Init /\ [][Next]_<<taken, heard, closed>>
=============================================================================
