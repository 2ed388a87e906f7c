------------------------------ MODULE LeaseLock ------------------------------
(***************************************************************************)
(* What a lock key of the LockManager promises to its callers: a lease.    *)
(* At most one client holds a valid lease.  A lease that carries a TTL may *)
(* lapse while its client still works; the client then keeps running, but  *)
(* without the lock, and ending its call frees nothing.                    *)
(***************************************************************************)
CONSTANT Clients

VARIABLE lease      \* client -> "none" | "held" | "lapsed"

TypeOK == lease \in [Clients -> {"none", "held", "lapsed"}]

Free == \A c \in Clients : lease[c] # "held"

Init == lease = [c \in Clients |-> "none"]

Grant(c) == /\ lease[c] = "none"
            /\ Free
            /\ lease' = [lease EXCEPT ![c] = "held"]

Lapse(c) == /\ lease[c] = "held"
            /\ lease' = [lease EXCEPT ![c] = "lapsed"]

End(c) == /\ lease[c] \in {"held", "lapsed"}
          /\ lease' = [lease EXCEPT ![c] = "none"]

Next == \E c \in Clients : Grant(c) \/ Lapse(c) \/ End(c)

Spec == Init /\ [][Next]_lease
==============================================================================
