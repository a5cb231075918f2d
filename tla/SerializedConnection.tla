------------------------ MODULE SerializedConnection ------------------------
(***************************************************************************)
(* What the integration promises of one ADS connection: the calls on it    *)
(* never overlap, and once it is closed it stays closed.  README.md:9 of   *)
(* the repository: "ADS operations are serialized per connection,          *)
(* including reads, writes, notification subscriptions, and shutdown".     *)
(***************************************************************************)
CONSTANT Threads            \* everything that may call the connection

VARIABLES active,           \* the threads inside a call
          open              \* the connection has not been closed

Init == active = {} /\ open = TRUE

(* A call starts only when none is under way. *)
Begin(t) ==
    /\ active = {}
    /\ active' = {t}
    /\ UNCHANGED open

(* A call ends; the one that shuts the connection down closes it. *)
End(t) ==
    /\ active = {t}
    /\ active' = {}
    /\ open' \in {open, FALSE}

Next == \E t \in Threads : Begin(t) \/ End(t)

Spec == Init /\ [][Next]_<<active, open>>
=============================================================================
