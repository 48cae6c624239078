----------------------------- MODULE DurableMap -----------------------------
(***************************************************************************)
(* What secrets.LocalEncrypted promises its callers: a map in memory and   *)
(* the map the next OpenLocal finds.  An operation changes the memory,     *)
(* then either makes the whole of it durable in one step and succeeds, or  *)
(* fails and leaves what is durable alone.  A crash loses the memory only. *)
(***************************************************************************)
CONSTANTS Keys, Values, Absent

VARIABLES up, busy, mem, disk
vars == <<up, busy, mem, disk>>

Maps  == [Keys -> Values \cup {Absent}]
Empty == [k \in Keys |-> Absent]

Init == up = FALSE /\ busy = FALSE /\ mem = Empty /\ disk = Empty

Open ==
    /\ ~up
    /\ up' = TRUE /\ mem' = disk
    /\ UNCHANGED <<busy, disk>>

Change ==
    /\ up /\ ~busy
    /\ busy' = TRUE /\ mem' \in Maps
    /\ UNCHANGED <<up, disk>>

Succeed ==
    /\ busy
    /\ busy' = FALSE /\ disk' = mem
    /\ UNCHANGED <<up, mem>>

Fail ==
    /\ busy
    /\ busy' = FALSE
    /\ UNCHANGED <<up, mem, disk>>

Crash ==
    /\ up
    /\ up' = FALSE /\ busy' = FALSE /\ mem' = Empty
    /\ UNCHANGED disk

Next == Open \/ Change \/ Succeed \/ Fail \/ Crash
Spec == Init /\ [][Next]_vars
=============================================================================
