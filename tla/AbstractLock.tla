---------------------------- MODULE AbstractLock ----------------------------
(* What a mutex promises: a thread that asks for it owns it some time later, *)
(* alone, until it gives it back.                                            *)
CONSTANTS Threads, Nobody

VARIABLES owner, asking

vars == <<owner, asking>>

Init == owner = Nobody /\ asking = {}

Ask(t) ==
    /\ t \notin asking /\ owner # t
    /\ asking' = asking \cup {t}
    /\ UNCHANGED owner

Acquire(t) ==
    /\ t \in asking /\ owner = Nobody
    /\ owner' = t
    /\ asking' = asking \ {t}

\* An attempt of try_lock that fails.
GiveUp(t) ==
    /\ t \in asking
    /\ asking' = asking \ {t}
    /\ UNCHANGED owner

Release(t) ==
    /\ owner = t
    /\ owner' = Nobody
    /\ UNCHANGED asking

Next == \E t \in Threads : Ask(t) \/ Acquire(t) \/ GiveUp(t) \/ Release(t)

Spec == Init /\ [][Next]_vars
=============================================================================
