---------------------------- MODULE MonitorSpec ----------------------------
(***************************************************************************)
(* What my_syscall promises its callers, whatever the representation of    *)
(* the lists: a set of intercepted system calls and, for each system call, *)
(* the set of processes whose calls are to be logged.  One successful      *)
(* request changes one of them, at one instant.                            *)
(***************************************************************************)
CONSTANTS Pid, Syscall

VARIABLES hooked, watched

vars == <<hooked, watched>>

Init == hooked = {} /\ watched = [s \in Syscall |-> {}]

Intercept(s) == s \notin hooked /\ hooked' = hooked \cup {s} /\ UNCHANGED watched

Release(s) == s \in hooked /\ hooked' = hooked \ {s} /\ UNCHANGED watched

SetWatched(s, set) ==
  /\ s \in hooked
  /\ watched' = [watched EXCEPT ![s] = set]
  /\ UNCHANGED hooked

Watch(s, p) == p \notin watched[s] /\ SetWatched(s, watched[s] \cup {p})

Unwatch(s, p) == p \in watched[s] /\ SetWatched(s, watched[s] \ {p})

WatchAll(s) == SetWatched(s, Pid)

UnwatchAll(s) == SetWatched(s, {})

Next ==
  \E s \in Syscall :
    \/ Intercept(s) \/ Release(s) \/ WatchAll(s) \/ UnwatchAll(s)
    \/ \E p \in Pid : Watch(s, p) \/ Unwatch(s, p)

Spec == Init /\ [][Next]_vars
=============================================================================
