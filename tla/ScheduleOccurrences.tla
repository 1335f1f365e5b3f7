-------------------------- MODULE ScheduleOccurrences --------------------------
(***************************************************************************)
(* What the schedules promise, without engines, claims, leases or crashes: *)
(* an occurrence is attempted only when it is due, has its effect only     *)
(* after an attempt, and a schedule leaves an occurrence only when it was  *)
(* attempted or the user rewrote the schedule meanwhile.                   *)
(***************************************************************************)
EXTENDS Integers

CONSTANTS Schedules, MaxTime

Never == -1

VARIABLES
    now,        \* the clock
    next,       \* the occurrence each schedule waits for
    byUser,     \* the user wrote it, and it has not been left since
    tried,      \* occurrences that were attempted
    done        \* occurrences that had their effect

vars == <<now, next, byUser, tried, done>>

Init ==
    /\ now = 0
    /\ next = [s \in Schedules |-> Never]
    /\ byUser = [s \in Schedules |-> FALSE]
    /\ tried = {}
    /\ done = {}

\* Only s gets another occurrence, or none.
Replan(s) ==
    /\ next' = [next EXCEPT ![s] = next'[s]]
    /\ next'[s] \in Nat \cup {Never}

Rewrite(s) ==
    /\ Replan(s)
    /\ byUser' = [byUser EXCEPT ![s] = TRUE]
    /\ UNCHANGED <<now, tried, done>>

Attempt(s) ==
    /\ next[s] # Never /\ next[s] <= now
    /\ tried' = tried \cup {<<s, next[s]>>}
    /\ UNCHANGED <<now, next, byUser, done>>

Effect(o) ==
    /\ o \in tried
    /\ done' = done \cup {o}
    /\ UNCHANGED <<now, next, byUser, tried>>

Advance(s) ==
    /\ byUser[s] \/ <<s, next[s]>> \in tried
    /\ Replan(s)
    /\ next'[s] = Never \/ next'[s] > now
    /\ byUser' = [byUser EXCEPT ![s] = FALSE]
    /\ UNCHANGED <<now, tried, done>>

Tick ==
    /\ now < MaxTime
    /\ now' = now + 1
    /\ UNCHANGED <<next, byUser, tried, done>>

Next ==
    \/ \E s \in Schedules : Rewrite(s) \/ Attempt(s) \/ Advance(s)
    \/ \E o \in Schedules \X (0 .. MaxTime) : Effect(o)
    \/ Tick

Spec == Init /\ [][Next]_vars

=============================================================================
