--------------------------- MODULE SchedulerLease ---------------------------
(***************************************************************************)
(* The lock that makes the scheduler service a singleton: worker.py in     *)
(* --scheduler mode.                                                       *)
(*                                                                         *)
(* A process takes a Redis key with its token and a time to live, runs the *)
(* signal scheduler and the pricing jobs, and renews the key every third   *)
(* of its life: it reads the key, exits at once if the token is not its    *)
(* own, and extends the key.  A stopped process reads the key and deletes  *)
(* it.  A process that is down is restarted, with a new token, and gives   *)
(* up if the key is taken.  A process is its token here: a restart takes a *)
(* free key or exits, so an old token is never mistaken for a new one.     *)
(*                                                                         *)
(* Time passes in Tick.  A renewal comes late by at most MaxStall (a       *)
(* paused machine, a blocked event loop, a slow Redis), and so does the    *)
(* deletion after its read.                                                *)
(***************************************************************************)
EXTENDS Integers

CONSTANTS
    Processes,   \* the scheduler processes that may run
    None,        \* the value of a free key
    TTL,         \* SCHEDULER_LOCK_TTL_SECONDS
    Renewal,     \* the sleep between renewals, TTL // 3
    MaxStall     \* bound: how late a step of a process can come

ASSUME LeaseAssumption ==
    /\ None \notin Processes
    /\ TTL \in Nat /\ Renewal \in Nat /\ MaxStall \in Nat
    /\ 0 < Renewal /\ Renewal < TTL

VARIABLES
    key,    \* the token the lock key holds, or None
    ttl,    \* what is left of its life
    pc,     \* where each process is
    age,    \* time since a process last set or extended the key, or read it to delete it
    late    \* history: processes that overslept

vars == <<key, ttl, pc, age, late>>

\* Read and extended between two awaits, "owner" is the gap between the two calls.
Scheduling == {"up", "owner"}

TypeOK ==
    /\ key \in Processes \cup {None}
    /\ ttl \in 0..TTL
    /\ pc \in [Processes -> {"down", "stopping", "releasing"} \cup Scheduling]
    /\ age \in [Processes -> 0..(Renewal + MaxStall)]
    /\ late \subseteq Processes

Init ==
    /\ key = None
    /\ ttl = 0
    /\ pc = [p \in Processes |-> "down"]
    /\ age = [p \in Processes |-> 0]
    /\ late = {}

Goto(p, label) == pc' = [pc EXCEPT ![p] = label]

-----------------------------------------------------------------------------

\* Mutant: the key is set without NX.
StartUnconditionally(p) ==
    /\ pc[p] = "down"
    /\ key' = p
    /\ ttl' = TTL
    /\ age' = [age EXCEPT ![p] = 0]
    /\ Goto(p, "up")
    /\ UNCHANGED late

\* SET key token NX EX ttl, then the schedulers start.
Start(p) ==
    /\ pc[p] = "down"
    /\ key = None
    /\ key' = p
    /\ ttl' = TTL
    /\ age' = [age EXCEPT ![p] = 0]
    /\ Goto(p, "up")
    /\ UNCHANGED late

\* Mutant: a renewal that finds another token goes on.
ReadKeyIgnoreLoss(p) ==
    /\ pc[p] = "up"
    /\ age[p] >= Renewal
    /\ Goto(p, IF key = None THEN "down" ELSE "owner")
    /\ UNCHANGED <<key, ttl, age, late>>

\* The renewal's GET; os._exit if the key is not this process's.
ReadKey(p) ==
    /\ pc[p] = "up"
    /\ age[p] >= Renewal
    /\ Goto(p, IF key = p THEN "owner" ELSE "down")
    /\ UNCHANGED <<key, ttl, age, late>>

\* Mutant: the life is added to what is left.
ExtendAddsLife(p) ==
    /\ pc[p] = "owner"
    /\ ttl' = IF key = None THEN ttl ELSE ttl + TTL
    /\ age' = [age EXCEPT ![p] = 0]
    /\ Goto(p, "up")
    /\ UNCHANGED <<key, late>>

\* The renewal's EXPIRE, which extends the key whoever holds it by now.
Extend(p) ==
    /\ pc[p] = "owner"
    /\ ttl' = IF key = None THEN ttl ELSE TTL
    /\ age' = [age EXCEPT ![p] = 0]
    /\ Goto(p, "up")
    /\ UNCHANGED <<key, late>>

\* Cancelled while it sleeps, a process stops its schedulers first.
Stop(p) ==
    /\ pc[p] = "up"
    /\ Goto(p, "stopping")
    /\ UNCHANGED <<key, ttl, age, late>>

\* The GET before the deletion.
ReadToRelease(p) ==
    /\ pc[p] = "stopping"
    /\ age' = [age EXCEPT ![p] = 0]
    /\ Goto(p, IF key = p THEN "releasing" ELSE "down")
    /\ UNCHANGED <<key, ttl, late>>

\* The DELETE, which removes the key whoever holds it by now.
Release(p) ==
    /\ pc[p] = "releasing"
    /\ key' = None
    /\ ttl' = 0
    /\ Goto(p, "down")
    /\ UNCHANGED <<age, late>>

\* The process is killed, or a call to Redis fails in the renewal.
Crash(p) ==
    /\ pc[p] # "down"
    /\ Goto(p, "down")
    /\ UNCHANGED <<key, ttl, age, late>>

\* How old a process's hold on the key can get before its next step.
Deadline(p) ==
    CASE pc[p] \in Scheduling  -> Renewal + MaxStall
      [] pc[p] = "releasing"   -> MaxStall

Ageing == {p \in Processes : pc[p] \in Scheduling \cup {"releasing"}}

\* Mutant: the key is set without EX.
TickForEver ==
    /\ \A p \in Ageing : age[p] < Deadline(p)
    /\ age' = [p \in Processes |-> IF p \in Ageing THEN age[p] + 1 ELSE age[p]]
    /\ late' = late \cup {p \in Ageing : pc[p] = "releasing" \/ age'[p] >= TTL}
    /\ UNCHANGED <<key, ttl, pc>>

\* Redis drops the key when its life is over.
Tick ==
    /\ \A p \in Ageing : age[p] < Deadline(p)
    /\ age' = [p \in Processes |-> IF p \in Ageing THEN age[p] + 1 ELSE age[p]]
    /\ late' = late \cup {p \in Ageing : pc[p] = "releasing" \/ age'[p] >= TTL}
    /\ ttl' = IF ttl > 0 THEN ttl - 1 ELSE 0
    /\ key' = IF ttl > 1 THEN key ELSE None
    /\ UNCHANGED pc

Renew(p) == ReadKey(p) \/ Extend(p)
Shutdown(p) == ReadToRelease(p) \/ Release(p)

Next ==
    \/ \E p \in Processes : Start(p) \/ Renew(p) \/ Stop(p) \/ Shutdown(p) \/ Crash(p)
    \/ Tick

\* Time passes, a supervisor restarts what is down, and a process that runs renews
\* the key or shuts down.
Fairness ==
    /\ WF_vars(Tick)
    /\ WF_vars(\E p \in Processes : Start(p))
    /\ \A p \in Processes : WF_vars(Renew(p)) /\ WF_vars(Shutdown(p))

Spec == Init /\ [][Next]_vars
FairSpec == Spec /\ Fairness

-----------------------------------------------------------------------------
(* Properties                                                              *)

\* As long as nobody overslept - renewed later than the key's life, or let time
\* pass between reading and deleting the key - at most one process schedules,
\* whatever crashes and restarts ("Run the singleton scheduler service").
OneScheduler ==
    late = {} => \A p, q \in Processes :
                    pc[p] \in Scheduling /\ pc[q] \in Scheduling => p = q

\* A process that schedules without owning the key stops doing so ("Lost scheduler
\* lock; exiting to avoid duplicate jobs").
LosersExit ==
    \A p \in Processes :
        (pc[p] \in Scheduling /\ key # p) ~> (pc[p] \notin Scheduling)

\* When nobody schedules, somebody will: a key whose owner is gone is not in the
\* way for ever (the key's EX).
SchedulingResumes ==
    (\A p \in Processes : pc[p] \notin Scheduling)
        ~> (\E p \in Processes : pc[p] \in Scheduling)

\* What the module says of itself: the scheduler service is a singleton.
Singleton ==
    \A p, q \in Processes : pc[p] \in Scheduling /\ pc[q] \in Scheduling => p = q
=============================================================================
