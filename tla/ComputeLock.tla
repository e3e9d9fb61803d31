----------------------------- MODULE ComputeLock -----------------------------
(***************************************************************************)
(* A cached value with stampede protection: services/cache_stampede.py.    *)
(*                                                                         *)
(* Who finds no value, or an old one, tries to take a lock that Redis      *)
(* drops after lock_timeout; the winner computes, stores and deletes the   *)
(* lock, which carries no token.  A loser returns the old value, or polls  *)
(* for a new one.  The computation that is to follow when it gives up is   *)
(* not reached: the call of the logger before it raises TypeError.         *)
(***************************************************************************)
EXTENDS Naturals

CONSTANTS
    Getters,       \* the requests for the value, background tasks included
    LockTimeout,   \* lock_timeout
    WaitMax        \* LOCK_WAIT_MAX

ASSUME ComputeAssumption == LockTimeout \in Nat \ {0} /\ WaitMax \in Nat

VARIABLES
    cache,      \* the value: missing, old (early recompute) or fresh
    lockLeft,   \* what is left of the lock's life, 0 if it is free
    getter,     \* what each request is doing
    waited,     \* how long it has polled
    owner,      \* history: whose lock it is, if the request still works under it
    exposed     \* history: winners whose lock ran out, or was deleted by one of them

computeVars == <<cache, lockLeft, getter, waited, owner, exposed>>

ComputeTypeOK ==
    /\ cache \in {"missing", "old", "fresh"}
    /\ lockLeft \in 0..LockTimeout
    /\ getter \in [Getters ->
                      {"idle", "missed", "saw old", "waiting", "computing", "unlocking"}]
    /\ waited \in [Getters -> 0..WaitMax]
    /\ owner \subseteq Getters
    /\ exposed \subseteq Getters

ComputeInit ==
    /\ cache = "missing"
    /\ lockLeft = 0
    /\ getter = [g \in Getters |-> "idle"]
    /\ waited = [g \in Getters |-> 0]
    /\ owner = {} /\ exposed = {}

Moves(g, from, to) == getter[g] = from /\ getter' = [getter EXCEPT ![g] = to]

-----------------------------------------------------------------------------
\* The GET; a fresh value is returned.
Look(g) ==
    /\ \/ cache = "missing" /\ Moves(g, "idle", "missed")
       \/ cache = "old" /\ Moves(g, "idle", "saw old")
    /\ waited' = [waited EXCEPT ![g] = 0]
    /\ UNCHANGED <<cache, lockLeft, owner, exposed>>

\* Mutant: whoever finds no value takes the lock.
TakeLockAlways(g) ==
    /\ \/ Moves(g, "missed", "computing")
       \/ Moves(g, "saw old", "computing")
    /\ lockLeft' = LockTimeout
    /\ owner' = {g}
    /\ exposed' = exposed \ {g}
    /\ UNCHANGED <<cache, waited>>

\* SET NX EX.  The winner computes, in the background if it returns the old value.
TakeLock(g) ==
    /\ lockLeft = 0
    /\ Moves(g, "missed", "computing") \/ Moves(g, "saw old", "computing")
    /\ lockLeft' = LockTimeout
    /\ owner' = {g}
    /\ exposed' = exposed \ {g}
    /\ UNCHANGED <<cache, waited>>

LoseLock(g) ==
    /\ lockLeft > 0
    /\ Moves(g, "missed", "waiting") \/ Moves(g, "saw old", "idle")
    /\ UNCHANGED <<cache, lockLeft, waited, owner, exposed>>

\* A poll that finds a value returns it.
FindValue(g) ==
    /\ cache # "missing"
    /\ Moves(g, "waiting", "idle")
    /\ UNCHANGED <<cache, lockLeft, waited, owner, exposed>>

\* The request fails with the TypeError.
FallBack(g) ==
    /\ waited[g] = WaitMax
    /\ Moves(g, "waiting", "idle")
    /\ UNCHANGED <<cache, lockLeft, waited, owner, exposed>>

\* The computation ends and its value is stored, or fails.
Computed(g) ==
    /\ Moves(g, "computing", "unlocking")
    /\ cache' \in {cache, "fresh"}
    /\ UNCHANGED <<lockLeft, waited, owner, exposed>>

\* The lock is deleted, whoever has it by now.
DropLock(g) ==
    /\ Moves(g, "unlocking", "idle")
    /\ lockLeft' = 0
    /\ owner' = {}
    /\ exposed' = (exposed \cup (IF g \in exposed THEN owner ELSE {})) \ {g}
    /\ UNCHANGED <<cache, waited>>

LoseGetter(g) ==
    /\ getter[g] # "idle"
    /\ getter' = [getter EXCEPT ![g] = "idle"]
    /\ owner' = owner \ {g}
    /\ exposed' = exposed \ {g}
    /\ UNCHANGED <<cache, lockLeft, waited>>

ValueAges ==
    /\ cache # "missing"
    /\ cache' = IF cache = "fresh" THEN "old" ELSE "missing"
    /\ UNCHANGED <<lockLeft, getter, waited, owner, exposed>>

\* Time passes: waiters wait, and the lock comes nearer its end.
Elapse ==
    /\ \A g \in Getters : getter[g] = "waiting" => waited[g] < WaitMax
    /\ waited' = [g \in Getters |-> IF getter[g] = "waiting" THEN waited[g] + 1 ELSE waited[g]]
    /\ lockLeft' = IF lockLeft > 0 THEN lockLeft - 1 ELSE 0
    /\ owner' = IF lockLeft > 1 THEN owner ELSE {}
    /\ exposed' = IF lockLeft > 1 THEN exposed ELSE exposed \cup owner
    /\ UNCHANGED <<cache, getter>>

ComputeNext ==
    \/ \E g \in Getters :
          \/ Look(g) \/ TakeLock(g) \/ LoseLock(g) \/ FindValue(g) \/ FallBack(g)
          \/ Computed(g) \/ DropLock(g) \/ LoseGetter(g)
    \/ ValueAges
    \/ Elapse

ComputeSpec == ComputeInit /\ [][ComputeNext]_computeVars

-----------------------------------------------------------------------------
(* Properties                                                              *)

\* Two requests compute under the lock at once only if the lock of one of them ran out
\* under it, or was deleted by a request whose own lock had gone in that way before
\* ("stampede protection"): no other DELETE takes a lock from its owner.
OneUnderLock ==
    \A g, h \in Getters :
        /\ g # h
        /\ getter[g] \in {"computing", "unlocking"}
        /\ getter[h] \in {"computing", "unlocking"}
        => g \in exposed \/ h \in exposed
=============================================================================
