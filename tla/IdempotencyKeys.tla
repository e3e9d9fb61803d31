--------------------------- MODULE IdempotencyKeys ---------------------------
(***************************************************************************)
(* The Idempotency-Key decorator: middleware/idempotency.py.               *)
(*                                                                         *)
(* Requests with one key: the first claims it in Redis, runs the handler   *)
(* and stores the answer in the place of the claim, or deletes the claim   *)
(* if the handler failed; the others poll for the answer and replay it.    *)
(* A key lives a day, and no handler does.  What is stored can always be   *)
(* decoded, so the branch for a corrupt entry is not reached.              *)
(***************************************************************************)
EXTENDS Naturals

CONSTANTS
    Callers,    \* the requests that may be in progress at the same time
    Bodies,     \* the bodies that come with the key
    MaxPolls    \* the polls of a request that waits, 50

ASSUME IdempotencyAssumption == MaxPolls \in Nat \ {0}

VARIABLES
    entry,      \* what Redis holds under the key
    caller,     \* what each request is doing
    effects,    \* history: handlers that succeeded in the life of the key
    cut         \* history: the claim's owner was lost, or could not store its answer

idempotencyVars == <<entry, caller, effects, cut>>

Free == [is |-> "free"]
Claimed == [is |-> "processing"]
Stored(body) == [is |-> "answer", body |-> body]

NoCall == [step |-> "idle"]
Owning == {"running", "storing", "releasing"}

IdempotencyTypeOK ==
    /\ entry \in {Free, Claimed} \cup {Stored(body) : body \in Bodies}
    /\ caller \in [Callers -> {NoCall}
          \cup [step : Owning \cup {"reading"}, body : Bodies]
          \cup [step : {"polling"}, body : Bodies, polls : 1..MaxPolls]]
    /\ effects \in Nat
    /\ cut \in BOOLEAN

IdempotencyInit ==
    /\ entry = Free
    /\ caller = [c \in Callers |-> NoCall]
    /\ effects = 0
    /\ cut = FALSE

Doing(c, step) == caller[c].step = step
Becomes(c, step) == caller' = [caller EXCEPT ![c].step = step]
Respond(c) == caller' = [caller EXCEPT ![c] = NoCall]

-----------------------------------------------------------------------------
\* Mutant: the key is looked for, then set.
ClaimIfSeenFree(c, body) ==
    /\ Doing(c, "idle") \/ (Doing(c, "reading") /\ caller[c].body = body)
    /\ Doing(c, "idle") => entry = Free
    /\ entry' = IF Doing(c, "idle") THEN entry ELSE Claimed
    /\ caller' = [caller EXCEPT ![c] =
                    [step |-> IF Doing(c, "idle") THEN "reading" ELSE "running", body |-> body]]
    /\ UNCHANGED <<effects, cut>>

\* SET NX.
ClaimKey(c, body) ==
    /\ Doing(c, "idle")
    /\ IF entry = Free
       THEN /\ entry' = Claimed
            /\ caller' = [caller EXCEPT ![c] = [step |-> "running", body |-> body]]
       ELSE /\ UNCHANGED entry
            /\ caller' = [caller EXCEPT ![c] = [step |-> "reading", body |-> body]]
    /\ UNCHANGED <<effects, cut>>

\* The GET of a request that lost.  An answer is replayed, or refused to another body
\* (409); a claim released in the meantime makes the request fail; or it polls.
ReadEntry(c) ==
    /\ Doing(c, "reading")
    /\ IF entry = Claimed
       THEN caller' = [caller EXCEPT ![c] =
                         [step |-> "polling", body |-> caller[c].body, polls |-> 1]]
       ELSE Respond(c)
    /\ UNCHANGED <<entry, effects, cut>>

\* A poll; a request that has polled in vain, claim or no claim, is answered 409.
PollEntry(c) ==
    /\ Doing(c, "polling")
    /\ IF entry \in {Free, Claimed} /\ caller[c].polls < MaxPolls
       THEN caller' = [caller EXCEPT ![c].polls = @ + 1]
       ELSE Respond(c)
    /\ UNCHANGED <<entry, effects, cut>>

HandlerSucceeds(c) ==
    /\ Doing(c, "running")
    /\ effects' = effects + 1
    /\ Becomes(c, "storing")
    /\ UNCHANGED <<entry, cut>>

\* The answer takes the claim's place; where Redis fails or the answer is not JSON,
\* the failure is logged, the answer given, and the claim stays.
StoreAnswer(c) ==
    /\ Doing(c, "storing")
    /\ \/ entry' = Stored(caller[c].body) /\ UNCHANGED cut
       \/ cut' = TRUE /\ UNCHANGED entry
    /\ Respond(c)
    /\ UNCHANGED effects

HandlerFails(c) ==
    /\ Doing(c, "running")
    /\ Becomes(c, "releasing")
    /\ UNCHANGED <<entry, effects, cut>>

\* Mutant: the claim of a failed handler is kept.
KeepClaim(c) ==
    /\ Doing(c, "releasing")
    /\ Respond(c)
    /\ UNCHANGED <<entry, effects, cut>>

ReleaseKey(c) ==
    /\ Doing(c, "releasing")
    /\ entry' = Free
    /\ Respond(c)
    /\ UNCHANGED <<effects, cut>>

LoseCaller(c) ==
    /\ ~ Doing(c, "idle")
    /\ cut' = (cut \/ caller[c].step \in Owning)
    /\ Respond(c)
    /\ UNCHANGED <<entry, effects>>

\* The key's day is over.
ExpireKey ==
    /\ entry # Free
    /\ \A c \in Callers : caller[c].step \notin Owning
    /\ entry' = Free
    /\ effects' = 0
    /\ cut' = FALSE
    /\ UNCHANGED caller

IdempotencyNext ==
    \/ \E c \in Callers :
          \/ \E body \in Bodies : ClaimKey(c, body)
          \/ ReadEntry(c) \/ PollEntry(c)
          \/ HandlerSucceeds(c) \/ StoreAnswer(c)
          \/ HandlerFails(c) \/ ReleaseKey(c)
          \/ LoseCaller(c)
    \/ ExpireKey

IdempotencySpec == IdempotencyInit /\ [][IdempotencyNext]_idempotencyVars

-----------------------------------------------------------------------------
(* Properties                                                              *)

\* In the life of a key the handler succeeds at most once, whatever fails, is lost
\* or is retried ("atomically claim the idempotency key before executing").
OneEffect == effects <= 1

\* A claim that nobody is working for was cut off: only then are the requests that
\* come refused until the day is over, also when the handler had succeeded.
OrphanedOnlyIfCut ==
    entry = Claimed => cut \/ \E c \in Callers : caller[c].step \in Owning
=============================================================================
