----------------------------- MODULE SignalStore -----------------------------
(***************************************************************************)
(* What acquisition promises, with none of its sessions, locks and health: *)
(* sources publish, and a batch of what they have published is stored at   *)
(* once.  Nothing else is ever stored, nothing twice for one contract, and *)
(* nothing is taken back.  SignalAcquisition, the model of the code, is    *)
(* compared with this store.                                               *)
(***************************************************************************)
EXTENDS Naturals

CONSTANTS
    Contracts,   \* the contracts, each with its source
    Webhooks,    \* those whose source is not fetched
    Items        \* the contents sources may publish

VARIABLES
    published,   \* what each contract's source has published so far
    stored       \* how often each content is stored for each contract

vars == <<published, stored>>

Init ==
    /\ published = [c \in Contracts |-> {}]
    /\ stored = [s \in Contracts \X Items |-> 0]

Publish(c, x) ==
    /\ c \notin Webhooks
    /\ x \notin published[c]
    /\ published' = [published EXCEPT ![c] = @ \cup {x}]
    /\ UNCHANGED stored

\* What a batch may bring: contents of fetched sources that are not stored for them yet.
New == {s \in Contracts \X Items :
          s[1] \notin Webhooks /\ s[2] \in published[s[1]] /\ stored[s] = 0}

\* A batch is stored in one step.
Store(batch) ==
    /\ batch \subseteq New
    /\ stored' = [s \in Contracts \X Items |-> IF s \in batch THEN 1 ELSE stored[s]]
    /\ UNCHANGED published

Next ==
    \/ \E c \in Contracts, x \in Items : Publish(c, x)
    \/ \E batch \in SUBSET New : Store(batch)

Spec == Init /\ [][Next]_vars
=============================================================================
