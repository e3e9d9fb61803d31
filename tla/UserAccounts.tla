---------------------------- MODULE UserAccounts ----------------------------
(***************************************************************************)
(* The users that Auth0's webhooks create and update: webhooks/auth0.py.   *)
(*                                                                         *)
(* A delivery claims its event in Redis before it does anything, then      *)
(* reads the user's row and commits what follows from it.  Auth0 delivers  *)
(* an event again when it was answered with an error or not at all, and    *)
(* deliveries of several events, and of one event, run in parallel.  The   *)
(* redeliveries come within the day a claim lives.                         *)
(*                                                                         *)
(* A request with the token of an unknown user also inserts a row, but no  *)
(* new user has a membership: the request is refused and rolled back.      *)
(***************************************************************************)
EXTENDS Integers, FiniteSets

CONSTANTS
    Accounts,    \* the Auth0 user ids
    Events,      \* the events: records of an account, a type and a number
    Deliveries   \* the deliveries that may be in progress at the same time

EventTypes == {"registration", "login", "deletion"}

ASSUME AccountAssumption ==
    /\ IsFiniteSet(Events)
    /\ Events \subseteq [account : Accounts, type : EventTypes, nr : Nat]

VARIABLES
    users,       \* the committed row of each user
    claimed,     \* the events whose key is in Redis
    delivery,    \* where each delivery is, with the row it has read
    failed       \* history: events of which a delivery was answered with an error

accountVars == <<users, claimed, delivery, failed>>

\* A user's row comes with a personal organization and its owner's membership.
NoUser == [exists |-> FALSE, logins |-> 0, deleted |-> FALSE]
UserRow == [exists : BOOLEAN, logins : Nat, deleted : BOOLEAN]
NoDelivery == [step |-> "idle"]

AccountTypeOK ==
    /\ users \in [Accounts -> UserRow]
    /\ claimed \subseteq Events
    /\ delivery \in [Deliveries -> {NoDelivery}
          \cup [step : {"claimed"}, event : Events]
          \cup [step : {"read"}, event : Events, row : UserRow]]
    /\ failed \subseteq Events

AccountInit ==
    /\ users = [a \in Accounts |-> NoUser]
    /\ claimed = {}
    /\ delivery = [x \in Deliveries |-> NoDelivery]
    /\ failed = {}

Deliver(x, step) == delivery[x].step = step
Answered(x) == delivery' = [delivery EXCEPT ![x] = NoDelivery]

-----------------------------------------------------------------------------
\* Mutant: the key is neither looked for nor set.
ClaimNever(x, e) ==
    /\ Deliver(x, "idle")
    /\ delivery' = [delivery EXCEPT ![x] = [step |-> "claimed", event |-> e]]
    /\ UNCHANGED <<users, claimed, failed>>

\* check_idempotency: SET NX.  An event claimed before is answered as processed.
Claim(x, e) ==
    /\ Deliver(x, "idle")
    /\ e \notin claimed
    /\ claimed' = claimed \cup {e}
    /\ delivery' = [delivery EXCEPT ![x] = [step |-> "claimed", event |-> e]]
    /\ UNCHANGED <<users, failed>>

\* get_by_auth0_id: deleted users included.
ReadUser(x) ==
    /\ Deliver(x, "claimed")
    /\ LET e == delivery[x].event IN
          delivery' = [delivery EXCEPT ![x] =
                         [step |-> "read", event |-> e, row |-> users[e.account]]]
    /\ UNCHANGED <<users, claimed, failed>>

\* handle_user_signup: user, organization and membership in one commit, unless the
\* user exists.  auth0_id is unique: of two signups that saw no user, one fails.
SignUp(x) ==
    LET e == delivery[x].event
        taken == ~ delivery[x].row.exists /\ users[e.account].exists
    IN
    /\ Deliver(x, "read")
    /\ e.type = "registration"
    /\ users' = IF users[e.account].exists THEN users
                ELSE [users EXCEPT ![e.account] =
                        [exists |-> TRUE, logins |-> 1, deleted |-> FALSE]]
    /\ failed' = IF taken THEN failed \cup {e} ELSE failed
    /\ Answered(x)
    /\ UNCHANGED claimed

\* handle_user_login: one more than was read; an unknown user is answered as such.
LogIn(x) ==
    LET e == delivery[x].event
        row == delivery[x].row
    IN
    /\ Deliver(x, "read")
    /\ e.type = "login"
    /\ users' = IF row.exists THEN [users EXCEPT ![e.account].logins = row.logins + 1] ELSE users
    /\ Answered(x)
    /\ UNCHANGED <<claimed, failed>>

\* handle_user_deletion: the row is marked, the organization and membership stay.
DeleteUser(x) ==
    LET e == delivery[x].event IN
    /\ Deliver(x, "read")
    /\ e.type = "deletion"
    /\ users' = IF delivery[x].row.exists
                THEN [users EXCEPT ![e.account].deleted = TRUE] ELSE users
    /\ Answered(x)
    /\ UNCHANGED <<claimed, failed>>

\* Mutant: an error releases no key and is answered with success.
DeliveryErrorHidden(x) ==
    /\ ~ Deliver(x, "idle")
    /\ Answered(x)
    /\ UNCHANGED <<users, claimed, failed>>

\* An error, answered 500, or a lost process: the key stays.
DeliveryError(x) ==
    /\ ~ Deliver(x, "idle")
    /\ failed' = failed \cup {delivery[x].event}
    /\ Answered(x)
    /\ UNCHANGED <<users, claimed>>

AccountNext ==
    \E x \in Deliveries :
       \/ \E e \in Events : Claim(x, e)
       \/ ReadUser(x) \/ SignUp(x) \/ LogIn(x) \/ DeleteUser(x) \/ DeliveryError(x)

AccountSpec == AccountInit /\ [][AccountNext]_accountVars

-----------------------------------------------------------------------------
(* Properties                                                              *)

LoginEvents(a) == {e \in claimed : e.account = a /\ e.type = "login"}

\* No login is counted twice, however often its event is delivered and whatever
\* overlaps; overlapping logins, and failed ones, are counted too few times.
LoginsNotOvercounted ==
    \A a \in Accounts : users[a].logins <= 1 + Cardinality(LoginEvents(a))

\* A registration answered as processed has left a user: a registration that has
\* not, and is in nobody's hands, was answered with an error, and its redeliveries
\* will be told that it was processed.
ProcessedOrFailed ==
    \A e \in claimed :
       e.type = "registration" =>
          \/ users[e.account].exists
          \/ e \in failed
          \/ \E x \in Deliveries : delivery[x] # NoDelivery /\ delivery[x].event = e
=============================================================================
