------------------------------ MODULE Members ------------------------------
(***************************************************************************)
(* The members of one family, the accounts they share with it, and the     *)
(* requests that change either.                                            *)
(*                                                                         *)
(* A request is three steps, each of which other requests may come         *)
(* between: its dependencies load the caller's membership and let it in;   *)
(* its handler reads what it decides on; its commit writes.  Household     *)
(* adds the family's categories and budgets and has the specification.     *)
(***************************************************************************)
EXTENDS Integers, FiniteSets

CONSTANTS
  Users,     \* those who have signed up
  Rows,      \* ids of membership rows, each used once
  Accounts,  \* the accounts that may be shared with the family
  Owner,     \* the user each belongs to
  Requests,  \* requests, each made once
  Null,
  Gone       \* stands for a row that has been deleted

Roles == {"owner", "member", "viewer"}
Statuses == {"active", "pending", "revoked"}
Memberships == [user : Users \cup {Null}, role : Roles, status : Statuses]

Exists(row) == row \notin {Null, Gone}

ASSUME MembersAssumption ==
  /\ IsFiniteSet(Rows)
  /\ Owner \in [Accounts -> Users]
  /\ Null \notin Users \cup Rows \cup Roles \cup Statuses \cup {Gone}
  /\ \A row \in Memberships : Exists(row)

VARIABLES
  members,   \* the membership table: a row, Null before it is made, Gone after it is deleted
  shares,    \* the accounts shared with the family
  requests,  \* what has become of each request
  orphaning, \* history: what has happened that may leave no owner
  strays     \* history: the accounts shared while their owner was leaving

membersVars == <<members, shares, orphaning, strays>>

ActiveOwners ==
  {m \in Rows : Exists(members[m]) /\ members[m].role = "owner" /\ members[m].status = "active"}

-----------------------------------------------------------------------------
(* A request's life *)

New == [at |-> "new"]
Over == [at |-> "over"]

ActiveRowsOf(u) ==
  {m \in Rows : Exists(members[m]) /\ members[m].user = u /\ members[m].status = "active"}

\* get_active_context takes the first row there is of the user, in no order,
\* and wants it active.  What it loaded stays in the request's session.
get_active_context(r, u, m, asked) ==
  /\ requests[r] = New
  /\ m \in ActiveRowsOf(u)
  /\ requests' = [requests EXCEPT
       ![r] = [at |-> "handler", user |-> u, row |-> m, mine |-> members[m], asked |-> asked]]

\* The handler has read what it needs, and will commit.
Proceed(r, read) ==
  requests' = [requests EXCEPT
    ![r] = [at |-> "commit", user |-> @.user, row |-> @.row, mine |-> @.mine,
            asked |-> @.asked, read |-> read]]

\* The request has been answered, by an error or after its commit.
Answer(r) == requests' = [requests EXCEPT ![r] = Over]

Handling(r, op) == requests[r].at = "handler" /\ requests[r].asked.op = op
Committing(r, op) == requests[r].at = "commit" /\ requests[r].asked.op = op

require_owner(m) == members[m].role = "owner"
require_writer(m) == members[m].role \in {"owner", "member"}

\* A row as a handler sees it: its own membership as the session has it.
Loaded(r, m) == IF m = requests[r].row THEN requests[r].mine ELSE members[m]

-----------------------------------------------------------------------------
(* Invitations *)

\* stage_membership_for_tenant: active at once for a user who has signed up,
\* a pending row without a user for anybody else.  Nothing makes it unique.
create_membership_for_tenant(r) ==
  /\ Handling(r, "create_membership")
  /\ \E m \in Rows :
       /\ members[m] = Null
       /\ members' = [members EXCEPT ![m] =
            [user |-> requests[r].asked.user, role |-> requests[r].asked.role,
             status |-> IF requests[r].asked.user = Null THEN "pending" ELSE "active"]]
  /\ Answer(r)
  /\ UNCHANGED <<shares, orphaning, strays>>

-----------------------------------------------------------------------------
(* Changes of role and status *)

\* apply_membership_update: no guard for the last owner.
apply_membership_update(r) ==
  /\ Handling(r, "update_membership")
  /\ LET m == requests[r].asked.row
     IN IF ~Exists(members[m]) THEN Answer(r) ELSE Proceed(r, Loaded(r, m))
  /\ UNCHANGED membersVars

\* The ORM writes what differs from the row it loaded; if it has something to
\* write and the row is gone, the commit fails.
update_membership_for_tenant(r) ==
  /\ Committing(r, "update_membership")
  /\ LET m == requests[r].asked.row
         read == requests[r].read
         new == requests[r].asked
         written == [members[m] EXCEPT
                       !.role = IF new.role \in {Null, read.role} THEN @ ELSE new.role,
                       !.status = IF new.status \in {Null, read.status} THEN @ ELSE new.status]
     IN IF ~Exists(members[m])
        THEN UNCHANGED <<members, orphaning>>
        ELSE /\ members' = [members EXCEPT ![m] = written]
             /\ orphaning' = IF /\ m \in ActiveOwners
                                /\ written.role # "owner" \/ written.status # "active"
                             THEN orphaning \cup {"update"} ELSE orphaning
  /\ Answer(r)
  /\ UNCHANGED <<shares, strays>>

-----------------------------------------------------------------------------
(* Leaving and being removed *)

\* Mutant: off by one.
noOwnerLeft(r, m) == Loaded(r, m).role = "owner" /\ Cardinality(ActiveOwners) < 1

\* Nobody but them owns the family, as far as the handler can see.
lastOwner(r, m) == Loaded(r, m).role = "owner" /\ Cardinality(ActiveOwners) <= 1

\* Mutant: the shares the departing user's own request can see.
sharesOfRequester(r, m) == {a \in shares : Owner[a] = requests[r].user}

\* The accounts the unsharing statement finds.
sharesOfDeparting(r, m) == {a \in shares : Owner[a] = Loaded(r, m).user}

\* delete_membership_for_tenant, up to its commit.  What it unshares is gone
\* for the others when it commits.
delete_membership_checks(r) ==
  /\ Handling(r, "delete_membership")
  /\ LET m == requests[r].asked.row
     IN IF ~Exists(members[m]) \/ lastOwner(r, m)
        THEN Answer(r)
        ELSE Proceed(r, [unshared |-> sharesOfDeparting(r, m), saw |-> shares,
                         user |-> Loaded(r, m).user, owner |-> Loaded(r, m).role = "owner",
                         owners |-> Cardinality(ActiveOwners)])
  /\ UNCHANGED membersVars

\* Deleting a row that is gone already is no error.  "overlap": an owner's row
\* goes although there are fewer owners than were counted, or none were counted.
delete_membership_for_tenant(r) ==
  /\ Committing(r, "delete_membership")
  /\ LET m == requests[r].asked.row
         read == requests[r].read
     IN /\ members' = [members EXCEPT ![m] = Gone]
        /\ shares' = shares \ read.unshared
        /\ orphaning' = IF /\ m \in ActiveOwners
                           /\ read.owner => Cardinality(ActiveOwners) < read.owners
                        THEN orphaning \cup {"overlap"} ELSE orphaning
        /\ strays' = strays \cup {a \in shares \ read.saw : Owner[a] = read.user}
  /\ Answer(r)

-----------------------------------------------------------------------------
(* Sharing an account with the family *)

\* authorize_share_target takes the first active row there is of the user and
\* turns viewers away; create_share turns a second share away.
create_share(r) ==
  /\ Handling(r, "create_account_share")
  /\ \/ ActiveRowsOf(requests[r].user) = {} /\ Answer(r)
     \/ \E m \in ActiveRowsOf(requests[r].user) :
          IF Loaded(r, m).role = "viewer" \/ requests[r].asked.account \in shares
          THEN Answer(r) ELSE Proceed(r, Null)
  /\ UNCHANGED membersVars

create_account_share(r) ==
  /\ Committing(r, "create_account_share")
  /\ LET a == requests[r].asked.account
         gone == \A m \in Rows : ~Exists(members[m]) \/ members[m].user # requests[r].user
     IN /\ shares' = shares \cup {a}
        /\ strays' = IF gone THEN strays \cup {a} ELSE strays
  /\ Answer(r)
  /\ UNCHANGED <<members, orphaning>>

-----------------------------------------------------------------------------
(* What a user may ask, once get_active_context has found row m *)

MembershipRequest(r, u) ==
  \E m \in ActiveRowsOf(u) :
    \/ /\ require_owner(m)
       /\ \/ \E invited \in Users \cup {Null}, role \in Roles :
               get_active_context(r, u, m,
                 [op |-> "create_membership", user |-> invited, role |-> role])
          \/ \E k \in Rows, role \in Roles :
               get_active_context(r, u, m,
                 [op |-> "update_membership", row |-> k, role |-> role, status |-> Null])
          \/ \E k \in Rows, status \in Statuses :
               get_active_context(r, u, m,
                 [op |-> "update_membership", row |-> k, role |-> Null, status |-> status])
    \/ \E k \in Rows :
         /\ require_owner(m) \/ k = m
         /\ get_active_context(r, u, m, [op |-> "delete_membership", row |-> k])
    \/ \E a \in Accounts :
         /\ Owner[a] = u
         /\ get_active_context(r, u, m, [op |-> "create_account_share", account |-> a])

MembershipStep(r) ==
  \/ create_membership_for_tenant(r)
  \/ apply_membership_update(r)
  \/ update_membership_for_tenant(r)
  \/ delete_membership_checks(r)
  \/ delete_membership_for_tenant(r)
  \/ create_share(r)
  \/ create_account_share(r)

-----------------------------------------------------------------------------
(* A family that has an owner keeps one: the guard against removing the    *)
(* last owner (services/tenants.py:345) does its work unless an update, by *)
(* which an owner may step down, has changed an owner's row, or another    *)
(* request took an owner away between a removal's count and its commit.    *)
OwnerRemains == orphaning = {} => ActiveOwners # {}

(* The accounts of somebody who has left the family, or was removed, are   *)
(* not shared with it any more (services/tenants.py:353), but for accounts *)
(* they shared while they were leaving.                                    *)
SharesFollowMembers ==
  \A a \in shares \ strays :
    \E m \in Rows : Exists(members[m]) /\ members[m].user = Owner[a]
=============================================================================
