------------------------------- MODULE Accounts -------------------------------
(***************************************************************************)
(* The dashboard's accounts (web/models.py UserModel, web/routes/auth.py,  *)
(* web/routes/config.py): registration and its approval, roles, the        *)
(* permanent key with which a user claims feeders, and the links mailed to *)
(* set a new password.                                                     *)
(*                                                                         *)
(* The worker serves one request at a time, so a request is one step.  What*)
(* an administrator posts names a row by its id: any id, whether a page    *)
(* lists it, listed it long ago, or never did.                             *)
(*                                                                         *)
(* A definition whose name begins with Bug is a mistake the code does not  *)
(* make: put in place of the definition below it, it breaks a property.    *)
(***************************************************************************)
EXTENDS Integers

CONSTANTS
    NoUser,     \* no such row in users
    MaxUsers,   \* bound: ids ever given
    MaxLinks    \* bound: links ever mailed

ASSUME AccountsAssumption ==
    /\ MaxUsers \in Nat /\ MaxLinks \in Nat
    /\ NoUser \notin [role : {"admin", "network_admin", "viewer"},
                      status : {"active", "pending", "denied"}, key : 0..MaxUsers]

UserIds == 1..MaxUsers
LinkIds == 1..MaxLinks
Roles == {"admin", "network_admin", "viewer"}

\* key: feeder_claim_key, or 0.  A key is a fresh uuid: the n-th one made is n.
User == [role : Roles, status : {"active", "pending", "denied"}, key : 0..MaxUsers]

VARIABLES
    users,      \* users
    nextUser,   \* the next id (AUTOINCREMENT)
    keys,       \* claim keys made
    links,      \* password_reset_tokens: whose, and whether still open
    nextLink    \* the next id of a link

accountVars == <<users, nextUser, keys, links, nextLink>>

Exists(u) == users[u] # NoUser

\* admin_required looks at the role only.  Who is pending may log in, and who is
\* denied may still be logged in.
Admins == {u \in UserIds : Exists(u) /\ users[u].role = "admin"}

\* An empty database, or one with rows from before denied users were deleted.
AccountsInit ==
    /\ \/ users = [u \in UserIds |-> NoUser] /\ nextUser = 1
       \/ /\ MaxUsers > 1
          /\ users = [u \in UserIds |->
                CASE u = 1 -> [role |-> "admin", status |-> "active", key |-> 0]
                  [] u = 2 -> [role |-> "network_admin", status |-> "denied", key |-> 0]
                  [] OTHER -> NoUser]
          /\ nextUser = 3
    /\ keys = 0
    /\ links = [l \in LinkIds |-> [user |-> 0, open |-> FALSE]]
    /\ nextLink = 1

-----------------------------------------------------------------------------
Links == <<links, nextLink>>

NewUser(role, status, key) ==
    /\ nextUser \in UserIds
    /\ users' = [users EXCEPT ![nextUser] = [role |-> role, status |-> status, key |-> key]]
    /\ nextUser' = nextUser + 1

\* Each minute, and when the process starts.
SeedDefault ==
    /\ \A u \in UserIds : ~Exists(u)
    /\ NewUser("admin", "active", 0)
    /\ UNCHANGED <<keys, Links>>

Register ==
    /\ NewUser("network_admin", "pending", 0)
    /\ UNCHANGED <<keys, Links>>

BugKeyed(row, key) == IF row.status = "active" THEN [row EXCEPT !.key = key] ELSE row

\* ensure_feeder_claim_key: only active users have one, and it stays.
Keyed(row, key) ==
    IF row.status = "active" /\ row.key = 0 THEN [row EXCEPT !.key = key] ELSE row

\* Storing a key may fail: the user is given one another time.
Ensured(u, row) ==
    LET new == Keyed(row, keys + 1)
    IN  \/ users' = [users EXCEPT ![u] = row] /\ UNCHANGED keys
        \/ /\ new # row /\ keys < MaxUsers
           /\ users' = [users EXCEPT ![u] = new]
           /\ keys' = keys + 1

CreateUser(role) ==
    /\ Admins # {}
    /\ nextUser \in UserIds
    /\ Ensured(nextUser, [role |-> role, status |-> "active", key |-> 0])
    /\ nextUser' = nextUser + 1
    /\ UNCHANGED Links

\* A user looks at the own page.
EnsureClaimKey(u) ==
    /\ Exists(u)
    /\ Ensured(u, users[u])
    /\ UNCHANGED <<nextUser, Links>>

\* Nobody looks who asks.
BugApprove(a, u, role) ==
    /\ Exists(u)
    /\ users' = [users EXCEPT ![u].status = "active", ![u].role = role]
    /\ UNCHANGED <<nextUser, keys, Links>>

\* Whoever it is is made active and given the role, the own row included.
Approve(a, u, role) ==
    /\ a \in Admins /\ Exists(u)
    /\ LET row == [users[u] EXCEPT !.status = "active", !.role = role]
       IN  IF users[u].status = "pending" THEN Ensured(u, row)
           ELSE users' = [users EXCEPT ![u] = row] /\ UNCHANGED keys
    /\ UNCHANGED <<nextUser, Links>>

Removed(S) ==
    /\ users' = [u \in UserIds |-> IF u \in S THEN NoUser ELSE users[u]]
    /\ UNCHANGED <<nextUser, keys, Links>>

\* Whoever it is is deleted, the own row included.
Deny(a, u) == a \in Admins /\ Removed({u})

PurgeDenied ==
    /\ Admins # {}
    /\ Removed({u \in UserIds : Exists(u) /\ users[u].status = "denied"})

UpdateRole(a, u, role) ==
    /\ a \in Admins /\ u # a /\ Exists(u)
    /\ users' = [users EXCEPT ![u].role = role]
    /\ UNCHANGED <<nextUser, keys, Links>>

DeleteUser(a, u) == a \in Admins /\ u # a /\ Removed({u})

-----------------------------------------------------------------------------
Accounts == <<users, nextUser, keys>>

BugMailed(u) == [links EXCEPT ![nextLink] = [user |-> u, open |-> TRUE]]

\* create_password_reset_token closes the user's earlier links.
Mailed(u) ==
    [l \in LinkIds |->
        IF l = nextLink THEN [user |-> u, open |-> TRUE]
        ELSE IF links[l].user = u THEN [links[l] EXCEPT !.open = FALSE] ELSE links[l]]

ForgotPassword(u) ==
    /\ Exists(u) /\ nextLink \in LinkIds
    /\ links' = Mailed(u)
    /\ nextLink' = nextLink + 1
    /\ UNCHANGED Accounts

\* consume_password_reset_token, which sets the password.
ResetPassword(l) ==
    /\ links[l].open
    /\ links' = [links EXCEPT ![l].open = FALSE]
    /\ UNCHANGED <<Accounts, nextLink>>

\* An hour passes.
LinkExpires(l) ==
    /\ links[l].open
    /\ links' = [links EXCEPT ![l].open = FALSE]
    /\ UNCHANGED <<Accounts, nextLink>>

AccountsNext ==
    \/ SeedDefault \/ Register \/ PurgeDenied
    \/ \E role \in Roles : CreateUser(role)
    \/ \E a \in UserIds :
         \/ EnsureClaimKey(a)
         \/ ForgotPassword(a)
         \/ \E u \in UserIds :
              \/ Deny(a, u) \/ DeleteUser(a, u)
              \/ \E role \in Roles : Approve(a, u, role) \/ UpdateRole(a, u, role)
    \/ \E l \in LinkIds : ResetPassword(l) \/ LinkExpires(l)

AccountsSpec == AccountsInit /\ [][AccountsNext]_accountVars

-----------------------------------------------------------------------------
(* Properties *)

\* Rows and links keep their types; ids beyond the next are unused.
AccountsTypeOK ==
    /\ users \in [UserIds -> User \cup {NoUser}]
    /\ nextUser \in 1..(MaxUsers + 1)
    /\ \A u \in UserIds : Exists(u) => u < nextUser
    /\ keys \in 0..MaxUsers
    /\ links \in [LinkIds -> [user : UserIds \cup {0}, open : BOOLEAN]]
    /\ nextLink \in 1..(MaxLinks + 1)

\* Whatever administrators do to one another, to pending users with their role and
\* to themselves, no request leaves the dashboard without an administrator but that
\* of the only one, about the own row (the routes that change a role and delete
\* refuse the own id, those that approve and deny do not), or a cleaning when all of
\* them had been denied.  Then it stays without one, whoever registers or asks: no
\* route makes one, and the default one is made again in an empty table only.
LastAdminStays ==
    [][/\ Admins # {} /\ Admins' = {} =>
            \/ \E a \in Admins : Admins = {a}
            \/ \A a \in Admins : users[a].status = "denied"
       /\ Admins = {} /\ Admins' # {} => \A u \in UserIds : ~Exists(u)]_users

\* A claim key is permanent, no two users have the same, and nobody has one while
\* waiting for approval.
ClaimKeysStay ==
    [][/\ \A u \in UserIds : Exists(u) /\ users[u].key # 0 =>
            users'[u] = NoUser \/ users'[u].key = users[u].key
       /\ \A u, v \in UserIds :
            users'[u] # NoUser /\ users'[v] # NoUser /\ users'[u].key = users'[v].key
              => u = v \/ users'[u].key = 0
       /\ \A u \in UserIds :
            users'[u] # NoUser /\ users'[u].status = "pending" => users'[u].key = 0]_users

\* A link that sets a password is the last one mailed to its user.
ResetsAreFresh ==
    [][\A l \in LinkIds : ResetPassword(l) =>
         \A k \in LinkIds : links[k].user = links[l].user => k <= l]_accountVars
=============================================================================
