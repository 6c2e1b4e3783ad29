------------------------------ MODULE PartsProofs ------------------------------
(* Theorems about Accounts, AircraftMerger and UpdateRunner, for any bounds, any *)
(* aircraft and ages.                                                            *)
EXTENDS Accounts, AircraftMerger, UpdateRunner, TLAPS

-----------------------------------------------------------------------------
(* Rows *)

Statuses == {"active", "pending", "denied"}

LEMMA NoUserNotUser == NoUser \notin User
  BY AccountsAssumption DEF User, Roles

LEMMA RowType ==
  ASSUME NEW role \in Roles, NEW status \in Statuses, NEW key \in 0..MaxUsers
  PROVE  /\ [role |-> role, status |-> status, key |-> key] \in User
         /\ [role |-> role, status |-> status, key |-> key].role = role
         /\ [role |-> role, status |-> status, key |-> key].status = status
         /\ [role |-> role, status |-> status, key |-> key].key = key
  BY DEF User, Statuses

LEMMA ApprovedRow ==
  ASSUME NEW row \in User, NEW role \in Roles
  PROVE  /\ [row EXCEPT !.status = "active", !.role = role] \in User
         /\ [row EXCEPT !.status = "active", !.role = role].role = role
         /\ [row EXCEPT !.status = "active", !.role = role].status = "active"
         /\ [row EXCEPT !.status = "active", !.role = role].key = row.key
  BY DEF User

LEMMA RoleRow ==
  ASSUME NEW row \in User, NEW role \in Roles
  PROVE  /\ [row EXCEPT !.role = role] \in User
         /\ [row EXCEPT !.role = role].status = row.status
         /\ [row EXCEPT !.role = role].key = row.key
  BY DEF User

LEMMA KeyedRow ==
  ASSUME NEW row \in User, NEW key \in 0..MaxUsers
  PROVE  /\ [row EXCEPT !.key = key] \in User
         /\ [row EXCEPT !.key = key].role = row.role
         /\ [row EXCEPT !.key = key].status = row.status
         /\ [row EXCEPT !.key = key].key = key
  BY DEF User

\* Row u becomes row, with a key the row may be given now.
Written(u, row) ==
    \E new \in User :
        /\ users' = [users EXCEPT ![u] = new]
        /\ new.role = row.role /\ new.status = row.status
        /\ \/ new.key = row.key /\ keys' = keys
           \/ /\ row.key = 0 /\ row.status = "active"
              /\ new.key = keys + 1 /\ keys' = keys + 1 /\ keys < MaxUsers

LEMMA EnsuredIsWritten ==
  ASSUME AccountsTypeOK, NEW u \in UserIds, NEW row \in User, Ensured(u, row)
  PROVE  Written(u, row)
<1>1. CASE users' = [users EXCEPT ![u] = row] /\ keys' = keys
  BY <1>1 DEF Written
<1>2. CASE /\ Keyed(row, keys + 1) # row /\ keys < MaxUsers
           /\ users' = [users EXCEPT ![u] = Keyed(row, keys + 1)]
           /\ keys' = keys + 1
  <2>1. row.status = "active" /\ row.key = 0
    BY <1>2 DEF Keyed
  <2> DEFINE n == keys + 1
             new == [row EXCEPT !.key = n]
  <2>2. n \in 0..MaxUsers
    BY <1>2, AccountsAssumption DEF AccountsTypeOK
  <2>3. users' = [users EXCEPT ![u] = new] /\ keys' = n
    BY <1>2, <2>1 DEF Keyed
  <2> HIDE DEF n
  <2>4. new \in User /\ new.role = row.role /\ new.status = row.status /\ new.key = n
    BY <2>2, KeyedRow
  <2> HIDE DEF new
  <2> QED
    BY <1>2, <2>1, <2>3, <2>4 DEF Written, n
<1> QED
  BY <1>1, <1>2 DEF Ensured

-----------------------------------------------------------------------------
(* The inductive invariant *)

\* Keys were made, are of one user, and of none who waits for approval.
KeysOfOne ==
    /\ \A u \in UserIds : Exists(u) =>
          users[u].key <= keys /\ (users[u].status = "pending" => users[u].key = 0)
    /\ \A u, v \in UserIds :
          Exists(u) /\ Exists(v) /\ users[u].key = users[v].key => u = v \/ users[u].key = 0

\* An open link is the last of its user, and links not yet mailed are nobody's.
OpenIsLast ==
    /\ \A l \in LinkIds : l >= nextLink => links[l].user = 0
    /\ \A l \in LinkIds : links[l].open =>
          /\ links[l].user # 0
          /\ \A k \in LinkIds : links[k].user = links[l].user => k <= l

AccountsInv == AccountsTypeOK /\ KeysOfOne /\ OpenIsLast

\* What an operation on rows must leave: the rules for keys.
RowsKept ==
    /\ users' \in [UserIds -> User \cup {NoUser}]
    /\ keys' \in 0..MaxUsers
    /\ KeysOfOne'
    /\ \A u \in UserIds : Exists(u) /\ users[u].key # 0 =>
          users'[u] = NoUser \/ users'[u].key = users[u].key

\* A row that is new, or that keeps its key or gets its first, is written by the rules.
LEMMA WrittenKeeps ==
  ASSUME AccountsInv, NEW u \in UserIds, NEW row \in User, Written(u, row),
         row.status = "pending" => row.key = 0,
         row.key = (IF Exists(u) THEN users[u].key ELSE 0)
  PROVE  /\ RowsKept
         /\ \A v \in UserIds \ {u} : users'[v] = users[v]
         /\ users'[u] # NoUser /\ users'[u].role = row.role /\ users'[u].status = row.status
<1>1. PICK new \in User :
        /\ users' = [users EXCEPT ![u] = new]
        /\ new.role = row.role /\ new.status = row.status
        /\ \/ new.key = row.key /\ keys' = keys
           \/ /\ row.key = 0 /\ row.status = "active"
              /\ new.key = keys + 1 /\ keys' = keys + 1 /\ keys < MaxUsers
  BY DEF Written
<1>2. /\ users \in [UserIds -> User \cup {NoUser}] /\ keys \in 0..MaxUsers
      /\ MaxUsers \in Nat /\ NoUser \notin User /\ new.key \in 0..MaxUsers /\ row.key \in 0..MaxUsers
  BY AccountsAssumption, NoUserNotUser DEF AccountsInv, AccountsTypeOK, User
<1>3. /\ users'[u] = new
      /\ \A v \in UserIds \ {u} : users'[v] = users[v]
      /\ users' \in [UserIds -> User \cup {NoUser}]
  BY <1>1, <1>2
<1>4. \A v \in UserIds : Exists(v) => users[v].key \in 0..keys
  BY <1>2 DEF AccountsInv, KeysOfOne, Exists, User
<1>5. keys' \in 0..MaxUsers /\ keys <= keys'
  BY <1>1, <1>2
<1>6. row.key \in 0..keys
  BY <1>2, <1>4
<1>7. \A v \in UserIds \ {u} : Exists(v) /\ users[v].key = new.key => new.key = 0
  <2>1. CASE new.key = row.key
    BY <2>1, <1>2, <1>6 DEF AccountsInv, KeysOfOne, Exists
  <2>2. CASE new.key = keys + 1
    BY <2>2, <1>2, <1>4
  <2> QED
    BY <1>1, <2>1, <2>2
<1>8. KeysOfOne'
  <2>1. \A v \in UserIds : Exists(v)' =>
          users'[v].key <= keys' /\ (users'[v].status = "pending" => users'[v].key = 0)
    <3>1. new.key <= keys' /\ (new.status = "pending" => new.key = 0)
      BY <1>1, <1>2, <1>6
    <3>2. \A v \in UserIds \ {u} : Exists(v) =>
            users[v].key <= keys' /\ (users[v].status = "pending" => users[v].key = 0)
      BY <1>2, <1>4, <1>5 DEF AccountsInv, KeysOfOne
    <3> QED
      BY <1>3, <3>1, <3>2 DEF Exists
  <2>2. \A v, w \in UserIds :
          Exists(v)' /\ Exists(w)' /\ users'[v].key = users'[w].key => v = w \/ users'[v].key = 0
    BY <1>3, <1>7 DEF AccountsInv, KeysOfOne, Exists
  <2> QED
    BY <2>1, <2>2 DEF KeysOfOne
<1>9. Exists(u) /\ users[u].key # 0 => users'[u].key = users[u].key
  BY <1>1, <1>3
<1> QED
  BY <1>1, <1>2, <1>3, <1>5, <1>8, <1>9 DEF RowsKept

LEMMA RemovedKeeps ==
  ASSUME AccountsInv, NEW S, Removed(S)
  PROVE  /\ RowsKept
         /\ \A u \in UserIds : users'[u] = NoUser \/ users'[u] = users[u]
         /\ \A u \in UserIds \ S : users'[u] = users[u]
<1>1. /\ \A u \in UserIds : users'[u] = NoUser \/ users'[u] = users[u]
      /\ \A u \in UserIds \ S : users'[u] = users[u]
      /\ keys' = keys
  BY DEF Removed
<1>2. users' \in [UserIds -> User \cup {NoUser}] /\ keys' \in 0..MaxUsers
  BY DEF Removed, AccountsInv, AccountsTypeOK
<1> QED
  BY <1>1, <1>2 DEF RowsKept, AccountsInv, KeysOfOne, Exists

-----------------------------------------------------------------------------
(* Each operation on rows *)

\* What an operation does to the set of administrators, as LastAdminStays has it.
AdminStep ==
    /\ Admins # {} /\ Admins' = {} =>
         \/ \E a \in Admins : Admins = {a}
         \/ \A a \in Admins : users[a].status = "denied"
    /\ Admins = {} /\ Admins' # {} => \A u \in UserIds : ~Exists(u)

\* Rows are written by the rules, the next id stays one, and the last administrator
\* goes by the rules.
RowStep ==
    /\ RowsKept
    /\ nextUser' \in 1..(MaxUsers + 1)
    /\ \A u \in UserIds : Exists(u)' => u < nextUser'
    /\ AdminStep

\* Whoever administers and is not touched administers still.
LEMMA UntouchedAdministers ==
  ASSUME NEW a \in Admins, users'[a] = users[a]
  PROVE  a \in Admins'
  BY DEF Admins, Exists

\* So whoever leaves no administrator by touching one row touched the only one.
LEMMA OneTouched ==
  ASSUME NEW u, \A v \in UserIds \ {u} : users'[v] = users[v], Admins # {}
  PROVE  AdminStep
<1>1. \A a \in Admins : a \in UserIds
  BY DEF Admins
<1>2. ASSUME Admins' = {} PROVE \A a \in Admins : a = u
  BY <1>1, <1>2, UntouchedAdministers
<1> QED
  BY <1>2 DEF AdminStep

LEMMA NewUserStep ==
  ASSUME AccountsInv, NEW role \in Roles, NEW status \in Statuses,
         NewUser(role, status, 0), keys' = keys,
         role = "admin" => \A u \in UserIds : ~Exists(u)
  PROVE  RowStep
<1> DEFINE row == [role |-> role, status |-> status, key |-> 0]
<1>1. /\ MaxUsers \in Nat /\ NoUser \notin User /\ 0 \in 0..MaxUsers
      /\ nextUser \in UserIds /\ ~Exists(nextUser) /\ nextUser' = nextUser + 1
      /\ users' = [users EXCEPT ![nextUser] = row]
  BY AccountsAssumption, NoUserNotUser DEF NewUser, AccountsInv, AccountsTypeOK, UserIds
<1>2. row \in User /\ row.role = role /\ row.status = status /\ row.key = 0
  BY <1>1, RowType
<1> HIDE DEF row
<1>3. Written(nextUser, row)
  BY <1>1, <1>2 DEF Written
<1>4. /\ RowsKept
      /\ \A v \in UserIds \ {nextUser} : users'[v] = users[v]
      /\ users'[nextUser] # NoUser
      /\ users'[nextUser].role = role /\ users'[nextUser].status = status
  BY <1>1, <1>2, <1>3, WrittenKeeps
<1>5. nextUser' \in 1..(MaxUsers + 1)
  BY <1>1 DEF UserIds
<1>6. \A u \in UserIds : Exists(u)' => u < nextUser'
  BY <1>1, <1>4 DEF AccountsInv, AccountsTypeOK, Exists, UserIds
<1>7. AdminStep
  <2>1. CASE Admins # {}
    BY <1>4, <2>1, OneTouched
  <2>2. CASE Admins = {} /\ role = "admin"
    BY <2>2 DEF AdminStep
  <2>3. CASE Admins = {} /\ role # "admin"
    BY <1>4, <2>3 DEF AdminStep, Admins, Exists
  <2> QED
    BY <2>1, <2>2, <2>3
<1> QED
  BY <1>4, <1>5, <1>6, <1>7 DEF RowStep

\* What writes one row leaves everyone else's; it makes an administrator only where
\* there is one.
LEMMA WrittenStep ==
  ASSUME AccountsInv, NEW u \in UserIds, NEW row \in User, Written(u, row),
         Exists(u), row.key = users[u].key, row.status = "pending" => row.key = 0,
         UNCHANGED nextUser,
         Admins # {} \/ row.role = users[u].role
  PROVE  RowStep
<1>1. /\ RowsKept
      /\ \A v \in UserIds \ {u} : users'[v] = users[v]
      /\ users'[u] # NoUser /\ users'[u].role = row.role /\ users'[u].status = row.status
  BY WrittenKeeps
<1>2. \A v \in UserIds : Exists(v)' => Exists(v)
  BY <1>1 DEF Exists
<1>3. AdminStep
  <2>1. CASE Admins # {}
    BY <1>1, <2>1, OneTouched
  <2>2. CASE Admins = {}
    BY <1>1, <1>2, <2>2 DEF AdminStep, Admins, Exists
  <2> QED
    BY <2>1, <2>2
<1> QED
  BY <1>1, <1>2, <1>3 DEF RowStep, AccountsInv, AccountsTypeOK

LEMMA RemovedStep ==
  ASSUME AccountsInv, NEW S, Removed(S), Admins # {},
         (\E u : S = {u}) \/ \A u \in S : users[u].status = "denied"
  PROVE  RowStep
<1>1. /\ RowsKept
      /\ \A u \in UserIds : users'[u] = NoUser \/ users'[u] = users[u]
      /\ \A u \in UserIds \ S : users'[u] = users[u]
  BY RemovedKeeps
<1>2. AdminStep
  <2>1. CASE \E u : S = {u}
    BY <1>1, <2>1, OneTouched
  <2>2. CASE \A u \in S : users[u].status = "denied"
    <3>1. \A a \in Admins : a \in UserIds
      BY DEF Admins
    <3>2. ASSUME Admins' = {} PROVE \A a \in Admins : a \in S
      BY <1>1, <3>1, <3>2, UntouchedAdministers
    <3> QED
      BY <2>2, <3>2 DEF AdminStep
  <2> QED
    BY <2>1, <2>2
<1>3. nextUser' = nextUser
  BY DEF Removed
<1> QED
  BY <1>1, <1>2, <1>3 DEF RowStep, AccountsInv, AccountsTypeOK, Exists

LEMMA CreateUserStep ==
  ASSUME AccountsInv, NEW role \in Roles, CreateUser(role)
  PROVE  RowStep
<1> DEFINE row == [role |-> role, status |-> "active", key |-> 0]
<1>1. /\ MaxUsers \in Nat /\ 0 \in 0..MaxUsers
      /\ nextUser \in UserIds /\ ~Exists(nextUser) /\ nextUser' = nextUser + 1
      /\ Ensured(nextUser, row)
  BY AccountsAssumption DEF CreateUser, AccountsInv, AccountsTypeOK, UserIds
<1>2. row \in User /\ row.status = "active" /\ row.key = 0
  BY <1>1, RowType DEF Statuses
<1> HIDE DEF row
<1>3. Written(nextUser, row)
  BY <1>1, <1>2, EnsuredIsWritten DEF AccountsInv
<1>4. RowsKept /\ \A v \in UserIds \ {nextUser} : users'[v] = users[v]
  BY <1>1, <1>2, <1>3, WrittenKeeps
<1>5. nextUser' \in 1..(MaxUsers + 1)
  BY <1>1 DEF UserIds
<1>6. \A u \in UserIds : Exists(u)' => u < nextUser'
  BY <1>1, <1>4 DEF AccountsInv, AccountsTypeOK, Exists, UserIds
<1>7. AdminStep
  BY <1>4, OneTouched DEF CreateUser
<1> QED
  BY <1>4, <1>5, <1>6, <1>7 DEF RowStep

LEMMA EnsureClaimKeyStep ==
  ASSUME AccountsInv, NEW u \in UserIds, EnsureClaimKey(u)
  PROVE  RowStep
<1>1. Exists(u) /\ users[u] \in User /\ UNCHANGED nextUser
  BY DEF EnsureClaimKey, AccountsInv, AccountsTypeOK, Exists
<1>2. Written(u, users[u])
  BY <1>1, EnsuredIsWritten DEF EnsureClaimKey, AccountsInv
<1>3. users[u].status = "pending" => users[u].key = 0
  BY <1>1 DEF AccountsInv, KeysOfOne
<1> QED
  BY <1>1, <1>2, <1>3, WrittenStep

LEMMA ApproveStep ==
  ASSUME AccountsInv, NEW a \in UserIds, NEW u \in UserIds, NEW role \in Roles,
         Approve(a, u, role)
  PROVE  RowStep
<1> DEFINE row == [users[u] EXCEPT !.status = "active", !.role = role]
<1>1. /\ Admins # {} /\ Exists(u) /\ users[u] \in User
      /\ UNCHANGED nextUser
      /\ Ensured(u, row) \/ (users' = [users EXCEPT ![u] = row] /\ keys' = keys)
  BY DEF Approve, AccountsInv, AccountsTypeOK, Exists
<1>2. row \in User /\ row.status = "active" /\ row.key = users[u].key
  BY <1>1, ApprovedRow
<1> HIDE DEF row
<1>3. Written(u, row)
  BY <1>1, <1>2, EnsuredIsWritten DEF AccountsInv, Written
<1> QED
  BY <1>1, <1>2, <1>3, WrittenStep

LEMMA UpdateRoleStep ==
  ASSUME AccountsInv, NEW a \in UserIds, NEW u \in UserIds, NEW role \in Roles,
         UpdateRole(a, u, role)
  PROVE  RowStep
<1> DEFINE row == [users[u] EXCEPT !.role = role]
<1>1. /\ Admins # {} /\ Exists(u) /\ users[u] \in User
      /\ UNCHANGED nextUser
      /\ users' = [users EXCEPT ![u] = row] /\ keys' = keys
  BY DEF UpdateRole, AccountsInv, AccountsTypeOK, Exists
<1>2. row \in User /\ row.status = users[u].status /\ row.key = users[u].key
  BY <1>1, RoleRow
<1> HIDE DEF row
<1>3. Written(u, row)
  BY <1>1, <1>2 DEF Written
<1>4. row.status = "pending" => row.key = 0
  BY <1>1, <1>2 DEF AccountsInv, KeysOfOne
<1> QED
  BY <1>1, <1>2, <1>3, <1>4, WrittenStep

-----------------------------------------------------------------------------
(* Links *)

LinksType ==
    /\ links \in [LinkIds -> [user : UserIds \cup {0}, open : BOOLEAN]]
    /\ nextLink \in 1..(MaxLinks + 1)

LEMMA LinkOf ==
  ASSUME NEW u \in UserIds \cup {0}, NEW b \in BOOLEAN
  PROVE  /\ [user |-> u, open |-> b] \in [user : UserIds \cup {0}, open : BOOLEAN]
         /\ [user |-> u, open |-> b].user = u
         /\ [user |-> u, open |-> b].open = b
  OBVIOUS

LEMMA LinkClosed ==
  ASSUME NEW k \in [user : UserIds \cup {0}, open : BOOLEAN]
  PROVE  /\ [k EXCEPT !.open = FALSE] \in [user : UserIds \cup {0}, open : BOOLEAN]
         /\ [k EXCEPT !.open = FALSE].user = k.user
         /\ [k EXCEPT !.open = FALSE].open = FALSE
  OBVIOUS

\* A link that is used or expires is closed; it stays its user's.
LEMMA CloseStep ==
  ASSUME AccountsInv, NEW l \in LinkIds, links' = [links EXCEPT ![l].open = FALSE],
         nextLink' = nextLink
  PROVE  LinksType' /\ OpenIsLast'
<1> DEFINE closed == [links[l] EXCEPT !.open = FALSE]
<1>1. links \in [LinkIds -> [user : UserIds \cup {0}, open : BOOLEAN]]
  BY DEF AccountsInv, AccountsTypeOK
<1>2. /\ closed \in [user : UserIds \cup {0}, open : BOOLEAN]
      /\ closed.user = links[l].user /\ closed.open = FALSE
  BY <1>1, LinkClosed
<1>3. links' = [links EXCEPT ![l] = closed]
  OBVIOUS
<1> HIDE DEF closed
<1>4. /\ links' \in [LinkIds -> [user : UserIds \cup {0}, open : BOOLEAN]]
      /\ \A k \in LinkIds : links'[k].user = links[k].user /\ (links'[k].open => links[k].open)
  BY <1>1, <1>2, <1>3
<1> QED
  BY <1>4 DEF LinksType, OpenIsLast, AccountsInv, AccountsTypeOK

LEMMA ForgotPasswordStep ==
  ASSUME AccountsInv, NEW u \in UserIds, ForgotPassword(u)
  PROVE  LinksType' /\ OpenIsLast'
<1>1. /\ links \in [LinkIds -> [user : UserIds \cup {0}, open : BOOLEAN]]
      /\ nextLink \in LinkIds /\ nextLink' = nextLink + 1
      /\ MaxLinks \in Nat /\ nextLink \in 1..MaxLinks /\ u # 0
  BY AccountsAssumption DEF ForgotPassword, AccountsInv, AccountsTypeOK, LinkIds, UserIds
<1>2. links' = [l \in LinkIds |->
                  IF l = nextLink THEN [user |-> u, open |-> TRUE]
                  ELSE IF links[l].user = u THEN [links[l] EXCEPT !.open = FALSE] ELSE links[l]]
  BY DEF ForgotPassword, Mailed
<1>3. \A l \in LinkIds :
        /\ links'[l] \in [user : UserIds \cup {0}, open : BOOLEAN]
        /\ l = nextLink => links'[l].user = u
        /\ l # nextLink => /\ links'[l].user = links[l].user
                           /\ links'[l].open => links[l].open /\ links[l].user # u
  <2> SUFFICES ASSUME NEW l \in LinkIds
               PROVE  /\ links'[l] \in [user : UserIds \cup {0}, open : BOOLEAN]
                      /\ l = nextLink => links'[l].user = u
                      /\ l # nextLink => /\ links'[l].user = links[l].user
                                         /\ links'[l].open => links[l].open /\ links[l].user # u
    OBVIOUS
  <2>1. CASE l = nextLink
    BY <1>2, <2>1, LinkOf
  <2>2. CASE l # nextLink /\ links[l].user = u
    <3>1. links'[l] = [links[l] EXCEPT !.open = FALSE]
      BY <1>2, <2>2
    <3>2. links[l] \in [user : UserIds \cup {0}, open : BOOLEAN]
      BY <1>1
    <3>3. /\ links'[l] \in [user : UserIds \cup {0}, open : BOOLEAN]
          /\ links'[l].user = links[l].user /\ links'[l].open = FALSE
      BY <3>1, <3>2, LinkClosed
    <3> QED
      BY <2>2, <3>3
  <2>3. CASE l # nextLink /\ links[l].user # u
    BY <1>1, <1>2, <2>3
  <2> QED
    BY <2>1, <2>2, <2>3
<1>4. links' \in [LinkIds -> [user : UserIds \cup {0}, open : BOOLEAN]]
  <2>1. links' = [l \in LinkIds |-> links'[l]]
    BY <1>2
  <2> QED
    BY <1>3, <2>1
<1>5. nextLink' \in 1..(MaxLinks + 1)
  BY <1>1
<1>6. OpenIsLast'
  <2>1. \A l \in LinkIds : l >= nextLink' => links'[l].user = 0
    <3> SUFFICES ASSUME NEW l \in LinkIds, l >= nextLink'
                 PROVE  links'[l].user = 0
      OBVIOUS
    <3>1. l # nextLink /\ l >= nextLink
      BY <1>1 DEF LinkIds
    <3> QED
      BY <1>3, <3>1 DEF AccountsInv, OpenIsLast
  <2>2. ASSUME NEW l \in LinkIds, links'[l].open
        PROVE  links'[l].user # 0 /\ \A k \in LinkIds : links'[k].user = links'[l].user => k <= l
    <3>1. CASE l = nextLink
      <4>1. \A k \in LinkIds : k > l => links'[k].user = 0
        <5> SUFFICES ASSUME NEW k \in LinkIds, k > l
                     PROVE  links'[k].user = 0
          OBVIOUS
        <5>1. k # nextLink /\ k >= nextLink
          BY <3>1, <1>1 DEF LinkIds
        <5> QED
          BY <1>3, <5>1 DEF AccountsInv, OpenIsLast
      <4>2. links'[l].user = u
        BY <1>3, <3>1
      <4> QED
        BY <1>1, <4>1, <4>2 DEF LinkIds
    <3>2. CASE l # nextLink
      <4>1. links[l].open /\ links[l].user # u /\ links'[l].user = links[l].user
        BY <1>3, <2>2, <3>2
      <4>2. \A k \in LinkIds : links'[k].user = links'[l].user => links[k].user = links[l].user
        BY <1>3, <4>1
      <4> QED
        BY <4>1, <4>2 DEF AccountsInv, OpenIsLast
    <3> QED
      BY <3>1, <3>2
  <2> QED
    BY <2>1, <2>2 DEF OpenIsLast
<1> QED
  BY <1>4, <1>5, <1>6 DEF LinksType

-----------------------------------------------------------------------------
(* Every step *)

\* An operation leaves rows and administrators by the rules, or leaves them alone; and
\* so for links.
LEMMA StepKeeps ==
  ASSUME AccountsInv, AccountsNext
  PROVE  /\ RowStep \/ UNCHANGED <<users, nextUser, keys>>
         /\ (LinksType' /\ OpenIsLast') \/ UNCHANGED <<links, nextLink>>
<1> USE DEF Links, Accounts
<1>1. CASE SeedDefault
  <2>1. "admin" \in Roles /\ "active" \in Statuses
    BY DEF Roles, Statuses
  <2> QED
    BY <1>1, <2>1, NewUserStep DEF SeedDefault
<1>2. CASE Register
  <2>1. "network_admin" \in Roles /\ "pending" \in Statuses /\ "network_admin" # "admin"
    BY DEF Roles, Statuses
  <2> QED
    BY <1>2, <2>1, NewUserStep DEF Register
<1>3. CASE PurgeDenied
  <2> DEFINE S == {u \in UserIds : Exists(u) /\ users[u].status = "denied"}
  <2>1. Admins # {} /\ Removed(S) /\ \A u \in S : users[u].status = "denied"
    BY <1>3 DEF PurgeDenied
  <2> HIDE DEF S
  <2>2. RowStep
    BY <2>1, RemovedStep
  <2> QED
    BY <2>1, <2>2 DEF Removed
<1>4. ASSUME NEW role \in Roles, CreateUser(role)
      PROVE  RowStep /\ UNCHANGED <<links, nextLink>>
  BY <1>4, CreateUserStep DEF CreateUser
<1>5. ASSUME NEW a \in UserIds, EnsureClaimKey(a)
      PROVE  RowStep /\ UNCHANGED <<links, nextLink>>
  BY <1>5, EnsureClaimKeyStep DEF EnsureClaimKey
<1>6. ASSUME NEW a \in UserIds, ForgotPassword(a)
      PROVE  LinksType' /\ OpenIsLast' /\ UNCHANGED <<users, nextUser, keys>>
  BY <1>6, ForgotPasswordStep DEF ForgotPassword
<1>7. ASSUME NEW a \in UserIds, NEW u \in UserIds, Deny(a, u) \/ DeleteUser(a, u)
      PROVE  RowStep /\ UNCHANGED <<links, nextLink>>
  <2> DEFINE S == {u}
  <2>1. Admins # {} /\ Removed(S) /\ \E v : S = {v}
    BY <1>7 DEF Deny, DeleteUser
  <2> HIDE DEF S
  <2>2. RowStep
    BY <2>1, RemovedStep
  <2> QED
    BY <2>1, <2>2 DEF Removed
<1>8. ASSUME NEW a \in UserIds, NEW u \in UserIds, NEW role \in Roles,
             Approve(a, u, role) \/ UpdateRole(a, u, role)
      PROVE  RowStep /\ UNCHANGED <<links, nextLink>>
  BY <1>8, ApproveStep, UpdateRoleStep DEF Approve, UpdateRole
<1>9. ASSUME NEW l \in LinkIds, ResetPassword(l) \/ LinkExpires(l)
      PROVE  LinksType' /\ OpenIsLast' /\ UNCHANGED <<users, nextUser, keys>>
  BY <1>9, CloseStep DEF ResetPassword, LinkExpires
<1> QED
  BY <1>1, <1>2, <1>3, <1>4, <1>5, <1>6, <1>7, <1>8, <1>9
  DEF AccountsNext, SeedDefault, Register

LEMMA InitInv == AccountsInit => AccountsInv
<1> SUFFICES ASSUME AccountsInit PROVE AccountsInv
  OBVIOUS
<1> DEFINE first == [role |-> "admin", status |-> "active", key |-> 0]
           second == [role |-> "network_admin", status |-> "denied", key |-> 0]
<1>1. MaxUsers \in Nat /\ MaxLinks \in Nat /\ NoUser \notin User /\ 0 \in 0..MaxUsers
  BY AccountsAssumption, NoUserNotUser
<1>2. first \in User /\ second \in User
  BY <1>1, RowType DEF Roles, Statuses
<1>3. \/ \A u \in UserIds : users[u] = NoUser
      \/ \A u \in UserIds : /\ users[u] = NoUser \/ users[u] = first \/ users[u] = second
                            /\ u = 1 => users[u] = first
                            /\ u = 2 => users[u] = second
                            /\ u # 1 /\ u # 2 => users[u] = NoUser
  BY DEF AccountsInit
<1>4. users \in [UserIds -> User \cup {NoUser}]
  <2>1. users = [u \in UserIds |-> users[u]]
    BY DEF AccountsInit
  <2>2. \A u \in UserIds : users[u] \in User \cup {NoUser}
    BY <1>2, <1>3
  <2> QED
    BY <2>1, <2>2
<1>5. nextUser \in 1..(MaxUsers + 1) /\ \A u \in UserIds : Exists(u) => u < nextUser
  <2>1. CASE users = [u \in UserIds |-> NoUser] /\ nextUser = 1
    BY <1>1, <2>1 DEF Exists
  <2>2. CASE MaxUsers > 1 /\ nextUser = 3
    <3>1. \A u \in UserIds : Exists(u) => u = 1 \/ u = 2
      BY <1>3 DEF Exists
    <3> QED
      BY <1>1, <2>2, <3>1
  <2> QED
    BY <2>1, <2>2 DEF AccountsInit
<1>6. keys = 0 /\ KeysOfOne
  <2>1. keys = 0
    BY DEF AccountsInit
  <2>2. \A u \in UserIds : Exists(u) => users[u].key = 0
    BY <1>3 DEF Exists
  <2> QED
    BY <2>1, <2>2 DEF KeysOfOne
<1>7. LinksType /\ OpenIsLast
  <2>1. links = [l \in LinkIds |-> [user |-> 0, open |-> FALSE]] /\ nextLink = 1
    BY DEF AccountsInit
  <2>2. \A l \in LinkIds : links[l].user = 0 /\ links[l].open = FALSE
    BY <2>1
  <2>3. links \in [LinkIds -> [user : UserIds \cup {0}, open : BOOLEAN]]
    BY <2>1
  <2> QED
    BY <1>1, <2>1, <2>2, <2>3 DEF LinksType, OpenIsLast
<1> QED
  BY <1>1, <1>4, <1>5, <1>6, <1>7 DEF AccountsInv, AccountsTypeOK, LinksType

LEMMA StepInv ==
  ASSUME AccountsInv, [AccountsNext]_accountVars
  PROVE  AccountsInv'
<1>1. CASE UNCHANGED accountVars
  BY <1>1 DEF AccountsInv, AccountsTypeOK, KeysOfOne, OpenIsLast, Exists, accountVars
<1>2. CASE AccountsNext
  <2>1. /\ RowStep \/ UNCHANGED <<users, nextUser, keys>>
        /\ (LinksType' /\ OpenIsLast') \/ UNCHANGED <<links, nextLink>>
    BY <1>2, StepKeeps
  <2>2. /\ users' \in [UserIds -> User \cup {NoUser}] /\ keys' \in 0..MaxUsers
        /\ nextUser' \in 1..(MaxUsers + 1)
        /\ \A u \in UserIds : Exists(u)' => u < nextUser'
        /\ KeysOfOne'
    <3>1. CASE RowStep
      BY <3>1 DEF RowStep, RowsKept
    <3>2. CASE UNCHANGED <<users, nextUser, keys>>
      BY <3>2 DEF AccountsInv, AccountsTypeOK, KeysOfOne, Exists
    <3> QED
      BY <2>1, <3>1, <3>2
  <2>3. LinksType' /\ OpenIsLast'
    BY <2>1 DEF AccountsInv, AccountsTypeOK, LinksType, OpenIsLast
  <2> QED
    BY <2>2, <2>3 DEF AccountsInv, AccountsTypeOK, LinksType
<1> QED
  BY <1>1, <1>2

-----------------------------------------------------------------------------
(* Theorems *)

\* The invariant above holds throughout.
THEOREM AccountsInvHolds == AccountsSpec => []AccountsInv
  BY InitInv, StepInv, PTL DEF AccountsSpec

\* Rows and links keep their types; ids beyond the next are unused.
THEOREM AccountsTypeCorrect == AccountsSpec => []AccountsTypeOK
<1>1. AccountsInv => AccountsTypeOK
  BY DEF AccountsInv
<1> QED
  BY <1>1, AccountsInvHolds, PTL

\* The dashboard is left without an administrator only by the last one, about the own
\* row, or by a cleaning after all were denied; then only an empty table gets one again.
THEOREM TheLastAdminStays == AccountsSpec => LastAdminStays
<1>1. AccountsInv /\ [AccountsNext]_accountVars =>
        [/\ Admins # {} /\ Admins' = {} =>
              \/ \E a \in Admins : Admins = {a}
              \/ \A a \in Admins : users[a].status = "denied"
         /\ Admins = {} /\ Admins' # {} => \A u \in UserIds : ~Exists(u)]_users
  <2> SUFFICES ASSUME AccountsInv, AccountsNext, users' # users
               PROVE  AdminStep
    BY DEF AdminStep, accountVars
  <2> QED
    BY StepKeeps DEF RowStep
<1> QED
  BY <1>1, AccountsInvHolds, PTL DEF AccountsSpec, LastAdminStays

\* A claim key is permanent, nobody else's, and nobody's who waits for approval.
THEOREM KeysStay == AccountsSpec => ClaimKeysStay
<1>1. AccountsInv /\ AccountsInv' /\ [AccountsNext]_accountVars =>
        [/\ \A u \in UserIds : Exists(u) /\ users[u].key # 0 =>
               users'[u] = NoUser \/ users'[u].key = users[u].key
         /\ \A u, v \in UserIds :
               users'[u] # NoUser /\ users'[v] # NoUser /\ users'[u].key = users'[v].key
                 => u = v \/ users'[u].key = 0
         /\ \A u \in UserIds :
               users'[u] # NoUser /\ users'[u].status = "pending" => users'[u].key = 0]_users
  <2> SUFFICES ASSUME AccountsInv, AccountsInv', AccountsNext, users' # users
               PROVE  /\ \A u \in UserIds : Exists(u) /\ users[u].key # 0 =>
                            users'[u] = NoUser \/ users'[u].key = users[u].key
                      /\ KeysOfOne'
    BY DEF KeysOfOne, Exists, accountVars
  <2>1. RowStep
    BY StepKeeps
  <2> QED
    BY <2>1 DEF RowStep, RowsKept
<1> QED
  BY <1>1, AccountsInvHolds, PTL DEF AccountsSpec, ClaimKeysStay

\* A link that sets a password is the last one mailed to its user.
THEOREM LastLinkResets == AccountsSpec => ResetsAreFresh
<1>1. AccountsInv /\ [AccountsNext]_accountVars =>
        [\A l \in LinkIds : ResetPassword(l) =>
           \A k \in LinkIds : links[k].user = links[l].user => k <= l]_accountVars
  BY DEF AccountsInv, OpenIsLast, ResetPassword
<1> QED
  BY <1>1, AccountsInvHolds, PTL DEF AccountsSpec, ResetsAreFresh

-----------------------------------------------------------------------------
(* What the merger takes for recent *)

Ages == 0..(Stale + 1)

SetsInv ==
    /\ book \subseteq Craft /\ received \subseteq Craft /\ remote \subseteq Craft
    /\ doomed \subseteq Craft

\* A time that is kept is that of the last message; one that is not is old, or lost.
HeardOf(h) ==
    /\ lastMsg[h] \in Ages
    /\ heard[h] = Unheard \/ heard[h] = lastMsg[h]
    /\ h \in lost <=> heard[h] = Unheard /\ lastMsg[h] <= Stale

HeardInv ==
    /\ heard \in [Craft -> Ages \cup {Unheard}]
    /\ lastMsg \in [Craft -> Ages]
    /\ lost \subseteq Craft
    /\ \A h \in Craft : HeardOf(h)

LEMMA AgesKept ==
  /\ 0 \in Ages /\ Stale + 1 \in Ages /\ Unheard \notin Ages
  /\ \A age \in Ages : Older(age) \in Ages /\ (age > Stale => Older(age) = age)
  /\ Older(Unheard) = Unheard
  BY MergerAssumption DEF Ages, Older

LEMMA SetsStep ==
  ASSUME SetsInv, [MergerNext]_mergerVars
  PROVE  SetsInv'
  BY DEF SetsInv, MergerNext, mergerVars, reader, loop, SbsConnects, SbsMessage, SbsPublish, SbsEnds,
         Fetch, TakeSnapshot, Merge, PurgeLook, PurgeDelete, Publish, Toggle, RestartMerger, Tick

LEMMA ForgottenHeard ==
  ASSUME heard' = Never, lastMsg' \in [Craft -> Ages],
         lost' = {h \in Craft : lastMsg'[h] <= Stale}
  PROVE  HeardInv'
  BY DEF Never, HeardInv, HeardOf

LEMMA InitHeard == MergerInit => HeardInv
<1> SUFFICES ASSUME MergerInit PROVE HeardInv
  OBVIOUS
<1>1. heard = Never /\ lastMsg = [h \in Craft |-> Stale + 1] /\ lost = {}
  BY DEF MergerInit
<1> QED
  BY <1>1, AgesKept, MergerAssumption DEF Never, HeardInv, HeardOf, Ages

LEMMA StepHeard ==
  ASSUME HeardInv, SetsInv, [MergerNext]_mergerVars
  PROVE  HeardInv'
<1>1. CASE UNCHANGED <<heard, lastMsg, lost>>
  BY <1>1 DEF HeardInv, HeardOf
<1>2. ASSUME NEW h \in Craft, SbsMessage(h)
      PROVE  HeardInv'
  <2>1. /\ heard' = [heard EXCEPT ![h] = 0] /\ lastMsg' = [lastMsg EXCEPT ![h] = 0]
        /\ lost' = lost \ {h}
    BY <1>2 DEF SbsMessage
  <2> QED
    BY <2>1, AgesKept DEF HeardInv, HeardOf
<1>3. CASE TakeSnapshot
  <2>1. CASE on
    BY <1>1, <1>3, <2>1 DEF TakeSnapshot
  <2>2. CASE ~on
    <3>1. heard' = Never /\ lastMsg' = lastMsg /\ lost' = {h \in Craft : lastMsg[h] <= Stale}
      BY <1>3, <2>2 DEF TakeSnapshot
    <3> QED
      BY <3>1, ForgottenHeard DEF HeardInv
  <2> QED
    BY <2>1, <2>2
<1>4. CASE PurgeDelete
  <2>1. /\ heard' = [h \in Craft |-> IF h \in doomed THEN Unheard ELSE heard[h]]
        /\ lastMsg' = lastMsg
        /\ lost' = lost \cup {h \in doomed : lastMsg[h] <= Stale}
    BY <1>4 DEF PurgeDelete
  <2>2. doomed \subseteq Craft
    BY DEF SetsInv
  <2> QED
    BY <2>1, <2>2, AgesKept DEF HeardInv, HeardOf
<1>5. CASE RestartMerger
  <2>1. heard' = Never /\ lastMsg' = [h \in Craft |-> Stale + 1] /\ lost' = {}
    BY <1>5 DEF RestartMerger
  <2> QED
    BY <2>1, AgesKept, MergerAssumption DEF Never, HeardInv, HeardOf, Ages
<1>6. CASE Tick
  <2>1. /\ heard' = [h \in Craft |-> Older(heard[h])]
        /\ lastMsg' = [h \in Craft |-> Older(lastMsg[h])]
        /\ lost' = {h \in lost : lastMsg'[h] <= Stale}
    BY <1>6 DEF Tick
  <2>2. heard' \in [Craft -> Ages \cup {Unheard}] /\ lastMsg' \in [Craft -> Ages]
    BY <2>1, AgesKept DEF HeardInv
  <2>3. ASSUME NEW h \in Craft
        PROVE  HeardOf(h)'
    <3>1. heard'[h] = Older(heard[h]) /\ lastMsg'[h] = Older(lastMsg[h])
      BY <2>1
    <3>2. lastMsg[h] \in Ages /\ (heard[h] = Unheard \/ heard[h] = lastMsg[h])
      BY DEF HeardInv, HeardOf
    <3>3. lastMsg'[h] <= Stale => lastMsg[h] <= Stale
      BY <3>1, <3>2, MergerAssumption DEF Older, Ages
    <3>4. heard'[h] = Unheard <=> heard[h] = Unheard
      BY <3>1, <3>2, AgesKept
    <3> QED
      BY <2>1, <2>2, <3>1, <3>2, <3>3, <3>4 DEF HeardInv, HeardOf
  <2> QED
    BY <2>1, <2>2, <2>3 DEF HeardInv
<1> QED
  BY <1>1, <1>2, <1>3, <1>4, <1>5, <1>6
     DEF MergerNext, mergerVars, SbsConnects, SbsPublish, SbsEnds, PurgeLook, Fetch, Merge,
         Publish, Toggle

\* What is taken from ADSBHub is what was heard within Stale seconds, but for what was lost.
THEOREM MergesTheRecent == MergerSpec => MergedIsRecent
<1>1. ASSUME HeardInv, SetsInv, Merge
      PROVE  merged' = {h \in remote \ local : lastMsg[h] <= Stale} \ lost
  BY <1>1, MergerAssumption DEF Merge, Recent, SetsInv, HeardInv, HeardOf
<1>2. MergerInit => SetsInv
  BY DEF MergerInit, SetsInv
<1> QED
  BY <1>1, <1>2, InitHeard, StepHeard, SetsStep, PTL DEF MergerSpec, MergedIsRecent

-----------------------------------------------------------------------------
(* What a page is shown of an update *)

Line == [of : Nat, last : BOOLEAN]

\* The queue is of the last update.  Behind a line that ends a page are only such; the
\* thread that put one adds no other, or has finished or been lost.
QueueInv ==
    /\ updateQueue \in Seq(Line)
    /\ update \in Nat
    /\ updateThread # "none" => updateRunning
    /\ \A i \in 1..Len(updateQueue) :
         /\ updateQueue[i].of = update
         /\ updateQueue[i].last =>
              /\ updateThread \notin {"start", "follow"}
              /\ \A j \in 1..Len(updateQueue) : i <= j => updateQueue[j].last

LEMMA PutKeeps ==
  ASSUME QueueInv, NEW last \in BOOLEAN, PutLine(last), updateThread # "none",
         update' = update, updateRunning' = updateRunning,
         last => updateThread' \notin {"start", "follow"},
         ~last => updateThread \in {"start", "follow"}
  PROVE  QueueInv'
<1> DEFINE line == [of |-> update, last |-> last]
<1>1. line \in Line /\ line.of = update /\ line.last = last
  BY DEF QueueInv, Line
<1>2. updateQueue' = Append(updateQueue, line)
  BY DEF PutLine
<1> HIDE DEF line
<1>3. /\ updateQueue' \in Seq(Line) /\ Len(updateQueue') = Len(updateQueue) + 1
      /\ Len(updateQueue) \in Nat
      /\ \A i \in 1..Len(updateQueue) : updateQueue'[i] = updateQueue[i]
      /\ updateQueue'[Len(updateQueue')] = line
  BY <1>1, <1>2 DEF QueueInv
<1>4. \A i \in 1..Len(updateQueue') : i \in 1..Len(updateQueue) \/ i = Len(updateQueue')
  BY <1>3
<1>5. \A i \in 1..Len(updateQueue) : updateQueue[i].last => last
  BY DEF QueueInv
<1>6. \A i \in 1..Len(updateQueue') : updateQueue'[i].of = update
  BY <1>1, <1>3, <1>4 DEF QueueInv
<1>7. ASSUME NEW i \in 1..Len(updateQueue'), updateQueue'[i].last
      PROVE  last
  BY <1>1, <1>3, <1>4, <1>5, <1>7
<1>8. ASSUME NEW i \in 1..Len(updateQueue'), updateQueue'[i].last,
             NEW j \in 1..Len(updateQueue'), i <= j
      PROVE  updateQueue'[j].last
  <2>1. CASE j = Len(updateQueue')
    BY <1>1, <1>3, <1>7, <1>8, <2>1
  <2>2. CASE j \in 1..Len(updateQueue)
    <3>1. i \in 1..Len(updateQueue)
      BY <1>3, <1>8, <2>2
    <3> QED
      BY <1>3, <1>8, <2>2, <3>1 DEF QueueInv
  <2> QED
    BY <1>4, <2>1, <2>2
<1>9. updateThread' # "none" => updateRunning'
  BY DEF QueueInv
<1>10. update' \in Nat
  BY DEF QueueInv
<1> QED
  BY <1>3, <1>6, <1>7, <1>8, <1>9, <1>10 DEF QueueInv

LEMMA TakeLine ==
  ASSUME QueueInv, updateQueue # <<>>, updateQueue' = Tail(updateQueue),
         UNCHANGED <<update, updateRunning, updateThread>>
  PROVE  QueueInv'
<1>1. /\ updateQueue' \in Seq(Line) /\ Len(updateQueue') = Len(updateQueue) - 1
      /\ Len(updateQueue) \in Nat
      /\ \A i \in 1..Len(updateQueue') : updateQueue'[i] = updateQueue[i + 1]
  BY DEF QueueInv
<1>2. \A i \in 1..Len(updateQueue') : i + 1 \in 1..Len(updateQueue)
  BY <1>1
<1>3. \A i, j \in 1..Len(updateQueue') : i <= j => i + 1 <= j + 1
  OBVIOUS
<1>4. \A i \in 1..Len(updateQueue') :
        /\ updateQueue'[i].of = update
        /\ updateQueue'[i].last =>
             /\ updateThread \notin {"start", "follow"}
             /\ \A j \in 1..Len(updateQueue') : i <= j => updateQueue'[j].last
  BY <1>1, <1>2, <1>3 DEF QueueInv
<1> QED
  BY <1>1, <1>4 DEF QueueInv

LEMMA ClearQueue ==
  ASSUME updateQueue' = <<>>, update' \in Nat, updateThread' # "none" => updateRunning'
  PROVE  QueueInv'
  BY DEF QueueInv

LEMMA StepQueue ==
  ASSUME QueueInv, [UpdateNext]_updateVars
  PROVE  QueueInv'
<1>1. CASE UNCHANGED <<updateQueue, update, updateThread, updateRunning>>
  BY <1>1 DEF QueueInv
<1>2. CASE UpdatesRun
  BY <1>2, ClearQueue DEF UpdatesRun, Starts, QueueInv
<1>3. CASE CreateContainer \/ FollowLog
  <2> DEFINE last == FALSE
  <2>1. /\ PutLine(last) /\ updateThread \in {"start", "follow"} /\ updateThread' = "follow"
        /\ UNCHANGED <<update, updateRunning>> /\ last \in BOOLEAN /\ ~last
    BY <1>3 DEF CreateContainer, FollowLog
  <2> HIDE DEF last
  <2> QED
    BY <2>1, PutKeeps
<1>4. CASE UpdateFails \/ NextLastLine \/ FollowEnds
  <2> DEFINE last == TRUE
  <2>1. /\ PutLine(last) /\ updateThread \in {"start", "follow", "ending"}
        /\ updateThread' \in {"ending", "finally"}
        /\ UNCHANGED <<update, updateRunning>> /\ last \in BOOLEAN /\ last
    BY <1>4 DEF UpdateFails, NextLastLine, FollowEnds, LastLine
  <2> HIDE DEF last
  <2> QED
    BY <2>1, PutKeeps
<1>5. CASE Finally
  BY <1>5 DEF Finally, QueueInv
<1>6. CASE Deliver
  BY <1>6, TakeLine DEF Deliver
<1>7. CASE StreamBreaks
  <2>1. CASE updateQueue = <<>>
    BY <1>7, <2>1, ClearQueue DEF StreamBreaks, QueueInv
  <2>2. CASE updateQueue # <<>>
    BY <1>7, <2>2, TakeLine DEF StreamBreaks
  <2> QED
    BY <2>1, <2>2
<1>8. CASE WorkerKilled
  BY <1>8, ClearQueue DEF WorkerKilled, QueueInv
<1> QED
  BY <1>1, <1>2, <1>3, <1>4, <1>5, <1>6, <1>7, <1>8
     DEF UpdateNext, updateVars, ScriptEnds, OpenStream

\* A page is shown lines of the last update only; when the line that ends it is taken,
\* nothing but the rest of the same text is queued or to come.
THEOREM PagesShowTheirOwn == UpdateSpec => LinesAreOwn
<1>1. UpdateInit => QueueInv
  BY DEF UpdateInit, QueueInv
<1>2. ASSUME QueueInv, Deliver
      PROVE  /\ Head(updateQueue).of = update
             /\ Head(updateQueue).last =>
                  /\ \A i \in DOMAIN updateQueue : updateQueue[i].last
                  /\ updateThread \notin {"start", "follow"}
  <2>1. /\ Head(updateQueue) = updateQueue[1] /\ 1 \in 1..Len(updateQueue)
        /\ DOMAIN updateQueue = 1..Len(updateQueue)
    BY <1>2 DEF Deliver, QueueInv
  <2>2. \A i \in 1..Len(updateQueue) : 1 <= i
    OBVIOUS
  <2> QED
    BY <1>2, <2>1, <2>2 DEF QueueInv
<1> QED
  BY <1>1, <1>2, StepQueue, PTL DEF UpdateSpec, LinesAreOwn
=============================================================================
