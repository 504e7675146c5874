--------------------------- MODULE AccountsProofs ---------------------------
(***************************************************************************)
(* Theorems about module Accounts, for any number of users, founders and   *)
(* open transactions.                                                      *)
(*                                                                         *)
(* The strengthening says of every open transaction what its first         *)
(* statements have found and nobody can undo: the key it got from the      *)
(* sequence is still free and its own (Reserved), the row it will write    *)
(* exists and is no owner's (Targeted).  Of the rows it says who the       *)
(* owners are (Owners).                                                    *)
(***************************************************************************)
EXTENDS Accounts, TLAPS

\* What a transaction holds between its first statement and its COMMIT
Signup == [op : {"signup"}, user : Users]

Creation == [op : {"create"}, actor : Users, user : Users, role : {"ADMIN", "STAFF"}]

Change == [op : {"update"}, actor : Users, claim : Ranks \union {"none"}, user : Users,
           role : {"ADMIN", "STAFF"}]

Removal == [op : {"deactivate", "password", "reset"}, actor : Users, claim : Ranks \union {"none"},
            user : Users, role : {"none"}]

ReqType == {Idle} \union Signup \union Creation \union Change \union Removal

\* A key from the sequence belongs to one transaction and no row has it yet; the actor of
\* a creation has a row.
Reserved ==
    \A r \in Requests : req[r].op \in {"signup", "create"} =>
        /\ ~Exists(req[r].user)
        /\ req[r].op = "create" => Exists(req[r].actor)
        /\ \A q \in Requests : req[q].op # "idle" /\ req[q].user = req[r].user => q = r

\* A change is about a row there is, an update of a role about a row of no owner.
Targeted ==
    \A r \in Requests :
        /\ req[r].op \in {"update", "deactivate", "password", "reset"} => Exists(req[r].user)
        /\ req[r].op = "update" => user[req[r].user].role # "OWNER"

\* Whoever has the rank of an owner signed the club up and was never removed; a club that
\* was signed up has its owner's row.
Owners ==
    /\ \A u \in Users : Exists(u) /\ user[u].role = "OWNER" =>
          user[u].club = u /\ user[u].member = "active" /\ org[u] # "none"
    /\ \A c \in Users : org[c] # "none" => Exists(c) /\ user[c].role = "OWNER"

IInv ==
    /\ TypeOK
    /\ req \in [Requests -> ReqType]
    /\ Reserved
    /\ Targeted
    /\ Owners
    /\ NobodyWithoutPassword

-----------------------------------------------------------------------------
\* What an open transaction holds, told apart by its op.
LEMMA Kinds ==
    ASSUME req \in [Requests -> ReqType], NEW r \in Requests
    PROVE  /\ req[r].op \in {"idle", "signup", "create", "update", "deactivate",
                            "password", "reset"}
           /\ req[r].op = "idle" <=> req[r] = Idle
           /\ req[r].op = "signup" => req[r] \in Signup
           /\ req[r].op = "create" => req[r] \in Creation
           /\ req[r].op = "update" => req[r] \in Change
           /\ req[r].op \in {"deactivate", "password", "reset"} => req[r] \in Removal
           /\ req[r] # Idle => req[r].user \in Users
BY DEF ReqType, Idle, Signup, Creation, Change, Removal

\* A row is not the absence of one.
LEMMA Rows ==
    ASSUME NEW x \in User
    PROVE  x # NoUser
BY DEF User, NoUser, Ranks

LEMMA InitHolds == Init => IInv
<1> SUFFICES ASSUME Init PROVE IInv
  OBVIOUS
<1>1. TypeOK /\ req \in [Requests -> ReqType]
  BY DEF Init, TypeOK, Free, ReqType
<1>2. \A r \in Requests : req[r].op = "idle"
  BY DEF Init, Idle
<1>3. \A u \in Users : ~Exists(u) /\ org[u] = "none"
  BY DEF Init, Exists
<1> QED
  BY <1>1, <1>2, <1>3 DEF IInv, Reserved, Targeted, Owners, NobodyWithoutPassword

\* The first statements of a transaction keep the invariant if they found what the
\* invariant says of it.
LEMMA Opening ==
    ASSUME IInv, UNCHANGED <<user, org, token>>,
           NEW r \in Requests, Free(r),
           NEW q \in Signup \union Creation \union Change \union Removal,
           Become(r, q),
           q.op \in {"signup", "create"} => Fresh(q.user),
           q.op = "create" => Exists(q.actor),
           q.op \in {"update", "deactivate", "password", "reset"} => Exists(q.user),
           q.op = "update" => user[q.user].role # "OWNER"
    PROVE  IInv'
<1>1. /\ q \in ReqType /\ q # Idle /\ q.op # "idle" /\ q.user \in Users
      /\ q.op \in {"signup", "create", "update", "deactivate", "password", "reset"}
  BY DEF ReqType, Signup, Creation, Change, Removal, Idle
<1>2. req' \in [Requests -> ReqType]
  BY <1>1 DEF IInv, Become
<1>3. req'[r] = q /\ \A p \in Requests \ {r} : req'[p] = req[p]
  BY DEF IInv, Become
<1>4. \A u \in Users : Exists(u)' <=> Exists(u)
  BY DEF Exists
<1>5. TypeOK'
  BY <1>1, <1>3 DEF IInv, TypeOK, Free
<1>6. \A p \in Requests : req[p] # Idle => req[p].user \in Users /\ req[p].op # "idle"
  BY Kinds DEF IInv
<1>7. Reserved'
  <2> SUFFICES ASSUME NEW p \in Requests, req'[p].op \in {"signup", "create"}
               PROVE  /\ user'[req'[p].user] = NoUser
                      /\ req'[p].op = "create" => user'[req'[p].actor] # NoUser
                      /\ \A s \in Requests :
                            req'[s].op # "idle" /\ req'[s].user = req'[p].user => s = p
    BY DEF Reserved, Exists
  <2>1. CASE p = r
    <3>1. \A s \in Requests \ {r} : req[s].op # "idle" => req[s].user # q.user
      BY <2>1, <1>1, <1>3 DEF Fresh, Free, Idle
    <3> QED
      BY <2>1, <3>1, <1>1, <1>3 DEF Fresh, Exists
  <2>2. CASE p # r
    <3>1. /\ ~Exists(req[p].user)
          /\ req[p].op = "create" => Exists(req[p].actor)
          /\ \A s \in Requests : req[s].op # "idle" /\ req[s].user = req[p].user => s = p
          /\ req[p] # Idle
      BY <2>2, <1>3 DEF IInv, Reserved, Idle
    <3>2. q.user # req[p].user
      BY <3>1, <1>1 DEF Fresh, Free
    <3> QED
      BY <2>2, <3>1, <3>2, <1>3 DEF Exists
  <2> QED BY <2>1, <2>2
<1>8. Targeted'
  BY <1>3 DEF IInv, Targeted, Exists
<1>9. Owners' /\ NobodyWithoutPassword'
  BY DEF IInv, Owners, NobodyWithoutPassword, Exists
<1> QED BY <1>2, <1>5, <1>7, <1>8, <1>9 DEF IInv

\* A transaction that ends leaves the claims of the others as they are, if rows stay, no
\* owner is made of anybody else, and the only new row is at its own key.
LEMMA Ending ==
    ASSUME IInv, NEW r \in Requests, ~Free(r), Become(r, Idle),
           \A u \in Users : Exists(u) =>
               Exists(u)' /\ (user[u].role # "OWNER" => user'[u].role # "OWNER"),
           \A u \in Users : Exists(u)' =>
               \/ Exists(u)
               \/ req[r].op \in {"signup", "create"} /\ u = req[r].user
    PROVE  req' \in [Requests -> ReqType] /\ Reserved' /\ Targeted'
<1>1. req' \in [Requests -> ReqType]
  BY DEF IInv, Become, ReqType
<1>2. req'[r] = Idle /\ \A p \in Requests \ {r} : req'[p] = req[p]
  BY DEF IInv, Become
<1>3. Idle.op = "idle"
  BY DEF Idle
<1>4. \A p \in Requests :
        req[p] # Idle => /\ req[p].user \in Users /\ req[p].op # "idle"
                         /\ req[p].op = "create" => req[p].actor \in Users
  BY Kinds DEF IInv, Creation
<1>5. Reserved'
  <2> SUFFICES ASSUME NEW p \in Requests, req'[p].op \in {"signup", "create"}
               PROVE  /\ user'[req'[p].user] = NoUser
                      /\ req'[p].op = "create" => user'[req'[p].actor] # NoUser
                      /\ \A s \in Requests :
                            req'[s].op # "idle" /\ req'[s].user = req'[p].user => s = p
    BY DEF Reserved, Exists
  <2>1. p # r /\ req'[p] = req[p] /\ req[p] # Idle
    BY <1>2, <1>3
  <2>2. /\ ~Exists(req[p].user)
        /\ req[p].op = "create" => Exists(req[p].actor)
        /\ \A s \in Requests : req[s].op # "idle" /\ req[s].user = req[p].user => s = p
    BY <2>1 DEF IInv, Reserved
  <2>3. req[r].user # req[p].user
    BY <2>1, <2>2, <1>4 DEF Free
  <2> QED
    BY <2>1, <2>2, <2>3, <1>2, <1>3, <1>4 DEF Exists
<1>6. Targeted'
  BY <1>2, <1>3, <1>4 DEF IInv, Targeted, Exists
<1> QED BY <1>1, <1>5, <1>6

-----------------------------------------------------------------------------
\* The step of one transaction

\* The first halves: nothing is written yet.
LEMMA OpeningStep ==
    ASSUME IInv, NEW r \in Requests, NEW a \in Users, NEW v \in Users, NEW role \in Ranks,
           \/ OwnerSignup(r, v)
           \/ Exists(a) /\ CreateStaff(r, a, v, role)
           \/ Exists(a) /\ UpdateStaff(r, a, v, role)
           \/ Exists(a) /\ (DeactivateStaff(r, a, v) \/ ResetPassword(r, a, v))
    PROVE  IInv'
<1>1. CASE OwnerSignup(r, v)
  <2> DEFINE q == [op |-> "signup", user |-> v]
  <2>1. q \in Signup
    BY DEF Signup
  <2> QED
    BY <1>1, <2>1, Opening DEF OwnerSignup
<1>2. CASE Exists(a) /\ CreateStaff(r, a, v, role)
  <2> DEFINE q == [op |-> "create", actor |-> a, user |-> v, role |-> role]
  <2>1. q \in Creation
    BY <1>2 DEF CreateStaff, MayCreate, Creation
  <2> QED
    BY <1>2, <2>1, Opening DEF CreateStaff
<1>3. CASE Exists(a) /\ UpdateStaff(r, a, v, role)
  <2> DEFINE q == [op |-> "update", actor |-> a, claim |-> token[a], user |-> v, role |-> role]
  <2>1. q \in Change
    BY <1>3 DEF UpdateStaff, MayEdit, Change, IInv, TypeOK
  <2>2. Exists(v) /\ user[v].role # "OWNER"
    BY <1>3 DEF UpdateStaff, MayEdit, RoleIn, Member
  <2> QED
    BY <1>3, <2>1, <2>2, Opening DEF UpdateStaff, Open
<1>4. ASSUME NEW op \in {"deactivate", "password", "reset"}, Free(r), Exists(v),
             Open(r, op, a, v, "none"), UNCHANGED <<user, org, token>>
      PROVE  IInv'
  <2> DEFINE q == [op |-> op, actor |-> a, claim |-> token[a], user |-> v, role |-> "none"]
  <2>1. q \in Removal
    BY DEF Removal, IInv, TypeOK
  <2> QED
    BY <1>4, <2>1, Opening DEF Open
<1> QED
  BY <1>1, <1>2, <1>3, <1>4 DEF DeactivateStaff, ResetPassword, Member

\* A reset that is allowed goes on with what it holds.
LEMMA ResetGoesOn ==
    ASSUME IInv, NEW r \in Requests, MayReset(r)
    PROVE  IInv'
<1> DEFINE q == [req[r] EXCEPT !.op = "reset"]
<1>1. /\ req[r].op = "password" /\ req[r] \in Removal /\ req[r] # Idle
      /\ UNCHANGED <<user, org, token>> /\ req' = [req EXCEPT ![r] = q]
  BY Kinds DEF MayReset, Become, IInv
<1>2. q \in Removal /\ q \in ReqType /\ q.op = "reset" /\ q.user = req[r].user /\ q # Idle
  BY <1>1 DEF Removal, ReqType, Idle
<1> HIDE DEF q
<1>3. req' \in [Requests -> ReqType] /\ req'[r] = q /\ \A p \in Requests \ {r} : req'[p] = req[p]
  BY <1>1, <1>2 DEF IInv
<1>4. TypeOK'
  BY <1>1, <1>2, <1>3 DEF IInv, TypeOK, Free
<1>5. Reserved'
  <2> SUFFICES ASSUME NEW p \in Requests, req'[p].op \in {"signup", "create"}
               PROVE  /\ user'[req'[p].user] = NoUser
                      /\ req'[p].op = "create" => user'[req'[p].actor] # NoUser
                      /\ \A s \in Requests :
                            req'[s].op # "idle" /\ req'[s].user = req'[p].user => s = p
    BY DEF Reserved, Exists
  <2>1. p # r /\ req'[p] = req[p]
    BY <1>2, <1>3
  <2>2. \A s \in Requests : req'[s].op # "idle" <=> req[s].op # "idle"
    BY <1>1, <1>2, <1>3
  <2>3. \A s \in Requests : req'[s].op # "idle" => req'[s].user = req[s].user
    BY <1>2, <1>3
  <2> QED BY <1>1, <2>1, <2>2, <2>3 DEF IInv, Reserved, Exists
<1>6. Targeted'
  BY <1>1, <1>2, <1>3 DEF IInv, Targeted, Exists
<1>7. Owners' /\ NobodyWithoutPassword'
  BY <1>1 DEF IInv, Owners, NobodyWithoutPassword, Exists
<1> QED BY <1>3, <1>4, <1>5, <1>6, <1>7 DEF IInv

\* The rows keep their promises when one row is written with a rank, a club and a password
\* that agree with them.
LEMMA RowWritten ==
    ASSUME IInv, NEW u \in Users, NEW x \in User, user' = [user EXCEPT ![u] = x],
           org' = [org EXCEPT ![u] = IF x.role = "OWNER" /\ @ = "none" THEN "open" ELSE @],
           x.password # "none",
           x.role = "OWNER" => x.club = u /\ x.member = "active",
           Exists(u) /\ user[u].role = "OWNER" => x.role = "OWNER"
    PROVE  Owners' /\ NobodyWithoutPassword'
<1>1. x # NoUser
  BY Rows
<1>2. /\ user'[u] = x /\ \A w \in Users \ {u} : user'[w] = user[w]
      /\ \A w \in Users \ {u} : org'[w] = org[w]
      /\ org'[u] = IF x.role = "OWNER" /\ org[u] = "none" THEN "open" ELSE org[u]
  BY DEF IInv, TypeOK
<1>3. Owners'
  BY <1>1, <1>2 DEF Owners, IInv, Exists
<1>4. NobodyWithoutPassword'
  BY <1>1, <1>2 DEF NobodyWithoutPassword, IInv, Exists
<1> QED BY <1>3, <1>4

\* The second halves: each writes one row and ends.
LEMMA EndingStep ==
    ASSUME IInv, NEW r \in Requests,
           \/ SignupCommit(r) \/ AssignPassword(r) \/ UpdateCommit(r)
           \/ DeactivateCommit(r) \/ ResetCommit(r) \/ Abort(r)
    PROVE  IInv'
<1> DEFINE u == req[r].user
<1>0. ~Free(r) /\ u \in Users /\ Become(r, Idle)
  BY Kinds DEF IInv, Free, Idle, SignupCommit, AssignPassword, UpdateCommit, DeactivateCommit,
     ResetCommit, Abort
<1>1. ASSUME NEW x \in User,
             user' = [user EXCEPT ![u] = x],
             org' = [org EXCEPT ![u] = IF x.role = "OWNER" /\ @ = "none" THEN "open" ELSE @],
             UNCHANGED token,
             x.password # "none",
             x.role = "OWNER" => x.club = u /\ x.member = "active",
             Exists(u) => (x.role = "OWNER" <=> user[u].role = "OWNER"),
             Exists(u) \/ req[r].op \in {"signup", "create"}
      PROVE  IInv'
  <2>1. Owners' /\ NobodyWithoutPassword'
    BY <1>0, <1>1, RowWritten
  <2>2. user'[u] = x /\ x # NoUser /\ \A w \in Users \ {u} : user'[w] = user[w]
    BY <1>0, <1>1, Rows DEF IInv, TypeOK
  <2>3. req' \in [Requests -> ReqType] /\ Reserved' /\ Targeted'
    <3>1. \A w \in Users : Exists(w) =>
             Exists(w)' /\ (user[w].role # "OWNER" => user'[w].role # "OWNER")
      BY <2>2, <1>1 DEF Exists
    <3>2. \A w \in Users : Exists(w)' =>
             Exists(w) \/ (req[r].op \in {"signup", "create"} /\ w = req[r].user)
      BY <2>2, <1>1 DEF Exists
    <3> QED BY <1>0, <3>1, <3>2, Ending
  <2>4. TypeOK'
    <3>1. user' \in [Users -> User \union {NoUser}]
      BY <1>1 DEF IInv, TypeOK
    <3>2. org' \in [Users -> {"none", "open", "suspended"}]
      BY <1>1 DEF IInv, TypeOK
    <3>3. \A p \in Requests : req'[p] # Idle => req'[p] = req[p]
      BY <1>0 DEF IInv, Become
    <3> QED BY <1>1, <3>1, <3>2, <3>3 DEF IInv, TypeOK, Free
  <2> QED BY <2>1, <2>3, <2>4 DEF IInv
<1>2. ASSUME UNCHANGED <<user, org, token>>
      PROVE  IInv'
  <2>1. req' \in [Requests -> ReqType] /\ Reserved' /\ Targeted'
    BY <1>0, <1>2, Ending DEF Exists
  <2>2. \A p \in Requests : req'[p] # Idle => req'[p] = req[p]
    BY <1>0 DEF IInv, Become
  <2> QED
    BY <1>2, <2>1, <2>2 DEF IInv, TypeOK, Free, Owners, NobodyWithoutPassword, Exists
<1>3. CASE SignupCommit(r)
  <2> DEFINE x == [role |-> "OWNER", club |-> u, member |-> "active", password |-> "own"]
  <2>1. x \in User /\ req[r].op = "signup" /\ ~Exists(u)
    BY <1>0, <1>3 DEF SignupCommit, User, Ranks, IInv, Reserved
  <2>2. org[u] = "none"
    BY <1>0, <2>1 DEF IInv, Owners
  <2>3. org' = [org EXCEPT ![u] = IF x.role = "OWNER" /\ @ = "none" THEN "open" ELSE @]
    BY <1>3, <2>2 DEF SignupCommit, IInv, TypeOK
  <2> QED
    BY <1>3, <2>1, <2>3, <1>1 DEF SignupCommit
<1>4. ASSUME UNCHANGED org, NEW x, x.role # "OWNER" \/ org[u] # "none"
      PROVE  org' = [org EXCEPT ![u] = IF x.role = "OWNER" /\ @ = "none" THEN "open" ELSE @]
  BY <1>4, <1>0 DEF IInv, TypeOK
<1>5. CASE AssignPassword(r)
  <2>1. req[r] \in Creation /\ Exists(req[r].actor) /\ ~Exists(u)
    BY <1>5, Kinds DEF AssignPassword, IInv, Reserved
  <2>2. user[req[r].actor] \in User
    BY <2>1 DEF IInv, TypeOK, Creation, Exists
  <2> DEFINE x == [role |-> req[r].role, club |-> user[req[r].actor].club, member |-> "active",
                   password |-> "assigned"]
  <2>3. x \in User /\ x.role # "OWNER"
    BY <2>1, <2>2 DEF Creation, User, Ranks
  <2>4. CASE user' = user
    BY <2>4, <1>5, <1>2 DEF AssignPassword
  <2>5. CASE user' = [user EXCEPT ![u] = x]
    BY <2>5, <1>5, <2>1, <2>3, <1>1, <1>4 DEF AssignPassword
  <2> QED BY <1>5, <2>4, <2>5 DEF AssignPassword, Created, Unassigned
<1>6. ASSUME NEW x \in User, Exists(u), user' = [user EXCEPT ![u] = x], UNCHANGED <<org, token>>,
             x.password # "none", x.club = user[u].club,
             \/ x.member = user[u].member
             \/ user[u].role # "OWNER",
             x.role = "OWNER" <=> user[u].role = "OWNER"
      PROVE  IInv'
  <2>1. x.role = "OWNER" => x.club = u /\ x.member = "active" /\ org[u] # "none"
    BY <1>0, <1>6 DEF IInv, Owners
  <2> QED BY <1>1, <1>4, <1>6, <2>1
<1>7. ASSUME ~(req[r].op \in {"signup", "create"})
      PROVE  /\ Exists(u) /\ user[u] \in User /\ user[u].password # "none"
             /\ req[r].op = "update" => user[u].role # "OWNER" /\ req[r].role \in {"ADMIN", "STAFF"}
  <2>1. Exists(u)
    BY <1>7, <1>0, Kinds DEF IInv, Targeted, Free
  <2> QED
    BY <1>0, <2>1, Kinds DEF IInv, TypeOK, Exists, NobodyWithoutPassword, Targeted, Change
<1>8. CASE UpdateCommit(r)
  <2> DEFINE x == [user[u] EXCEPT !.role = req[r].role]
  <2>1. /\ Exists(u) /\ user[u] \in User /\ user[u].role # "OWNER"
        /\ user[u].password # "none" /\ req[r].role \in {"ADMIN", "STAFF"}
    BY <1>7, <1>8 DEF UpdateCommit
  <2>2. /\ x \in User /\ x.role = req[r].role /\ x.role # "OWNER"
        /\ x.club = user[u].club /\ x.member = user[u].member /\ x.password = user[u].password
    BY <2>1 DEF User, Ranks
  <2>3. CASE user' = user
    BY <2>3, <1>8, <1>2 DEF UpdateCommit
  <2>4. CASE user' = [user EXCEPT ![u] = x]
    BY <2>4, <1>8, <2>1, <2>2, <1>6 DEF UpdateCommit
  <2>5. [user EXCEPT ![u].role = req[r].role] = [user EXCEPT ![u] = x]
    BY <1>0 DEF IInv, TypeOK
  <2> QED BY <1>8, <2>3, <2>4, <2>5 DEF UpdateCommit
<1>9. CASE DeactivateCommit(r)
  <2> DEFINE x == [user[u] EXCEPT !.member = "removed"]
  <2>1. Exists(u) /\ user[u] \in User /\ user[u].role # "OWNER" /\ user[u].password # "none"
    BY <1>7, <1>9 DEF DeactivateCommit
  <2>2. /\ x \in User /\ x.role = user[u].role /\ x.club = user[u].club
        /\ x.password = user[u].password
    BY <2>1 DEF User
  <2>3. user' = [user EXCEPT ![u] = x]
    BY <1>0, <1>9 DEF IInv, TypeOK, DeactivateCommit
  <2> QED BY <1>9, <2>1, <2>2, <2>3, <1>6 DEF DeactivateCommit
<1>10. CASE ResetCommit(r)
  <2> DEFINE x == [user[u] EXCEPT !.password = "assigned"]
  <2>1. Exists(u) /\ user[u] \in User
    BY <1>7, <1>10 DEF ResetCommit
  <2>2. /\ x \in User /\ x.role = user[u].role /\ x.club = user[u].club
        /\ x.member = user[u].member /\ x.password = "assigned"
    BY <2>1 DEF User
  <2>3. user' = [user EXCEPT ![u] = x]
    BY <1>0, <1>10 DEF IInv, TypeOK, ResetCommit
  <2> QED BY <1>10, <2>1, <2>2, <2>3, <1>6 DEF ResetCommit
<1>11. CASE Abort(r)
  BY <1>11, <1>2 DEF Abort
<1> QED BY <1>3, <1>5, <1>8, <1>9, <1>10, <1>11

-----------------------------------------------------------------------------
\* What happens without a transaction that stays open

LEMMA OtherStep ==
    ASSUME IInv, NEW u \in Users, NEW status \in {"open", "suspended"},
           \/ StaffLogin(u) \/ Expire(u) \/ ChangePassword(u)
           \/ UpdateOrganization(u, status)
    PROVE  IInv'
<1>1. CASE StaffLogin(u) \/ Expire(u)
  <2>1. UNCHANGED <<user, org, req>>
    BY <1>1 DEF StaffLogin, Expire
  <2>2. token' \in [Users -> Ranks \union {"none"}]
    <3>1. StaffLogin(u) => Claim(u) \in Ranks \union {"none"}
      BY DEF StaffLogin, Claim, IInv, TypeOK, User, Exists
    <3> QED BY <1>1, <3>1 DEF StaffLogin, Expire, IInv, TypeOK
  <2> QED
    BY <2>1, <2>2 DEF IInv, TypeOK, Free, Reserved, Targeted, Owners, NobodyWithoutPassword, Exists
<1>2. CASE ChangePassword(u)
  <2> DEFINE x == [user[u] EXCEPT !.password = "own"]
  <2>1. Exists(u) /\ user[u] \in User /\ UNCHANGED <<org, token, req>>
    BY <1>2 DEF ChangePassword, IInv, TypeOK, Exists
  <2>2. /\ x \in User /\ x.role = user[u].role /\ x.club = user[u].club
        /\ x.member = user[u].member /\ x.password = "own"
    BY <2>1 DEF User
  <2>3. user' = [user EXCEPT ![u] = x]
    BY <1>2 DEF IInv, TypeOK, ChangePassword
  <2>4. user'[u] = x /\ x # NoUser /\ \A w \in Users \ {u} : user'[w] = user[w]
    BY <2>2, <2>3, Rows DEF IInv, TypeOK
  <2> HIDE DEF x
  <2>5. TypeOK'
    BY <2>1, <2>2, <2>3 DEF IInv, TypeOK, Free
  <2>6. Owners' /\ NobodyWithoutPassword'
    BY <2>1, <2>2, <2>4 DEF IInv, Owners, NobodyWithoutPassword, Exists
  <2>7. \A w \in Users : (Exists(w)' <=> Exists(w)) /\ (Exists(w) => user'[w].role = user[w].role)
    BY <2>1, <2>2, <2>4 DEF Exists
  <2>8. \A r \in Requests : req[r].op # "idle" =>
            req[r].user \in Users /\ (req[r].op = "create" => req[r].actor \in Users)
    BY Kinds DEF IInv, Creation
  <2>9. Reserved'
    BY <2>1, <2>7, <2>8 DEF IInv, Reserved, Exists
  <2>10. Targeted'
    BY <2>1, <2>7, <2>8 DEF IInv, Targeted, Exists
  <2> QED
    BY <2>1, <2>5, <2>6, <2>9, <2>10 DEF IInv
<1>3. CASE UpdateOrganization(u, status)
  <2>1. UNCHANGED <<user, token, req>> /\ org' = [org EXCEPT ![u] = status] /\ org[u] # "none"
    BY <1>3 DEF UpdateOrganization
  <2>2. TypeOK'
    BY <2>1 DEF IInv, TypeOK, Free
  <2>3. Owners'
    BY <2>1 DEF IInv, TypeOK, Owners, Exists
  <2> QED
    BY <2>1, <2>2, <2>3 DEF IInv, Reserved, Targeted, NobodyWithoutPassword, Exists
<1> QED BY <1>1, <1>2, <1>3

\* The invariant is inductive.
LEMMA StepHolds == IInv /\ [Next]_vars => IInv'
<1> SUFFICES ASSUME IInv, [Next]_vars PROVE IInv'
  OBVIOUS
<1>1. CASE UNCHANGED vars
  BY <1>1 DEF vars, IInv, TypeOK, Free, Reserved, Targeted, Owners, NobodyWithoutPassword, Exists
<1>2. ASSUME NEW r \in Requests, NEW u \in Users, OwnerSignup(r, u)
      PROVE  IInv'
  <2>1. "STAFF" \in Ranks
    BY DEF Ranks
  <2> QED BY <1>2, <2>1, OpeningStep
<1>3. ASSUME NEW r \in Requests,
             \/ SignupCommit(r) \/ AssignPassword(r) \/ UpdateCommit(r)
             \/ DeactivateCommit(r) \/ MayReset(r) \/ ResetCommit(r) \/ Abort(r)
      PROVE  IInv'
  BY <1>3, EndingStep, ResetGoesOn
<1>4. ASSUME NEW r \in Requests, NEW a \in Users, Exists(a),
             \/ \E u \in Users, role \in Ranks : CreateStaff(r, a, u, role)
             \/ \E v \in Users, role \in Ranks : UpdateStaff(r, a, v, role)
             \/ \E v \in Users : DeactivateStaff(r, a, v) \/ ResetPassword(r, a, v)
      PROVE  IInv'
  <2>1. "STAFF" \in Ranks
    BY DEF Ranks
  <2> QED BY <1>4, <2>1, OpeningStep
<1>5. ASSUME NEW u \in Users, StaffLogin(u) \/ Expire(u) \/ ChangePassword(u)
      PROVE  IInv'
  BY <1>5, OtherStep
<1>6. ASSUME NEW c \in Users, NEW status \in {"open", "suspended"}, UpdateOrganization(c, status)
      PROVE  IInv'
  BY <1>6, OtherStep
<1> QED BY <1>1, <1>2, <1>3, <1>4, <1>5, <1>6 DEF Next

LEMMA Invariance == Spec => []IInv
BY InitHolds, StepHolds, PTL DEF Spec

\* Owners and the clubs that were signed up are the same: the function from clubs to owners
\* that OneOwner speaks of.
LEMMA OwnersAreFounders == IInv => OneOwner
<1> SUFFICES ASSUME IInv, NEW c \in Users
             PROVE  {u \in Users : RoleIn(u, c) = "OWNER"} = IF org[c] = "none" THEN {} ELSE {c}
  BY DEF OneOwner
<1>1. ASSUME NEW u \in Users, RoleIn(u, c) = "OWNER"
      PROVE  u = c /\ org[c] # "none"
  BY <1>1 DEF RoleIn, Member, IInv, Owners
<1>2. ASSUME org[c] # "none"
      PROVE  RoleIn(c, c) = "OWNER"
  BY <1>2 DEF RoleIn, Member, IInv, Owners
<1> QED BY <1>1, <1>2

\* Of any number of clubs, sign-ups, creations and edits that overlap, every club keeps the
\* one owner who signed it up, and nobody has an account without a password
\* (auth_owner_signup, auth_create_staff, auth_update_staff, deactivate_staff, create_staff).
THEOREM RosterAlwaysSound == Spec => []RosterSound
<1>1. IInv => RosterSound
  BY OwnersAreFounders DEF IInv, RosterSound
<1> QED BY <1>1, Invariance, PTL

\* An administrator is demoted or removed by a transaction with the claim of an owner, never
\* by one that began when its target was still staff: the policy on memberships is asked
\* again when the row is written (memberships_write_admin).
LEMMA CeilingStep ==
    ASSUME IInv, [Next]_vars, NEW r \in Requests, ~Free(r), req'[r] = Idle,
           Exists(req[r].user), user[req[r].user].role = "ADMIN",
           user'[req[r].user] # user[req[r].user], req[r].op # "reset"
    PROVE  req[r].claim = "OWNER"
<1>1. ASSUME NEW p \in Requests, NEW q, Become(p, q), q = Idle \/ Free(p)
      PROVE  p = r
  BY <1>1 DEF Become, Free, IInv
<1>2. user' # user
  OBVIOUS
<1>3. req[r].user \in Users
  BY Kinds DEF IInv, Free
<1>4. CASE \E p \in Requests :
              \/ SignupCommit(p) \/ AssignPassword(p) \/ UpdateCommit(p)
              \/ DeactivateCommit(p) \/ ResetCommit(p) \/ Abort(p)
  <2>1. \/ SignupCommit(r) \/ AssignPassword(r) \/ UpdateCommit(r)
        \/ DeactivateCommit(r) \/ ResetCommit(r) \/ Abort(r)
    BY <1>1, <1>4 DEF SignupCommit, AssignPassword, UpdateCommit, DeactivateCommit,
       ResetCommit, Abort
  <2>2. ~SignupCommit(r) /\ ~AssignPassword(r)
    BY DEF SignupCommit, AssignPassword, IInv, Reserved
  <2>3. UpdateCommit(r) \/ DeactivateCommit(r) => Writable(req[r].claim, req[r].user)
    BY <1>2 DEF UpdateCommit, DeactivateCommit
  <2> QED
    BY <1>2, <2>1, <2>2, <2>3 DEF ResetCommit, Abort, Writable
<1>5. CASE \E u \in Users : ChangePassword(u)
  BY <1>5 DEF ChangePassword, Free
<1> QED
  BY <1>2, <1>4, <1>5 DEF Next, vars, OwnerSignup, CreateStaff, UpdateStaff, DeactivateStaff,
     ResetPassword, MayReset, StaffLogin, Expire, UpdateOrganization

THEOREM CeilingAlwaysHolds == Spec => CeilingHolds
<1>1. IInv /\ [Next]_vars =>
        [\A r \in Requests :
            LET v == req[r].user
            IN  ~Free(r) /\ req'[r] = Idle /\ Exists(v) /\ user[v].role = "ADMIN"
                /\ user'[v] # user[v] /\ req[r].op # "reset"
                    => req[r].claim = "OWNER"]_vars
  BY CeilingStep
<1> QED BY <1>1, Invariance, PTL DEF Spec, CeilingHolds

=============================================================================
