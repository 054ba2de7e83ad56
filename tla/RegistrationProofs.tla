------------------------- MODULE RegistrationProofs -------------------------
(***************************************************************************)
(* Proofs about Registration for every set of registrations, of addresses  *)
(* and of names, whatever is asked for.                                    *)
(***************************************************************************)
EXTENDS Registration, TLAPS

(* A request that has begun is one of the well-formed ones. *)
LEMMA RequestType ==
    ASSUME TypeOK, StepsInOrder, NEW r \in Registrations, pc[r] # "unsent"
    PROVE  /\ request[r] \in WellFormed
           /\ Kind(r) \in Kinds
           /\ request[r].email \in Emails \cup {None}
           /\ request[r].username \in Usernames \cup {None, Blank}
           /\ Kind(r) # "user" => name[r] \in Usernames \cup {Blank}
           /\ Given(r) => Kind(r) # "user"
<1>1. request[r] \in WellFormed
  BY DEF StepsInOrder
<1>2. \A e \in Emails : Lower(e) \in Emails
  BY LowerAssumption
<1> QED
  BY <1>1, <1>2, NamesAssumption DEF WellFormed, Kind, Kinds, Given, TypeOK, StepsInOrder

(* What another request than r is made of. *)
Others(r) ==
    \A q \in Registrations \ {r} :
        /\ pc'[q] = pc[q] /\ request'[q] = request[q] /\ name'[q] = name[q]
        /\ madeRole'[q] = madeRole[q] /\ why'[q] = why[q] /\ seen'[q] = seen[q]

(* A step that leaves the tables alone and after which its request has     *)
(* nothing inserted keeps the rows unique.                                 *)
LEMMA ThinkingKeepsRows ==
    ASSUME TypeOK, RowsAreUnique, NEW r \in Registrations, Others(r),
           users' = users, reps' = reps, ~UserPending(r)'
    PROVE  RowsAreUnique'
<1>1. \A q \in Registrations : UserPending(q)' => q # r /\ UserPending(q)
  BY DEF Others, UserPending
<1>2. \A q \in Registrations \ {r} : Kind(q)' = Kind(q)
  BY DEF Others, Kind
<1>3. \A q \in Registrations : pc'[q] = "commit" => q # r /\ pc[q] = "commit"
  BY DEF Others, UserPending
<1> QED
  BY <1>1, <1>2, <1>3 DEF RowsAreUnique, Others, UserTaken, UserAwaited, RepTaken, RepAwaited

(* The part of StepsInOrder that is about one request. *)
Order(r) ==
    /\ IF pc[r] = "unsent" THEN why[r] = "nothing" ELSE request[r] \in WellFormed
    /\ r \in DOMAIN users =>
          /\ \/ pc[r] \in {"token", "ok", "saveLogin"}
             \/ pc[r] = "error" /\ why[r] = "token"
             \/ pc[r] \in {"failed", "error"} /\ why[r] = "cut"
          /\ Kind(r) = "sales_rep" => r \in DOMAIN reps
          /\ Kind(r) \in users[r].roles \cap roles
    /\ pc[r] \in {"token", "ok", "saveLogin"} => r \in DOMAIN users
    /\ pc[r] \in {"insert", "insertRep", "commit"} => madeRole[r] \/ Kind(r) \in roles
    /\ pc[r] \in {"countUsers", "countReps"} /\ ~Given(r) => madeRole[r] \/ Kind(r) \in roles
    /\ pc[r] # "unsent" =>
          IF Kind(r) # "user" /\ request[r].username = None THEN name[r] \in Usernames
          ELSE name[r] = request[r].username
    /\ pc[r] \in {"countUsers", "countReps"} => name[r] \in Usernames
    /\ pc[r] = "insertRep" => Kind(r) = "sales_rep"
    /\ pc[r] = "saveLogin" => r \in DOMAIN reps /\ seen[r] # None

(* A step of r that leaves the tables alone keeps what the other requests  *)
(* have done.                                                              *)
LEMMA ThinkingKeepsOthers ==
    ASSUME TypeOK, StepsInOrder, NEW r \in Registrations, Others(r),
           database' = database, NEW q \in Registrations \ {r}
    PROVE  Order(q)'
  BY DEF StepsInOrder, Others, Order, Kind, Given, database

(* Such a step keeps the invariant when it does for its own request. *)
LEMMA ThinkingStep ==
    ASSUME TableInvariant, NEW r \in Registrations, Others(r),
           database' = database, seeding' = seeding,
           TypeOK', Order(r)', ~UserPending(r)'
    PROVE  TableInvariant'
<1> TypeOK /\ StepsInOrder /\ RowsAreUnique /\ SeederHasFound
  BY DEF TableInvariant
<1>1. SeederHasFound'
  BY DEF SeederHasFound, database
<1>2. StepsInOrder'
  BY ThinkingKeepsOthers DEF StepsInOrder, Order
<1>3. RowsAreUnique'
  BY ThinkingKeepsRows DEF database
<1> QED
  BY <1>1, <1>2, <1>3 DEF TableInvariant

(* A request that arrives is well formed and has inserted nothing. *)
LEMMA BeginKeeps ==
    ASSUME TableInvariant, NEW r \in Registrations, Begin(r)
    PROVE  TableInvariant'
<1> TypeOK /\ StepsInOrder /\ Order(r)
  BY DEF TableInvariant, StepsInOrder, Order
<1> USE DEF Begin, Goto, Refuse, Taken, database, calls
<1> DEFINE first(q) == IF q.kind = "user" \/ q.username # None
                       THEN q.username ELSE <<WordOf(q.email), 0>>
<1>0. PICK q \in WellFormed :
        /\ request' = [request EXCEPT ![r] = q]
        /\ name' = [name EXCEPT ![r] = first(q)]
  BY AskedAssumption
<1>4. /\ q.kind = "user" => q.username = None
      /\ q.kind # "user" => q.email \in Emails \/ q.username \in Usernames
      /\ q.username \in Usernames \cup {None, Blank}
  BY <1>0, LowerAssumption DEF WellFormed
<1>5. q.kind # "user" /\ q.username = None => first(q) \in Usernames
  BY <1>4, LowerAssumption, NamesAssumption DEF Usernames
<1>6. first(q) \in Usernames \cup {None, Blank}
  BY <1>4, <1>5
<1> HIDE DEF first
<1>1. TypeOK'
  BY <1>0, <1>6 DEF TypeOK, Running
<1>2. Others(r)
  BY DEF Others, TypeOK
<1>3. Order(r)' /\ ~UserPending(r)'
  <2>1. /\ request'[r] = q /\ name'[r] = first(q) /\ pc'[r] = "email"
        /\ r \notin DOMAIN users
    BY <1>0 DEF TypeOK, Order
  <2> QED
    BY <1>4, <1>5, <2>1 DEF Order, UserPending, Kind, first
<1> QED
  BY <1>1, <1>2, <1>3, ThinkingStep

(* Looking for the address keeps the invariant. *)
LEMMA CheckEmailKeeps ==
    ASSUME TableInvariant, NEW r \in Registrations, CheckEmail(r)
    PROVE  TableInvariant'
<1> TypeOK /\ StepsInOrder /\ Order(r)
  BY DEF TableInvariant, StepsInOrder, Order
<1> USE DEF CheckEmail, Goto, Refuse, Taken, database, calls
<1>1. TypeOK'
  BY RequestType DEF TypeOK, Running, Answered
<1>2. Others(r)
  BY DEF Others, TypeOK
<1>3. Order(r)' /\ ~UserPending(r)'
  BY RequestType DEF Order, UserPending, TypeOK, Kind, Given, Generates, Running
<1> QED
  BY <1>1, <1>2, <1>3, ThinkingStep

(* Looking for the name among the users keeps it, also when the next name  *)
(* is tried.                                                               *)
LEMMA CountUsersKeeps ==
    ASSUME TableInvariant, NEW r \in Registrations, CountUsers(r)
    PROVE  TableInvariant'
<1> TypeOK /\ StepsInOrder /\ Order(r)
  BY DEF TableInvariant, StepsInOrder, Order
<1> USE DEF CountUsers, Goto, Refuse, Taken, database, calls
<1>0. name'[r] \in Usernames /\ (Given(r) => name' = name)
  BY DEF Order, Usernames, TypeOK
<1>1. TypeOK'
  BY <1>0, RequestType DEF TypeOK, Running, Answered
<1>2. Others(r)
  BY DEF Others, TypeOK
<1>3. Order(r)' /\ ~UserPending(r)'
  BY <1>0, RequestType DEF Order, UserPending, TypeOK, Kind, Given, Generates, Running
<1> QED
  BY <1>1, <1>2, <1>3, ThinkingStep

(* Looking for the name among the representatives keeps it. *)
LEMMA CountRepsKeeps ==
    ASSUME TableInvariant, NEW r \in Registrations, CountReps(r)
    PROVE  TableInvariant'
<1> TypeOK /\ StepsInOrder /\ Order(r)
  BY DEF TableInvariant, StepsInOrder, Order
<1> USE DEF CountReps, Goto, Refuse, Taken, database, calls
<1>0. name'[r] \in Usernames /\ (Given(r) => name' = name)
  BY DEF Order, Usernames, TypeOK
<1>1. TypeOK'
  BY <1>0, RequestType DEF TypeOK, Running, Answered
<1>2. Others(r)
  BY DEF Others, TypeOK
<1>3. Order(r)' /\ ~UserPending(r)'
  BY <1>0, RequestType DEF Order, UserPending, TypeOK, Kind, Given, Generates, Running
<1> QED
  BY <1>1, <1>2, <1>3, ThinkingStep

(* Looking for the role keeps it: a role that is there stays. *)
LEMMA EnsureRoleKeeps ==
    ASSUME TableInvariant, NEW r \in Registrations, EnsureRole(r)
    PROVE  TableInvariant'
<1> TypeOK /\ StepsInOrder /\ Order(r)
  BY DEF TableInvariant, StepsInOrder, Order
<1> USE DEF EnsureRole, Goto, Refuse, Taken, database, calls
<1>1. TypeOK'
  BY RequestType DEF TypeOK, Running, Answered
<1>2. Others(r)
  BY DEF Others, TypeOK
<1>3. Order(r)' /\ ~UserPending(r)'
  BY RequestType DEF Order, UserPending, TypeOK, Kind, Given, Generates, Running
<1> QED
  BY <1>1, <1>2, <1>3, ThinkingStep

(* Inserting the role keeps it: the role is there, or its transaction has  *)
(* it.                                                                     *)
LEMMA CreateRoleKeeps ==
    ASSUME TableInvariant, NEW r \in Registrations, CreateRole(r)
    PROVE  TableInvariant'
<1> TypeOK /\ StepsInOrder /\ Order(r)
  BY DEF TableInvariant, StepsInOrder, Order
<1> USE DEF CreateRole, Goto, Refuse, Taken, database, calls
<1>1. TypeOK'
  BY RequestType DEF TypeOK, Running, Answered
<1>2. Others(r)
  BY DEF Others, TypeOK
<1>3. Order(r)' /\ ~UserPending(r)'
  BY RequestType DEF Order, UserPending, TypeOK, Kind, Given, Generates, Running
<1> QED
  BY <1>1, <1>2, <1>3, ThinkingStep

(* A token, made or not, keeps it: the account is committed. *)
LEMMA AnswerKeeps ==
    ASSUME TableInvariant, NEW r \in Registrations, Answer(r)
    PROVE  TableInvariant'
<1> TypeOK /\ StepsInOrder /\ Order(r)
  BY DEF TableInvariant, StepsInOrder, Order
<1> USE DEF Answer, Goto, Refuse, Taken, database, calls
<1>1. TypeOK'
  BY RequestType DEF TypeOK, Running, Answered
<1>2. Others(r)
  BY DEF Others, TypeOK
<1>3. Order(r)' /\ ~UserPending(r)'
  BY RequestType DEF Order, UserPending, TypeOK, Kind, Given, Generates, Running
<1> QED
  BY <1>1, <1>2, <1>3, ThinkingStep

(* A failing statement keeps it: what was inserted is not committed. *)
LEMMA FaultKeeps ==
    ASSUME TableInvariant, NEW r \in Registrations, Fault(r)
    PROVE  TableInvariant'
<1> TypeOK /\ StepsInOrder /\ Order(r)
  BY DEF TableInvariant, StepsInOrder, Order
<1> USE DEF Fault, Goto, Refuse, Taken, database, calls
<1>1. TypeOK'
  BY RequestType DEF TypeOK, Running, Answered
<1>2. Others(r)
  BY DEF Others, TypeOK
<1>3. Order(r)' /\ ~UserPending(r)'
  BY RequestType DEF Order, UserPending, TypeOK, Kind, Given, Generates, Running
<1> QED
  BY <1>1, <1>2, <1>3, ThinkingStep

(* A rollback keeps it: nothing of a failed request is in the tables. *)
LEMMA RollbackKeeps ==
    ASSUME TableInvariant, NEW r \in Registrations, Rollback(r)
    PROVE  TableInvariant'
<1> TypeOK /\ StepsInOrder /\ Order(r)
  BY DEF TableInvariant, StepsInOrder, Order
<1> USE DEF Rollback, Goto, Refuse, Taken, database, calls
<1>1. TypeOK'
  BY RequestType DEF TypeOK, Running, Answered
<1>2. Others(r)
  BY DEF Others, TypeOK
<1>3. Order(r)' /\ ~UserPending(r)'
  BY RequestType DEF Order, UserPending, TypeOK, Kind, Given, Generates, Running
<1> QED
  BY <1>1, <1>2, <1>3, ThinkingStep

(* A login that has read its row keeps it. *)
LEMMA LoginSalesRepKeeps ==
    ASSUME TableInvariant, NEW r \in Registrations, LoginSalesRep(r)
    PROVE  TableInvariant'
<1> TypeOK /\ StepsInOrder /\ Order(r)
  BY DEF TableInvariant, StepsInOrder, Order
<1> USE DEF LoginSalesRep, Goto, Refuse, Taken, database, calls
<1>0. r \in DOMAIN reps /\ reps[r] \in Usernames \cup {Blank} /\ reps[r] # None
  BY NamesAssumption DEF Found, TypeOK
<1>1. TypeOK'
  BY <1>0, RequestType DEF TypeOK, Running, Answered
<1>2. Others(r)
  BY DEF Others, TypeOK
<1>3. Order(r)' /\ ~UserPending(r)'
  BY <1>0, RequestType DEF Order, UserPending, TypeOK, Kind, Given, Generates, Running
<1> QED
  BY <1>1, <1>2, <1>3, ThinkingStep

(* Clashes are mutual. *)
LEMMA ClashSymmetric ==
    ASSUME NEW e1, NEW n1, NEW e2, NEW n2
    PROVE  Clash(e1, n1, e2, n2) <=> Clash(e2, n2, e1, n1)
  BY DEF Clash

(* An inserted user clashes with no committed one and no other inserted    *)
(* one.                                                                    *)
LEMMA InsertUserKeeps ==
    ASSUME TableInvariant, NEW r \in Registrations, InsertUser(r)
    PROVE  TableInvariant'
<1> TypeOK /\ StepsInOrder /\ RowsAreUnique /\ SeederHasFound /\ Order(r)
  BY DEF TableInvariant, StepsInOrder, Order
<1> USE DEF InsertUser, Goto, Refuse, database, calls
<1>1. TypeOK'
  BY RequestType DEF TypeOK, Running, Answered
<1>2. Others(r)
  BY DEF Others, TypeOK
<1>3. Order(r)'
  BY RequestType DEF Order, TypeOK, Kind, Given
<1>4. CASE UserTaken(request[r].email, name[r], None)
  BY <1>1, <1>2, <1>3, <1>4, ThinkingStep DEF UserPending, TypeOK
<1>5. CASE ~UserTaken(request[r].email, name[r], None)
  <2>1. /\ ~UserAwaited(request[r].email, name[r], r)
        /\ pc' = [pc EXCEPT ![r] = IF Kind(r) = "sales_rep" THEN "insertRep" ELSE "commit"]
        /\ request' = request /\ name' = name /\ users' = users /\ reps' = reps
    BY <1>5
  <2>2. \A q \in Registrations : Kind(q)' = Kind(q) /\ (q # r => (UserPending(q)' <=> UserPending(q)))
    BY <2>1 DEF Kind, UserPending, TypeOK
  <2>3. ~UserPending(r)
    BY DEF UserPending
  <2>4. ASSUME NEW q \in Registrations, UserPending(q)'
        PROVE  /\ ~UserTaken(request[q].email, name[q], None)'
               /\ ~UserAwaited(request[q].email, name[q], q)'
    <3>1. CASE q = r
      BY <1>5, <2>1, <2>2, <3>1 DEF UserTaken, UserAwaited
    <3>2. CASE q # r
      <4>1. ~Clash(request[q].email, name[q], request[r].email, name[r])
        BY <2>1, <2>2, <2>4, <3>2, ClashSymmetric DEF UserAwaited
      <4>2. /\ ~UserTaken(request[q].email, name[q], None)
            /\ ~UserAwaited(request[q].email, name[q], q)
        BY <2>2, <2>4, <3>2 DEF RowsAreUnique
      <4> QED
        BY <2>1, <2>2, <4>1, <4>2 DEF UserTaken, UserAwaited
    <3> QED
      BY <3>1, <3>2
  <2>5. \A q \in Registrations : pc'[q] = "commit" /\ Kind(q)' = "sales_rep" => q # r /\ pc[q] = "commit"
    BY <2>1, <2>2 DEF TypeOK
  <2>6. \A q \in Registrations : pc'[q] = "commit" /\ Kind(q)' = "sales_rep" =>
          ~RepTaken(name[q], None)' /\ ~RepAwaited(name[q], q)'
    BY <2>1, <2>2, <2>5 DEF RowsAreUnique, RepTaken, RepAwaited
  <2>7. RowsAreUnique'
    BY <2>1, <2>4, <2>6 DEF RowsAreUnique
  <2>8. StepsInOrder'
    BY <1>2, <1>3, ThinkingKeepsOthers DEF StepsInOrder, Order
  <2> QED
    BY <1>1, <2>7, <2>8 DEF TableInvariant, SeederHasFound
<1> QED
  BY <1>4, <1>5

(* Nor does an inserted representative. *)
LEMMA InsertSalesRepKeeps ==
    ASSUME TableInvariant, NEW r \in Registrations, InsertSalesRep(r)
    PROVE  TableInvariant'
<1> TypeOK /\ StepsInOrder /\ RowsAreUnique /\ SeederHasFound /\ Order(r)
  BY DEF TableInvariant, StepsInOrder, Order
<1> USE DEF InsertSalesRep, Goto, Refuse, database, calls
<1>1. TypeOK'
  BY RequestType DEF TypeOK, Running, Answered
<1>2. Others(r)
  BY DEF Others, TypeOK
<1>3. Order(r)'
  BY RequestType DEF Order, TypeOK, Kind, Given
<1>4. CASE RepTaken(name[r], None)
  BY <1>1, <1>2, <1>3, <1>4, ThinkingStep DEF UserPending, TypeOK
<1>5. CASE ~RepTaken(name[r], None)
  <2>1. /\ ~RepAwaited(name[r], r)
        /\ pc' = [pc EXCEPT ![r] = "commit"]
        /\ request' = request /\ name' = name /\ users' = users /\ reps' = reps
    BY <1>5
  <2>2. \A q \in Registrations : Kind(q)' = Kind(q) /\ (UserPending(q)' <=> UserPending(q))
    BY <2>1 DEF Kind, UserPending, TypeOK
  <2>3. \A q \in Registrations : UserPending(q)' =>
          /\ ~UserTaken(request[q].email, name[q], None)'
          /\ ~UserAwaited(request[q].email, name[q], q)'
    BY <2>1, <2>2 DEF RowsAreUnique, UserTaken, UserAwaited
  <2>4. ASSUME NEW q \in Registrations, pc'[q] = "commit", Kind(q)' = "sales_rep"
        PROVE  ~RepTaken(name[q], None)' /\ ~RepAwaited(name[q], q)'
    <3>1. CASE q = r
      BY <1>5, <2>1, <2>2, <3>1 DEF RepTaken, RepAwaited, TypeOK
    <3>2. CASE q # r
      <4>1. pc[q] = "commit" /\ Kind(q) = "sales_rep" /\ name[q] # name[r]
        BY <2>1, <2>2, <2>4, <3>2 DEF RepAwaited, TypeOK
      <4> QED
        BY <2>1, <2>2, <4>1 DEF RowsAreUnique, RepTaken, RepAwaited, TypeOK
    <3> QED
      BY <3>1, <3>2
  <2>5. RowsAreUnique'
    BY <2>1, <2>3, <2>4 DEF RowsAreUnique
  <2>6. StepsInOrder'
    BY <1>2, <1>3, ThinkingKeepsOthers DEF StepsInOrder, Order
  <2> QED
    BY <1>1, <2>5, <2>6 DEF TableInvariant, SeederHasFound
<1> QED
  BY <1>4, <1>5

(* A commit, answered or not, adds the rows that were inserted, and they   *)
(* clash with none.                                                        *)
LEMMA CommitKeeps ==
    ASSUME TableInvariant, NEW r \in Registrations, Commit(r) \/ CommitUnanswered(r)
    PROVE  TableInvariant'
<1> TypeOK /\ StepsInOrder /\ RowsAreUnique /\ SeederHasFound /\ Order(r)
  BY DEF TableInvariant, StepsInOrder, Order
<1>1. /\ pc[r] = "commit"
      /\ \/ \E next \in {"ok", "token"} : pc' = [pc EXCEPT ![r] = next] /\ why' = why
         \/ pc' = [pc EXCEPT ![r] = "failed"] /\ why' = [why EXCEPT ![r] = "cut"]
      /\ roles' = roles \cup IF madeRole[r] THEN {Kind(r)} ELSE {}
      /\ users' = With(users, r, Row(r))
      /\ reps' = IF Kind(r) = "sales_rep" THEN With(reps, r, name[r]) ELSE reps
      /\ request' = request /\ name' = name /\ seen' = seen /\ seeding' = seeding
      /\ madeRole' = [madeRole EXCEPT ![r] = FALSE]
      /\ overlapped' \in [Registrations -> BOOLEAN]
  BY DEF Commit, CommitUnanswered, Stored, Goto, Refuse, Overlap, TypeOK
<1>2. r \notin DOMAIN users /\ r \notin DOMAIN reps
  BY <1>1 DEF Order, TypeOK
<1>3. /\ DOMAIN users' = DOMAIN users \cup {r} /\ users'[r] = Row(r)
      /\ \A a \in DOMAIN users : users'[a] = users[a]
  BY <1>1, <1>2 DEF With
<1>4. /\ DOMAIN reps' = DOMAIN reps \cup IF Kind(r) = "sales_rep" THEN {r} ELSE {}
      /\ Kind(r) = "sales_rep" => reps'[r] = name[r]
      /\ \A a \in DOMAIN reps : reps'[a] = reps[a]
  BY <1>1, <1>2 DEF With
<1>5. Kind(r) \in Kinds /\ Kind(r) \in roles'
  BY <1>1, RequestType DEF Order
<1>6. TypeOK'
  <2>1. Row(r) \in [email : Emails \cup {None}, username : Usernames \cup {None, Blank},
                    roles : SUBSET Kinds]
    BY <1>1, <1>5, RequestType DEF Row, TypeOK
  <2>2. /\ \A a \in DOMAIN users' :
             users'[a] \in [email : Emails \cup {None}, username : Usernames \cup {None, Blank},
                            roles : SUBSET Kinds]
        /\ DOMAIN users' \subseteq Accounts
    BY <1>3, <2>1 DEF TypeOK, Accounts
  <2>3. DOMAIN reps' \subseteq DOMAIN users'
    BY <1>3, <1>4 DEF TypeOK
  <2>4. \A a \in DOMAIN reps' : reps'[a] \in Usernames \cup {Blank}
    BY <1>1, <1>4, RequestType DEF TypeOK
  <2>5. roles' \subseteq Kinds
    BY <1>1, <1>5 DEF TypeOK
  <2>6. pc' \in [Registrations -> {"unsent"} \cup Running \cup Answered]
    BY <1>1 DEF TypeOK, Running, Answered
  <2> QED
    BY <1>1, <2>2, <2>3, <2>4, <2>5, <2>6 DEF TypeOK
<1>7. Others(r)
  BY <1>1 DEF Others, TypeOK
<1>8. \A q \in Registrations : Kind(q)' = Kind(q) /\ Given(q)' = Given(q)
  BY <1>1 DEF Kind, Given
<1>9. StepsInOrder'
  <2>1. ASSUME NEW q \in Registrations \ {r} PROVE Order(q)'
    <3>1. Order(q)
      BY DEF StepsInOrder, Order
    <3>2. roles \subseteq roles' /\ (q \in DOMAIN users' <=> q \in DOMAIN users)
          /\ (q \in DOMAIN reps' <=> q \in DOMAIN reps)
          /\ (q \in DOMAIN users => users'[q] = users[q])
      BY <1>1, <1>3, <1>4
    <3> QED
      BY <1>7, <1>8, <3>1, <3>2 DEF Order, Others
  <2>2. Order(r)'
    <3>1. /\ pc'[r] \in {"ok", "token"} \/ (pc'[r] = "failed" /\ why'[r] = "cut")
          /\ r \in DOMAIN users' /\ users'[r].roles = {Kind(r)}
          /\ Kind(r) = "sales_rep" => r \in DOMAIN reps'
      <4>1. pc'[r] \in {"ok", "token"} \/ (pc'[r] = "failed" /\ why'[r] = "cut")
        BY <1>1 DEF TypeOK
      <4>2. users'[r].roles = {Kind(r)}
        BY <1>3 DEF Row
      <4> QED
        BY <1>3, <1>4, <4>1, <4>2
    <3> QED
      BY <1>1, <1>5, <1>8, <3>1 DEF Order
  <2> QED
    BY <2>1, <2>2 DEF StepsInOrder, Order
<1>10. RowsAreUnique'
  <2>1. UserPending(r) /\ ~UserPending(r)'
    BY <1>1 DEF UserPending, TypeOK
  <2>2. \A q \in Registrations : UserPending(q)' => q # r /\ UserPending(q)
    BY <1>7, <2>1 DEF Others, UserPending
  <2>3. \A q \in Registrations : pc'[q] = "commit" => q # r /\ pc[q] = "commit"
    BY <1>7, <2>1 DEF Others, UserPending
  <2>4. \A a, b \in DOMAIN users' :
          a # b => ~Clash(users'[a].email, users'[a].username, users'[b].email, users'[b].username)
    <3>1. \A a \in DOMAIN users :
            ~Clash(request[r].email, name[r], users[a].email, users[a].username)
      <4>1. None \notin DOMAIN users
        BY NamesAssumption DEF TypeOK
      <4> QED
        BY <2>1, <4>1 DEF RowsAreUnique, UserTaken
    <3>2. users'[r].email = request[r].email /\ users'[r].username = name[r]
      BY <1>3 DEF Row
    <3> QED
      BY <1>3, <3>1, <3>2, ClashSymmetric DEF RowsAreUnique
  <2>5. \A a, b \in DOMAIN reps' : a # b => reps'[a] # reps'[b]
    <3>1. Kind(r) = "sales_rep" => \A a \in DOMAIN reps : reps[a] # name[r]
      <4>1. None \notin DOMAIN reps
        BY NamesAssumption DEF TypeOK
      <4> QED
        BY <1>1, <4>1 DEF RowsAreUnique, RepTaken
    <3> QED
      BY <1>4, <3>1 DEF RowsAreUnique
  <2>6. ASSUME NEW q \in Registrations, UserPending(q)'
        PROVE  /\ ~UserTaken(request[q].email, name[q], None)'
               /\ ~UserAwaited(request[q].email, name[q], q)'
    <3>1. q # r /\ UserPending(q)
      BY <2>2, <2>6
    <3>2. /\ ~UserTaken(request[q].email, name[q], None)
          /\ ~UserAwaited(request[q].email, name[q], q)
      BY <3>1 DEF RowsAreUnique
    <3>3. ~Clash(request[q].email, name[q], request[r].email, name[r])
      BY <2>1, <3>1, <3>2 DEF UserAwaited
    <3>4. users'[r].email = request[r].email /\ users'[r].username = name[r]
      BY <1>3 DEF Row
    <3>5. ~UserTaken(request[q].email, name[q], None)'
      BY <1>1, <1>3, <3>2, <3>3, <3>4 DEF UserTaken
    <3>6. ~UserAwaited(request[q].email, name[q], q)'
      BY <1>1, <2>2, <3>2 DEF UserAwaited
    <3> QED
      BY <3>5, <3>6
  <2>7. ASSUME NEW q \in Registrations, pc'[q] = "commit", Kind(q)' = "sales_rep"
        PROVE  ~RepTaken(name[q], None)' /\ ~RepAwaited(name[q], q)'
    <3>1. q # r /\ pc[q] = "commit" /\ Kind(q) = "sales_rep"
      BY <1>8, <2>3, <2>7
    <3>2. ~RepTaken(name[q], None) /\ ~RepAwaited(name[q], q)
      BY <3>1 DEF RowsAreUnique
    <3>3. Kind(r) = "sales_rep" => name[r] # name[q]
      BY <1>1, <3>1, <3>2 DEF RepAwaited
    <3>4. ~RepTaken(name[q], None)'
      BY <1>1, <1>4, <3>2, <3>3 DEF RepTaken
    <3>5. ~RepAwaited(name[q], q)'
      BY <1>1, <1>8, <2>3, <3>2 DEF RepAwaited
    <3> QED
      BY <3>4, <3>5
  <2> QED
    BY <2>4, <2>5, <2>6, <2>7 DEF RowsAreUnique
<1> QED
  BY <1>1, <1>3, <1>6, <1>9, <1>10 DEF TableInvariant, SeederHasFound

(* A login that is saved, with a name that may be stale, keeps the names   *)
(* of the representatives apart: the index refuses one that is taken.      *)
LEMMA SaveLoginKeeps ==
    ASSUME TableInvariant, NEW r \in Registrations, SaveLogin(r)
    PROVE  TableInvariant'
<1> TypeOK /\ StepsInOrder /\ RowsAreUnique /\ SeederHasFound /\ Order(r)
  BY DEF TableInvariant, StepsInOrder, Order
<1>1. /\ pc[r] = "saveLogin" /\ pc' = [pc EXCEPT ![r] = "ok"]
      /\ RepTaken(seen[r], r) \/ ~RepAwaited(seen[r], r)
      /\ reps' = IF RepTaken(seen[r], r) THEN reps ELSE [reps EXCEPT ![r] = seen[r]]
      /\ seen' = [seen EXCEPT ![r] = None]
      /\ roles' = roles /\ users' = users /\ request' = request /\ name' = name
      /\ madeRole' = madeRole /\ why' = why /\ seeding' = seeding
      /\ overlapped' \in [Registrations -> BOOLEAN]
  BY DEF SaveLogin, Goto, Overlap, TypeOK
<1>2. r \in DOMAIN reps /\ seen[r] \in Usernames \cup {Blank} /\ r \in DOMAIN users
  BY <1>1 DEF Order, TypeOK
<1>3. /\ DOMAIN reps' = DOMAIN reps
      /\ \A a \in DOMAIN reps \ {r} : reps'[a] = reps[a]
      /\ reps'[r] = IF RepTaken(seen[r], r) THEN reps[r] ELSE seen[r]
  BY <1>1, <1>2
<1>4. TypeOK'
  <2>1. \A a \in DOMAIN reps' : reps'[a] \in Usernames \cup {Blank}
    BY <1>2, <1>3 DEF TypeOK
  <2> QED
    BY <1>1, <1>3, <2>1 DEF TypeOK, Answered
<1>5. Others(r)
  BY <1>1 DEF Others, TypeOK
<1>6. \A q \in Registrations : Kind(q)' = Kind(q) /\ Given(q)' = Given(q)
  BY <1>1 DEF Kind, Given
<1>7. StepsInOrder'
  <2>1. ASSUME NEW q \in Registrations \ {r} PROVE Order(q)'
    BY <1>1, <1>3, <1>5, <1>6 DEF StepsInOrder, Order, Others
  <2>2. Order(r)'
    <3>1. pc'[r] = "ok"
      BY <1>1 DEF TypeOK
    <3> QED
      BY <1>1, <1>2, <1>3, <1>6, <3>1 DEF Order
  <2> QED
    BY <2>1, <2>2 DEF StepsInOrder, Order
<1>8. \A q \in Registrations :
        /\ UserPending(q)' <=> UserPending(q)
        /\ pc'[q] = "commit" <=> pc[q] = "commit"
  BY <1>1 DEF UserPending, TypeOK
<1>9. RowsAreUnique'
  <2>1. \A a, b \in DOMAIN reps' : a # b => reps'[a] # reps'[b]
    BY <1>2, <1>3 DEF RowsAreUnique, RepTaken
  <2>2. \A q \in Registrations : UserPending(q)' =>
          /\ ~UserTaken(request[q].email, name[q], None)'
          /\ ~UserAwaited(request[q].email, name[q], q)'
    BY <1>1, <1>8 DEF RowsAreUnique, UserTaken, UserAwaited
  <2>3. ASSUME NEW q \in Registrations, pc'[q] = "commit", Kind(q)' = "sales_rep"
        PROVE  ~RepTaken(name[q], None)' /\ ~RepAwaited(name[q], q)'
    <3>1. pc[q] = "commit" /\ Kind(q) = "sales_rep" /\ q # r
      BY <1>1, <1>6, <1>8, <2>3
    <3>2. ~RepTaken(name[q], None) /\ ~RepAwaited(name[q], q)
      BY <3>1 DEF RowsAreUnique
    <3>3. RepTaken(seen[r], r) \/ seen[r] # name[q]
      BY <1>1, <3>1 DEF RepAwaited
    <3>4. ~RepTaken(name[q], None)'
      BY <1>1, <1>3, <3>2, <3>3 DEF RepTaken
    <3>5. ~RepAwaited(name[q], q)'
      BY <1>1, <1>6, <1>8, <3>2 DEF RepAwaited
    <3> QED
      BY <3>4, <3>5
  <2> QED
    BY <1>1, <2>1, <2>2, <2>3 DEF RowsAreUnique
<1> QED
  BY <1>1, <1>4, <1>7, <1>9 DEF TableInvariant, SeederHasFound

(* The seed is an account the tables may hold. *)
LEMMA SeedType == /\ Seed.kind \in Kinds /\ Seed.email \in Emails
                  /\ Seed.username \in Usernames /\ Seed.username # None /\ Seed.email # None
<1>1. Seed.email \in Emails
  BY SeedAssumption, LowerAssumption
<1> QED
  BY <1>1, SeedAssumption, NamesAssumption DEF Kinds

(* The seeder's own steps leave the registrations alone. *)
LEMMA SeederReads ==
    ASSUME TableInvariant, UNCHANGED <<database, calls, seen>>, TypeOK', SeederHasFound'
    PROVE  TableInvariant'
<1> StepsInOrder /\ RowsAreUnique
  BY DEF TableInvariant
<1>1. StepsInOrder'
  BY DEF StepsInOrder, Kind, Given, database, calls
<1>2. RowsAreUnique'
  BY DEF RowsAreUnique, Kind, UserPending, UserTaken, UserAwaited, RepTaken, RepAwaited,
         database, calls
<1> QED
  BY <1>1, <1>2 DEF TableInvariant

(* Whatever the seeder looks up is in the tables. *)
LEMMA SeederLooksKeeps ==
    ASSUME TableInvariant,
           \/ SeedStarts \/ SeedStops \/ SeedFindsRole
           \/ SeedFindsUser("byEmail", "byUsername") \/ SeedFindsUser("byUsername", "save")
           \/ SeedFindsRep
    PROVE  TableInvariant'
<1> TypeOK /\ SeederHasFound
  BY DEF TableInvariant
<1>1. UNCHANGED <<database, calls, seen>>
  BY DEF SeedStarts, SeedStops, SeedFindsRole, SeedFindsUser, SeedFindsRep
<1>2. TypeOK' /\ SeederHasFound'
  <2>1. CASE SeedStarts \/ SeedStops \/ SeedFindsRole
    BY <1>1, <2>1 DEF SeedStarts, SeedStops, SeedFindsRole, SeedGoes, NoSeeding, TypeOK,
       SeederHasFound, database, calls
  <2>2. CASE SeedFindsUser("byEmail", "byUsername") \/ SeedFindsUser("byUsername", "save")
    <3>1. \/ seeding' = [seeding EXCEPT !.pc = "byUsername"]
          \/ seeding' = [seeding EXCEPT !.pc = "save"]
          \/ \E a \in DOMAIN users : seeding' = [seeding EXCEPT !.pc = "save", !.user = a]
      BY <2>2 DEF SeedFindsUser, SeedGoes
    <3> QED
      BY <1>1, <3>1 DEF TypeOK, SeederHasFound, database, calls
  <2>3. CASE SeedFindsRep
    <3>1. seeding.pc = "findRep" /\ seeding.user \in DOMAIN users
      BY <2>3 DEF SeedFindsRep, SeederHasFound
    <3>2. \E a \in DOMAIN reps \cup {seeding.user} :
             seeding' = [seeding EXCEPT !.pc = "saveRep", !.rep = a]
      BY <2>3 DEF SeedFindsRep
    <3>3. PICK a \in DOMAIN users : seeding' = [seeding EXCEPT !.pc = "saveRep", !.rep = a]
      BY <3>1, <3>2 DEF TypeOK
    <3> QED
      BY <1>1, <3>1, <3>3 DEF TypeOK, SeederHasFound, database, calls
  <2> QED
    BY <2>1, <2>2, <2>3
<1> QED
  BY <1>1, <1>2, SeederReads

(* A role the seeder inserts is one more role. *)
LEMMA SeedInsertsRoleKeeps ==
    ASSUME TableInvariant, SeedInsertsRole
    PROVE  TableInvariant'
<1> TypeOK /\ StepsInOrder /\ RowsAreUnique /\ SeederHasFound
  BY DEF TableInvariant
<1>1. /\ roles' = roles \cup {Seed.kind} /\ overlapped' \in [Registrations -> BOOLEAN]
      /\ seeding' = [seeding EXCEPT !.pc = "byEmail"]
      /\ users' = users /\ reps' = reps /\ pc' = pc /\ request' = request /\ name' = name
      /\ madeRole' = madeRole /\ why' = why /\ seen' = seen
  BY DEF SeedInsertsRole, SeedGoes, Overlap, TypeOK
<1>2. TypeOK'
  BY <1>1, SeedType DEF TypeOK
<1>3. StepsInOrder'
  BY <1>1 DEF StepsInOrder, Kind, Given
<1>4. RowsAreUnique'
  BY <1>1 DEF RowsAreUnique, Kind, UserPending, UserTaken, UserAwaited, RepTaken, RepAwaited
<1>5. SeederHasFound'
  BY <1>1 DEF SeederHasFound, TypeOK
<1> QED
  BY <1>2, <1>3, <1>4, <1>5 DEF TableInvariant

(* An account the seeder saves keeps its roles, and takes no name or       *)
(* address of another one.                                                 *)
LEMMA SeedSavesUserKeeps ==
    ASSUME TableInvariant, SeedSavesUser
    PROVE  TableInvariant'
<1> TypeOK /\ StepsInOrder /\ RowsAreUnique /\ SeederHasFound
  BY DEF TableInvariant
<1> DEFINE a == IF seeding.user = None THEN Seeder ELSE seeding.user
           old == IF a \in DOMAIN users THEN users[a].roles ELSE {}
           row == [email |-> Seed.email, username |-> Seed.username, roles |-> old]
<1>1. /\ ~UserTaken(Seed.email, Seed.username, a)
      /\ ~UserAwaited(Seed.email, Seed.username, None)
      /\ users' = With(users, a, row) /\ seeding.pc = "save"
      /\ overlapped' \in [Registrations -> BOOLEAN]
      /\ seeding' = [seeding EXCEPT !.pc = "link", !.user = a]
      /\ roles' = roles /\ reps' = reps /\ pc' = pc /\ request' = request /\ name' = name
      /\ madeRole' = madeRole /\ why' = why /\ seen' = seen
  BY DEF SeedSavesUser, Overlap, TypeOK
<1>2. a \in Accounts /\ a # None
  BY NamesAssumption DEF TypeOK, Accounts
<1>3. a \in Registrations => a \in DOMAIN users
  BY NamesAssumption DEF SeederHasFound
<1>4. /\ row.email = Seed.email /\ row.username = Seed.username
      /\ a \in DOMAIN users => row.roles = users[a].roles
      /\ row \in [email : Emails \cup {None}, username : Usernames \cup {None, Blank},
                  roles : SUBSET Kinds]
  BY SeedType DEF TypeOK
<1> HIDE DEF a, row, old
<1>5. /\ DOMAIN users' = DOMAIN users \cup {a} /\ users'[a] = row
      /\ \A b \in DOMAIN users \ {a} : users'[b] = users[b]
  BY <1>1 DEF With
<1>6. TypeOK'
  <2>1. \A b \in DOMAIN users' :
          users'[b] \in [email : Emails \cup {None}, username : Usernames \cup {None, Blank},
                         roles : SUBSET Kinds]
    BY <1>4, <1>5 DEF TypeOK
  <2>2. DOMAIN users' \subseteq Accounts /\ DOMAIN reps' \subseteq DOMAIN users'
    BY <1>1, <1>2, <1>5 DEF TypeOK
  <2> QED
    BY <1>1, <1>2, <2>1, <2>2 DEF TypeOK
<1>7. StepsInOrder'
  BY <1>1, <1>3, <1>4, <1>5 DEF StepsInOrder, Kind, Given
<1>8. RowsAreUnique'
  <2>1. \A b \in DOMAIN users \ {a} :
          ~Clash(row.email, row.username, users[b].email, users[b].username)
    BY <1>1, <1>4 DEF UserTaken
  <2>2. \A b, c \in DOMAIN users' :
          b # c => ~Clash(users'[b].email, users'[b].username, users'[c].email, users'[c].username)
    BY <1>5, <2>1, ClashSymmetric DEF RowsAreUnique
  <2>3. ASSUME NEW q \in Registrations, UserPending(q)'
        PROVE  /\ ~UserTaken(request[q].email, name[q], None)'
               /\ ~UserAwaited(request[q].email, name[q], q)'
    <3>1. UserPending(q) /\ q # None
      BY <1>1, <2>3, NamesAssumption DEF UserPending, Accounts
    <3>2. ~Clash(request[q].email, name[q], row.email, row.username)
      BY <1>1, <1>4, <3>1, ClashSymmetric DEF UserAwaited
    <3>3. /\ ~UserTaken(request[q].email, name[q], None)
          /\ ~UserAwaited(request[q].email, name[q], q)
      BY <3>1 DEF RowsAreUnique
    <3>4. ~UserTaken(request[q].email, name[q], None)'
      BY <1>1, <1>5, <3>2, <3>3 DEF UserTaken
    <3>5. ~UserAwaited(request[q].email, name[q], q)'
      BY <1>1, <3>3 DEF UserAwaited, UserPending
    <3> QED
      BY <3>4, <3>5
  <2>4. \A q \in Registrations : pc'[q] = "commit" /\ Kind(q)' = "sales_rep" =>
          ~RepTaken(name[q], None)' /\ ~RepAwaited(name[q], q)'
    BY <1>1 DEF RowsAreUnique, RepTaken, RepAwaited, Kind
  <2> QED
    BY <1>1, <2>2, <2>3, <2>4 DEF RowsAreUnique
<1>9. SeederHasFound'
  BY <1>1, <1>2, <1>5 DEF SeederHasFound, TypeOK
<1> QED
  BY <1>6, <1>7, <1>8, <1>9 DEF TableInvariant

(* A role the seeder links adds to those of the account. *)
LEMMA SeedLinksRoleKeeps ==
    ASSUME TableInvariant, SeedLinksRole
    PROVE  TableInvariant'
<1> TypeOK /\ StepsInOrder /\ RowsAreUnique /\ SeederHasFound
  BY DEF TableInvariant
<1> DEFINE a == seeding.user
<1>1. /\ a \in DOMAIN users /\ seeding.pc = "link"
      /\ users' = [users EXCEPT ![a].roles = @ \cup {Seed.kind}]
      /\ seeding' = NoSeeding \/ seeding' = [seeding EXCEPT !.pc = "findRep"]
      /\ roles' = roles /\ reps' = reps /\ pc' = pc /\ request' = request /\ name' = name
      /\ madeRole' = madeRole /\ why' = why /\ seen' = seen /\ overlapped' = overlapped
  BY DEF SeedLinksRole, SeedGoes, SeederHasFound, calls
<1>2. /\ DOMAIN users' = DOMAIN users
      /\ \A b \in DOMAIN users :
            /\ users'[b].email = users[b].email /\ users'[b].username = users[b].username
            /\ users[b].roles \subseteq users'[b].roles
            /\ users'[b] \in [email : Emails \cup {None}, username : Usernames \cup {None, Blank},
                              roles : SUBSET Kinds]
  BY <1>1, SeedType DEF TypeOK
<1>3. TypeOK'
  BY <1>1, <1>2 DEF TypeOK, NoSeeding
<1>4. StepsInOrder'
  BY <1>1, <1>2 DEF StepsInOrder, Kind, Given
<1>5. RowsAreUnique'
  BY <1>1, <1>2 DEF RowsAreUnique, Kind, UserPending, UserTaken, UserAwaited, RepTaken, RepAwaited
<1>6. SeederHasFound'
  BY <1>1, <1>2 DEF SeederHasFound, NoSeeding, TypeOK
<1> QED
  BY <1>3, <1>4, <1>5, <1>6 DEF TableInvariant

(* A representative the seeder saves takes no name of another one.         *)
LEMMA SeedSavesRepKeeps ==
    ASSUME TableInvariant, SeedSavesRep
    PROVE  TableInvariant'
<1> TypeOK /\ StepsInOrder /\ RowsAreUnique /\ SeederHasFound
  BY DEF TableInvariant
<1> DEFINE a == seeding.rep
<1>1. /\ a \in DOMAIN users /\ seeding' = NoSeeding
      /\ ~RepTaken(Seed.username, a) /\ ~RepAwaited(Seed.username, a)
      /\ reps' = With(reps, a, Seed.username)
      /\ overlapped' \in [Registrations -> BOOLEAN]
      /\ roles' = roles /\ users' = users /\ pc' = pc /\ request' = request /\ name' = name
      /\ madeRole' = madeRole /\ why' = why /\ seen' = seen
  BY DEF SeedSavesRep, SeederHasFound, Overlap, TypeOK
<1> HIDE DEF a
<1>2. /\ DOMAIN reps' = DOMAIN reps \cup {a} /\ reps'[a] = Seed.username
      /\ \A b \in DOMAIN reps \ {a} : reps'[b] = reps[b]
  BY <1>1 DEF With
<1>3. TypeOK'
  <2>1. /\ DOMAIN reps' \subseteq DOMAIN users'
        /\ \A b \in DOMAIN reps' : reps'[b] \in Usernames \cup {Blank}
    BY <1>1, <1>2, SeedType DEF TypeOK
  <2> QED
    BY <1>1, <2>1 DEF TypeOK, NoSeeding
<1>4. StepsInOrder'
  BY <1>1, <1>2 DEF StepsInOrder, Kind, Given
<1>5. RowsAreUnique'
  <2>1. \A b, c \in DOMAIN reps' : b # c => reps'[b] # reps'[c]
    BY <1>1, <1>2 DEF RowsAreUnique, RepTaken
  <2>2. \A q \in Registrations : UserPending(q)' =>
          /\ ~UserTaken(request[q].email, name[q], None)'
          /\ ~UserAwaited(request[q].email, name[q], q)'
    BY <1>1 DEF RowsAreUnique, UserTaken, UserAwaited, UserPending
  <2>3. ASSUME NEW q \in Registrations, pc'[q] = "commit", Kind(q)' = "sales_rep"
        PROVE  ~RepTaken(name[q], None)' /\ ~RepAwaited(name[q], q)'
    <3>1. pc[q] = "commit" /\ Kind(q) = "sales_rep" /\ q # a
      BY <1>1, <2>3 DEF Kind, StepsInOrder
    <3>2. ~RepTaken(name[q], None) /\ ~RepAwaited(name[q], q)
      BY <3>1 DEF RowsAreUnique
    <3>3. name[q] # Seed.username
      BY <1>1, <3>1 DEF RepAwaited
    <3>4. ~RepTaken(name[q], None)'
      BY <1>1, <1>2, <3>2, <3>3 DEF RepTaken
    <3>5. ~RepAwaited(name[q], q)'
      BY <1>1, <3>2 DEF RepAwaited, Kind
    <3> QED
      BY <3>4, <3>5
  <2> QED
    BY <1>1, <2>1, <2>2, <2>3 DEF RowsAreUnique
<1>6. SeederHasFound'
  BY <1>1 DEF SeederHasFound, NoSeeding
<1> QED
  BY <1>3, <1>4, <1>5, <1>6 DEF TableInvariant

(* The invariant holds of an empty database. *)
LEMMA TablesInitially == Init => TableInvariant
<1> SUFFICES ASSUME Init PROVE TableInvariant
  OBVIOUS
<1>1. DOMAIN users = {} /\ DOMAIN reps = {}
  BY DEF Init
<1>2. TypeOK
  BY <1>1 DEF Init, TypeOK, NoSeeding
<1>3. StepsInOrder /\ RowsAreUnique /\ SeederHasFound
  BY <1>1 DEF Init, StepsInOrder, RowsAreUnique, SeederHasFound, UserPending, NoSeeding
<1> QED
  BY <1>2, <1>3 DEF TableInvariant

(* Every step of a registration, a login and the seeder keeps it. *)
LEMMA TablesStep == TableInvariant /\ [Next]_vars => TableInvariant'
<1> SUFFICES ASSUME TableInvariant, [Next]_vars PROVE TableInvariant'
  OBVIOUS
<1>1. ASSUME NEW r \in Registrations,
             \/ Begin(r) \/ Register(r) \/ Fault(r) \/ CommitUnanswered(r)
             \/ LoginSalesRep(r) \/ SaveLogin(r)
      PROVE  TableInvariant'
  BY <1>1, BeginKeeps, CheckEmailKeeps, CountUsersKeeps, CountRepsKeeps, EnsureRoleKeeps,
     CreateRoleKeeps, InsertUserKeeps, InsertSalesRepKeeps, CommitKeeps, AnswerKeeps,
     RollbackKeeps, FaultKeeps, LoginSalesRepKeeps, SaveLoginKeeps DEF Register
<1>2. CASE SeederNext
  BY <1>2, SeederLooksKeeps, SeedInsertsRoleKeeps, SeedSavesUserKeeps, SeedLinksRoleKeeps,
     SeedSavesRepKeeps DEF SeederNext
<1>3. CASE UNCHANGED vars
  <2>1. TypeOK' /\ SeederHasFound'
    BY <1>3 DEF TableInvariant, TypeOK, SeederHasFound, vars, database, calls
  <2> QED
    BY <1>3, <2>1, SeederReads DEF vars
<1> QED
  BY <1>1, <1>2, <1>3 DEF Next

(* What ChecksStand and CollisionsAreRaces say of one request. *)
Checks(r) ==
    /\ ~overlapped[r] =>
        /\ pc[r] \in {"countUsers", "countReps", "role", "createRole", "insert"} =>
              \A a \in DOMAIN users :
                 users[a].email = None \/ users[a].email # request[r].email
        /\ pc[r] = "countReps" \/ NameChecked(r) =>
              \A a \in DOMAIN users : users[a].username # name[r]
        /\ NameChecked(r) => \A a \in DOMAIN reps : reps[a] # name[r]
        /\ pc[r] = "createRole" => Kind(r) \notin roles
    /\ why[r] = "collision" => overlapped[r] \/ request[r].username = Blank

(* The invariant is the one of the tables and that of every request. *)
LEMMA ChecksParts ==
    RegistrationInvariant <=> TableInvariant /\ \A r \in Registrations : Checks(r)
  BY DEF RegistrationInvariant, ChecksStand, CollisionsAreRaces, Checks

(* The same of the next state. *)
LEMMA ChecksPartsNext ==
    (RegistrationInvariant <=> TableInvariant /\ \A r \in Registrations : Checks(r))'
  BY ChecksParts, PTL

(* A step of r that commits nothing keeps what the others have looked up.  *)
LEMMA QuietStep ==
    ASSUME RegistrationInvariant, NEW r \in Registrations, Others(r), TableInvariant',
           database' = database, overlapped' = overlapped, Checks(r)'
    PROVE  RegistrationInvariant'
<1>1. ASSUME NEW q \in Registrations \ {r} PROVE Checks(q)'
  <2>1. Checks(q)
    BY ChecksParts
  <2>2. Kind(q)' = Kind(q) /\ NameChecked(q)' = NameChecked(q)
    BY DEF Others, Kind, Given, NameChecked
  <2> QED
    BY <2>1, <2>2 DEF Checks, Others, database
<1> QED
  BY <1>1, ChecksPartsNext

(* Whoever is running is told by a commit that what it has looked up may   *)
(* no longer hold.                                                         *)
LEMMA CommittingStep ==
    ASSUME RegistrationInvariant, NEW but, TableInvariant', Overlap(but),
           \A q \in Registrations \ {but} :
              pc'[q] = pc[q] /\ request'[q] = request[q] /\ name'[q] = name[q] /\ why'[q] = why[q],
           but \in Registrations =>
              /\ pc'[but] \in {"ok", "token", "failed"} /\ why'[but] \in {why[but], "cut"}
              /\ request'[but] = request[but]
    PROVE  RegistrationInvariant'
<1>1. ASSUME NEW q \in Registrations \ {but} PROVE Checks(q)'
  <2>1. Checks(q) /\ TypeOK
    BY ChecksParts DEF TableInvariant
  <2>2. overlapped'[q] = (overlapped[q] \/ pc[q] \in Running)
    BY DEF Overlap
  <2>3. ~overlapped'[q] => pc'[q] \notin Running
    BY <2>2
  <2>4. ~overlapped'[q] => ~NameChecked(q)'
    BY <2>3 DEF NameChecked, Running
  <2> QED
    BY <2>1, <2>2, <2>3, <2>4 DEF Checks, Running
<1>2. but \in Registrations => Checks(but)'
  <2>1. but \in Registrations => Checks(but) /\ TypeOK
    BY ChecksParts DEF TableInvariant
  <2>2. but \in Registrations => overlapped'[but] = overlapped[but]
    BY <2>1 DEF Overlap, TypeOK
  <2> QED
    BY <2>1, <2>2 DEF Checks, NameChecked
<1> QED
  BY <1>1, <1>2, ChecksPartsNext

(* None is no account. *)
LEMMA NoneHasRows == TypeOK => None \notin DOMAIN users /\ None \notin DOMAIN reps
  BY NamesAssumption DEF TypeOK

(* An arriving request has looked up nothing. *)
LEMMA BeginChecks ==
    ASSUME RegistrationInvariant, NEW r \in Registrations, Begin(r)
    PROVE  RegistrationInvariant'
<1> /\ TableInvariant /\ TypeOK /\ StepsInOrder /\ Checks(r)
  BY ChecksParts DEF TableInvariant
<1> USE DEF Begin, Goto, Refuse, Taken, database, calls
<1>1. TableInvariant'
  BY BeginKeeps
<1>2. Others(r)
  BY DEF Others, TypeOK
<1>3. Checks(r)'
  <2>1. pc'[r] = "email" /\ why'[r] = "nothing"
    BY DEF TypeOK, StepsInOrder
  <2> QED
    BY <2>1 DEF Checks, NameChecked
<1> QED
  BY <1>1, <1>2, <1>3, QuietStep

(* An address that was found free belongs to nobody. *)
LEMMA CheckEmailChecks ==
    ASSUME RegistrationInvariant, NEW r \in Registrations, CheckEmail(r)
    PROVE  RegistrationInvariant'
<1> /\ TableInvariant /\ TypeOK /\ StepsInOrder /\ Checks(r)
  BY ChecksParts DEF TableInvariant
<1> USE DEF CheckEmail, Goto, Refuse, Taken, database, calls
<1>1. TableInvariant'
  BY CheckEmailKeeps
<1>2. Others(r)
  BY DEF Others, TypeOK
<1>3. Checks(r)'
  <2>1. /\ request' = request /\ name' = name /\ overlapped' = overlapped
        /\ Kind(r)' = Kind(r) /\ Given(r)' = Given(r)
    BY DEF Kind, Given
  <2>2. CASE pc'[r] = "failed"
    BY <2>1, <2>2 DEF Checks, NameChecked, TypeOK
  <2>3. CASE pc'[r] # "failed"
    <3>1. /\ ~\E a \in DOMAIN users :
                /\ users[a].email # None
                /\ request[r].email = IF Kind(r) = "user" THEN users[a].email
                                      ELSE Lower(users[a].email)
          /\ pc'[r] = IF Given(r) THEN "countUsers" ELSE "role"
          /\ why' = why
      BY <2>3 DEF TypeOK
    <3>2. Kind(r) = "user" \/ request[r].email = None \/ Lower(request[r].email) = request[r].email
      BY RequestType, LowerAssumption DEF WellFormed, Kind
    <3>3. \A a \in DOMAIN users : users[a].email = None \/ users[a].email # request[r].email
      BY <3>1, <3>2
    <3> QED
      BY <2>1, <3>1, <3>3 DEF Checks, NameChecked
  <2> QED
    BY <2>2, <2>3
<1> QED
  BY <1>1, <1>2, <1>3, QuietStep

(* So does a name that was found free among the users. *)
LEMMA CountUsersChecks ==
    ASSUME RegistrationInvariant, NEW r \in Registrations, CountUsers(r)
    PROVE  RegistrationInvariant'
<1> /\ TableInvariant /\ TypeOK /\ StepsInOrder /\ Checks(r)
  BY ChecksParts DEF TableInvariant
<1> USE DEF CountUsers, Goto, Refuse, Taken, database, calls
<1>1. TableInvariant'
  BY CountUsersKeeps
<1>2. Others(r)
  BY DEF Others, TypeOK
<1>3. Checks(r)'
  BY RequestType DEF Checks, NameChecked, TypeOK, Kind, Given, Generates, Running
<1> QED
  BY <1>1, <1>2, <1>3, QuietStep

(* And one that was found free among the representatives. *)
LEMMA CountRepsChecks ==
    ASSUME RegistrationInvariant, NEW r \in Registrations, CountReps(r)
    PROVE  RegistrationInvariant'
<1> /\ TableInvariant /\ TypeOK /\ StepsInOrder /\ Checks(r)
  BY ChecksParts DEF TableInvariant
<1> USE DEF CountReps, Goto, Refuse, Taken, database, calls
<1>1. TableInvariant'
  BY CountRepsKeeps
<1>2. Others(r)
  BY DEF Others, TypeOK
<1>3. Checks(r)'
  <2>1. /\ request' = request /\ overlapped' = overlapped
        /\ Kind(r)' = Kind(r) /\ Given(r)' = Given(r)
    BY DEF Kind, Given
  <2>2. CASE RepTaken(name[r], None)
    BY <2>1, <2>2 DEF Checks, NameChecked, TypeOK
  <2>3. CASE ~RepTaken(name[r], None)
    <3>1. pc'[r] = (IF Given(r) THEN "role" ELSE "insert") /\ name' = name /\ why' = why
      BY <2>3 DEF TypeOK
    <3>2. \A a \in DOMAIN reps : reps[a] # name[r]
      BY <2>3, NoneHasRows DEF RepTaken
    <3> QED
      BY <2>1, <3>1, <3>2 DEF Checks, NameChecked
  <2> QED
    BY <2>2, <2>3
<1> QED
  BY <1>1, <1>2, <1>3, QuietStep

(* A role that is created was not there. *)
LEMMA EnsureRoleChecks ==
    ASSUME RegistrationInvariant, NEW r \in Registrations, EnsureRole(r)
    PROVE  RegistrationInvariant'
<1> /\ TableInvariant /\ TypeOK /\ StepsInOrder /\ Checks(r)
  BY ChecksParts DEF TableInvariant
<1> USE DEF EnsureRole, Goto, Refuse, Taken, database, calls
<1>1. TableInvariant'
  BY EnsureRoleKeeps
<1>2. Others(r)
  BY DEF Others, TypeOK
<1>3. Checks(r)'
  BY RequestType DEF Checks, NameChecked, TypeOK, Kind, Given, Generates, Running
<1> QED
  BY <1>1, <1>2, <1>3, QuietStep

(* A role that was created in the meantime was committed in the meantime. *)
LEMMA CreateRoleChecks ==
    ASSUME RegistrationInvariant, NEW r \in Registrations, CreateRole(r)
    PROVE  RegistrationInvariant'
<1> /\ TableInvariant /\ TypeOK /\ StepsInOrder /\ Checks(r)
  BY ChecksParts DEF TableInvariant
<1> USE DEF CreateRole, Goto, Refuse, Taken, database, calls
<1>1. TableInvariant'
  BY CreateRoleKeeps
<1>2. Others(r)
  BY DEF Others, TypeOK
<1>3. Checks(r)'
  BY RequestType DEF Checks, NameChecked, TypeOK, Kind, Given, Generates, Running
<1> QED
  BY <1>1, <1>2, <1>3, QuietStep

(* A user whose row clashes was preceded by a commit, or has a blank name  *)
(* that nobody looked up.                                                  *)
LEMMA InsertUserChecks ==
    ASSUME RegistrationInvariant, NEW r \in Registrations, InsertUser(r)
    PROVE  RegistrationInvariant'
<1> /\ TableInvariant /\ TypeOK /\ StepsInOrder /\ Checks(r)
  BY ChecksParts DEF TableInvariant
<1> USE DEF InsertUser, Goto, Refuse, Taken, database, calls
<1>1. TableInvariant'
  BY InsertUserKeeps
<1>2. Others(r)
  BY DEF Others, TypeOK
<1>3. Checks(r)'
  <2>1. /\ request' = request /\ overlapped' = overlapped /\ name' = name
        /\ Kind(r)' = Kind(r) /\ Given(r)' = Given(r)
    BY DEF Kind, Given
  <2>2. CASE UserTaken(request[r].email, name[r], None)
    <3>1. pc'[r] = "failed" /\ why' = [why EXCEPT ![r] = "collision"]
      BY <2>2 DEF TypeOK
    <3>2. Kind(r) = "user" => name[r] = None
      BY RequestType DEF StepsInOrder, WellFormed, Kind
    <3>3. overlapped[r] \/ request[r].username = Blank
      BY <2>2, <3>2 DEF UserTaken, Clash, Checks, NameChecked
    <3> QED
      BY <2>1, <3>1, <3>3 DEF Checks, NameChecked
  <2>3. CASE ~UserTaken(request[r].email, name[r], None)
    <3>1. why' = why /\ pc'[r] \in {"insertRep", "commit"}
      BY <2>3 DEF TypeOK
    <3> QED
      BY <2>1, <3>1 DEF Checks, NameChecked
  <2> QED
    BY <2>2, <2>3
<1> QED
  BY <1>1, <1>2, <1>3, QuietStep

(* So was a representative. *)
LEMMA InsertSalesRepChecks ==
    ASSUME RegistrationInvariant, NEW r \in Registrations, InsertSalesRep(r)
    PROVE  RegistrationInvariant'
<1> /\ TableInvariant /\ TypeOK /\ StepsInOrder /\ Checks(r)
  BY ChecksParts DEF TableInvariant
<1> USE DEF InsertSalesRep, Goto, Refuse, Taken, database, calls
<1>1. TableInvariant'
  BY InsertSalesRepKeeps
<1>2. Others(r)
  BY DEF Others, TypeOK
<1>3. Checks(r)'
  <2>1. /\ request' = request /\ overlapped' = overlapped /\ name' = name
        /\ Kind(r)' = Kind(r) /\ Given(r)' = Given(r)
    BY DEF Kind, Given
  <2>2. CASE RepTaken(name[r], None)
    <3>1. pc'[r] = "failed" /\ why' = [why EXCEPT ![r] = "collision"]
      BY <2>2 DEF TypeOK
    <3>2. Kind(r) # "user"
      BY DEF StepsInOrder
    <3>3. overlapped[r] \/ request[r].username = Blank
      BY <2>2, <3>2 DEF RepTaken, Checks, NameChecked
    <3> QED
      BY <2>1, <3>1, <3>3 DEF Checks, NameChecked
  <2>3. CASE ~RepTaken(name[r], None)
    <3>1. why' = why /\ pc'[r] = "commit"
      BY <2>3 DEF TypeOK
    <3> QED
      BY <2>1, <3>1 DEF Checks, NameChecked
  <2> QED
    BY <2>2, <2>3
<1> QED
  BY <1>1, <1>2, <1>3, QuietStep

(* What is answered was not refused by an index. *)
LEMMA AnswerChecks ==
    ASSUME RegistrationInvariant, NEW r \in Registrations, Answer(r)
    PROVE  RegistrationInvariant'
<1> /\ TableInvariant /\ TypeOK /\ StepsInOrder /\ Checks(r)
  BY ChecksParts DEF TableInvariant
<1> USE DEF Answer, Goto, Refuse, Taken, database, calls
<1>1. TableInvariant'
  BY AnswerKeeps
<1>2. Others(r)
  BY DEF Others, TypeOK
<1>3. Checks(r)'
  BY RequestType DEF Checks, NameChecked, TypeOK, Kind, Given, Generates, Running
<1> QED
  BY <1>1, <1>2, <1>3, QuietStep

(* Nor is a fault a collision. *)
LEMMA FaultChecks ==
    ASSUME RegistrationInvariant, NEW r \in Registrations, Fault(r)
    PROVE  RegistrationInvariant'
<1> /\ TableInvariant /\ TypeOK /\ StepsInOrder /\ Checks(r)
  BY ChecksParts DEF TableInvariant
<1> USE DEF Fault, Goto, Refuse, Taken, database, calls
<1>1. TableInvariant'
  BY FaultKeeps
<1>2. Others(r)
  BY DEF Others, TypeOK
<1>3. Checks(r)'
  BY RequestType DEF Checks, NameChecked, TypeOK, Kind, Given, Generates, Running
<1> QED
  BY <1>1, <1>2, <1>3, QuietStep

(* A rollback looks up nothing. *)
LEMMA RollbackChecks ==
    ASSUME RegistrationInvariant, NEW r \in Registrations, Rollback(r)
    PROVE  RegistrationInvariant'
<1> /\ TableInvariant /\ TypeOK /\ StepsInOrder /\ Checks(r)
  BY ChecksParts DEF TableInvariant
<1> USE DEF Rollback, Goto, Refuse, Taken, database, calls
<1>1. TableInvariant'
  BY RollbackKeeps
<1>2. Others(r)
  BY DEF Others, TypeOK
<1>3. Checks(r)'
  BY RequestType DEF Checks, NameChecked, TypeOK, Kind, Given, Generates, Running
<1> QED
  BY <1>1, <1>2, <1>3, QuietStep

(* Nor does a login. *)
LEMMA LoginSalesRepChecks ==
    ASSUME RegistrationInvariant, NEW r \in Registrations, LoginSalesRep(r)
    PROVE  RegistrationInvariant'
<1> /\ TableInvariant /\ TypeOK /\ StepsInOrder /\ Checks(r)
  BY ChecksParts DEF TableInvariant
<1> USE DEF LoginSalesRep, Goto, Refuse, Taken, database, calls
<1>1. TableInvariant'
  BY LoginSalesRepKeeps
<1>2. Others(r)
  BY DEF Others, TypeOK
<1>3. Checks(r)'
  BY RequestType DEF Checks, NameChecked, TypeOK, Kind, Given, Generates, Running
<1> QED
  BY <1>1, <1>2, <1>3, QuietStep

(* A commit is one for the others; for its own request it ends the checks. *)
LEMMA CommitChecks ==
    ASSUME RegistrationInvariant, NEW r \in Registrations,
           Commit(r) \/ CommitUnanswered(r) \/ SaveLogin(r)
    PROVE  RegistrationInvariant'
<1> TableInvariant /\ TypeOK
  BY DEF RegistrationInvariant, TableInvariant
<1>1. TableInvariant'
  BY CommitKeeps, SaveLoginKeeps
<1>2. /\ Overlap(r) /\ request' = request /\ name' = name
      /\ \A q \in Registrations \ {r} : pc'[q] = pc[q] /\ why'[q] = why[q]
      /\ pc'[r] \in {"ok", "token", "failed"} /\ why'[r] \in {why[r], "cut"}
  BY DEF Commit, CommitUnanswered, Stored, SaveLogin, Goto, Refuse, TypeOK
<1> QED
  BY <1>1, <1>2, CommittingStep

(* So are the statements of the seeder, but for the one that links a role: *)
(* that one changes no address and no name.                                *)
LEMMA SeederChecks ==
    ASSUME RegistrationInvariant, SeederNext
    PROVE  RegistrationInvariant'
<1> TableInvariant /\ TypeOK /\ SeederHasFound
  BY DEF RegistrationInvariant, TableInvariant
<1>1. TableInvariant'
  BY SeederLooksKeeps, SeedInsertsRoleKeeps, SeedSavesUserKeeps, SeedLinksRoleKeeps,
     SeedSavesRepKeeps DEF SeederNext
<1>2. CASE SeedInsertsRole \/ SeedSavesUser \/ SeedSavesRep
  <2>1. /\ Overlap(None) /\ pc' = pc /\ request' = request /\ name' = name /\ why' = why
        /\ None \notin Registrations
    BY <1>2, NamesAssumption DEF SeedInsertsRole, SeedSavesUser, SeedSavesRep, Accounts
  <2> QED
    BY <1>1, <2>1, CommittingStep
<1>3. CASE ~(SeedInsertsRole \/ SeedSavesUser \/ SeedSavesRep)
  <2>1. /\ UNCHANGED calls /\ roles' = roles /\ reps' = reps
        /\ DOMAIN users' = DOMAIN users
        /\ \A a \in DOMAIN users :
              users'[a].email = users[a].email /\ users'[a].username = users[a].username
    <3>1. CASE SeedLinksRole
      BY <3>1 DEF SeedLinksRole, SeederHasFound, TypeOK
    <3>2. CASE ~SeedLinksRole
      BY <1>3, <3>2 DEF SeederNext, SeedStarts, SeedStops, SeedFindsRole, SeedFindsUser,
         SeedFindsRep, database
    <3> QED
      BY <3>1, <3>2
  <2>2. ASSUME NEW r \in Registrations PROVE Checks(r)'
    <3>1. Checks(r)
      BY ChecksParts
    <3>2. Kind(r)' = Kind(r) /\ NameChecked(r)' = NameChecked(r)
      BY <2>1 DEF calls, Kind, Given, NameChecked
    <3> QED
      BY <2>1, <3>1, <3>2 DEF Checks, calls
  <2> QED
    BY <1>1, <2>2, ChecksPartsNext
<1> QED
  BY <1>2, <1>3

(* The invariant holds of an empty database. *)
LEMMA InvariantInitially == Init => RegistrationInvariant
<1> SUFFICES ASSUME Init PROVE RegistrationInvariant
  OBVIOUS
<1>1. TableInvariant
  BY TablesInitially
<1>2. ASSUME NEW r \in Registrations PROVE Checks(r)
  BY DEF Init, Checks, NameChecked
<1> QED
  BY <1>1, <1>2, ChecksParts

(* Every step of a registration, a login and the seeder keeps it. *)
LEMMA InvariantStep == RegistrationInvariant /\ [Next]_vars => RegistrationInvariant'
<1> SUFFICES ASSUME RegistrationInvariant, [Next]_vars PROVE RegistrationInvariant'
  OBVIOUS
<1>1. ASSUME NEW r \in Registrations,
             \/ Begin(r) \/ Register(r) \/ Fault(r) \/ CommitUnanswered(r)
             \/ LoginSalesRep(r) \/ SaveLogin(r)
      PROVE  RegistrationInvariant'
  BY <1>1, BeginChecks, CheckEmailChecks, CountUsersChecks, CountRepsChecks, EnsureRoleChecks,
     CreateRoleChecks, InsertUserChecks, InsertSalesRepChecks, CommitChecks, AnswerChecks,
     RollbackChecks, FaultChecks, LoginSalesRepChecks DEF Register
<1>2. CASE SeederNext
  BY <1>2, SeederChecks
<1>3. CASE UNCHANGED vars
  <2>1. TableInvariant'
    BY <1>3, TablesStep DEF RegistrationInvariant
  <2>2. ASSUME NEW r \in Registrations PROVE Checks(r)'
    <3>1. Checks(r)
      BY ChecksParts
    <3> QED
      BY <1>3, <3>1 DEF Checks, NameChecked, Kind, Given, vars, database, calls
  <2> QED
    BY <2>1, <2>2, ChecksPartsNext
<1> QED
  BY <1>1, <1>2, <1>3 DEF Next

(* For every mix of registrations, logins and seeding: the committed rows  *)
(* and those inserted but not committed respect the unique indexes, and    *)
(* where a registration stands tells what it has in the tables.            *)
THEOREM RegistrationInvariantHolds == Spec => []RegistrationInvariant
  BY InvariantInitially, InvariantStep, PTL DEF Spec

(* An account that was reported is there; a refused registration left      *)
(* nothing, unless its token could not be made or the answer to its COMMIT *)
(* was lost; and whatever was answered, an account that is there has its   *)
(* role and, for a representative, its row.                                *)
THEOREM AnswersAlwaysTellTheTruth == Spec => []AnswersTellTheTruth
<1>1. RegistrationInvariant => AnswersTellTheTruth
  BY DEF RegistrationInvariant, TableInvariant, StepsInOrder, AnswersTellTheTruth, TypeOK
<1> QED
  BY <1>1, RegistrationInvariantHolds, PTL

(* What the checks have let pass is refused by an index only when somebody *)
(* committed in the meantime, or when the username is blank and was never  *)
(* looked up.                                                              *)
THEOREM CollisionsAreAlwaysRaces == Spec => []CollisionsAreRaces
<1>1. RegistrationInvariant => CollisionsAreRaces
  BY DEF RegistrationInvariant
<1> QED
  BY <1>1, RegistrationInvariantHolds, PTL
=============================================================================
