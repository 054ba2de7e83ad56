---------------------------- MODULE AccountProofs ----------------------------
(***************************************************************************)
(* Proof that an account can be reached with what it was registered with,  *)
(* whatever is asked for, whatever the seed is, and however often the      *)
(* seeder runs beside the registrations and the logins.                    *)
(***************************************************************************)
EXTENDS RegistrationProofs

(* What AccountInvariant says of one registration. *)
Stands(r) == r \in DOMAIN users => RowStands(r) /\ RepStands(r)

(* The invariant is about each registration, the addresses and the seeder. *)
LEMMA AccountParts ==
    AccountInvariant <=>
        (\A r \in Registrations : Stands(r)) /\ LoginsAreLower /\ SeederKeepsNames
  BY DEF AccountInvariant, Stands

(* The same of the next state. *)
LEMMA AccountPartsNext ==
    (AccountInvariant <=>
        (\A r \in Registrations : Stands(r)) /\ LoginsAreLower /\ SeederKeepsNames)'
  BY AccountParts, PTL

(* A step of r that leaves the tables alone keeps the invariant, unless it *)
(* changes what a registered account is known by.                          *)
LEMMA QuietAccounts ==
    ASSUME TableInvariant, AccountInvariant, NEW r \in Registrations, Others(r),
           users' = users, reps' = reps, seeding' = seeding,
           r \in DOMAIN users => request'[r] = request[r] /\ name'[r] = name[r],
           pc'[r] = "saveLogin" => seen'[r] = reps[r]
    PROVE  AccountInvariant'
<1> /\ TypeOK /\ StepsInOrder /\ SeederHasFound
    /\ LoginsAreLower /\ SeederKeepsNames /\ \A q \in Registrations : Stands(q)
  BY AccountParts DEF TableInvariant
<1>1. ASSUME NEW q \in Registrations PROVE Stands(q)'
  <2>1. q \in DOMAIN users => /\ request'[q] = request[q] /\ name'[q] = name[q]
                              /\ Kind(q)' = Kind(q)
    BY DEF Others, Kind
  <2>2. CASE q = r
    BY <2>1, <2>2 DEF Stands, RowStands, RepStands, Seeded
  <2>3. CASE q # r
    BY <2>1, <2>3 DEF Stands, RowStands, RepStands, Seeded, Others
  <2> QED
    BY <2>2, <2>3
<1>2. LoginsAreLower'
  BY DEF LoginsAreLower, MayLogIn
<1>3. SeederKeepsNames'
  <2>1. \A q \in Registrations \cap DOMAIN users : name'[q] = name[q] /\ Kind(q)' = Kind(q)
    BY DEF Others, Kind
  <2> QED
    BY <2>1 DEF SeederKeepsNames, SeederHasFound, Seeded
<1> QED
  BY <1>1, <1>2, <1>3, AccountPartsNext

(* No step of a registration but its commit, and none of a login but the   *)
(* saving of it, touches an account.                                       *)
LEMMA RegisteringAccounts ==
    ASSUME TableInvariant, AccountInvariant, NEW r \in Registrations,
           \/ Begin(r) \/ CheckEmail(r) \/ CountUsers(r) \/ CountReps(r) \/ EnsureRole(r)
           \/ CreateRole(r) \/ InsertUser(r) \/ InsertSalesRep(r) \/ Answer(r) \/ Rollback(r)
           \/ Fault(r) \/ LoginSalesRep(r)
    PROVE  AccountInvariant'
<1> TypeOK /\ StepsInOrder
  BY DEF TableInvariant
<1> USE DEF Begin, CheckEmail, CountUsers, CountReps, EnsureRole, CreateRole, InsertUser,
       InsertSalesRep, Answer, Rollback, Fault, LoginSalesRep, Goto, Refuse, Taken, database, calls
<1>1. users' = users /\ reps' = reps /\ seeding' = seeding
  OBVIOUS
<1>2. Others(r)
  BY DEF Others, TypeOK
<1>3. (request' = request /\ name' = name) \/ pc[r] \in {"unsent", "countUsers", "countReps"}
  OBVIOUS
<1>4. r \in DOMAIN users => request'[r] = request[r] /\ name'[r] = name[r]
  BY <1>3 DEF StepsInOrder
<1>5. pc'[r] = "saveLogin" => seen'[r] = reps[r]
  BY DEF TypeOK
<1> QED
  BY <1>1, <1>2, <1>4, <1>5, QuietAccounts

(* What a commit adds is what was asked for, in lower case for those who   *)
(* may log in.                                                             *)
LEMMA CommitAccounts ==
    ASSUME TableInvariant, AccountInvariant, NEW r \in Registrations,
           Commit(r) \/ CommitUnanswered(r)
    PROVE  AccountInvariant'
<1> /\ TypeOK /\ StepsInOrder /\ SeederHasFound
    /\ LoginsAreLower /\ SeederKeepsNames /\ \A q \in Registrations : Stands(q)
  BY AccountParts DEF TableInvariant
<1>1. /\ pc[r] = "commit" /\ r \notin DOMAIN users /\ r \notin DOMAIN reps
      /\ request[r] \in WellFormed
  BY DEF Commit, CommitUnanswered, Stored, StepsInOrder, TypeOK
<1>2. /\ DOMAIN users' = DOMAIN users \cup {r} /\ users'[r] = Row(r)
      /\ \A a \in DOMAIN users : users'[a] = users[a]
      /\ DOMAIN reps' \subseteq DOMAIN reps \cup {r}
      /\ \A a \in DOMAIN reps : a \in DOMAIN reps' /\ reps'[a] = reps[a]
      /\ Kind(r) = "sales_rep" => reps'[r] = name[r]
      /\ Kind(r) # "sales_rep" => reps' = reps
  BY <1>1 DEF Commit, CommitUnanswered, Stored, With
<1>3. /\ request' = request /\ name' = name /\ seen' = seen /\ seeding' = seeding
      /\ \A q \in Registrations : Kind(q)' = Kind(q)
      /\ pc'[r] # "saveLogin" /\ \A q \in Registrations \ {r} : pc'[q] = pc[q]
  BY DEF Commit, CommitUnanswered, Stored, Goto, Refuse, Kind, TypeOK
<1>4. ASSUME NEW q \in Registrations PROVE Stands(q)'
  <2>1. CASE q = r
    BY <1>2, <1>3, <2>1 DEF Stands, RowStands, RepStands, Row
  <2>2. CASE q # r
    <3>1. q \in DOMAIN users /\ Kind(q) = "sales_rep" => q \in DOMAIN reps
      BY DEF StepsInOrder
    <3> QED
      BY <1>2, <1>3, <2>2, <3>1 DEF Stands, RowStands, RepStands, Seeded
  <2> QED
    BY <2>1, <2>2
<1>5. LoginsAreLower'
  <2>1. ASSUME NEW a \in DOMAIN users', MayLogIn(a)'
        PROVE  users'[a].email = None \/ Lower(users'[a].email) = users'[a].email
    <3>1. CASE a = r
      <4>1. Kind(r) # "user"
        BY <1>1, <1>2, <2>1, <3>1 DEF MayLogIn, Row, Kind, Kinds
      <4>2. request[r].email \in {Lower(e) : e \in Emails} \cup {None}
        BY <1>1, <4>1 DEF WellFormed, Kind
      <4> QED
        BY <1>2, <3>1, <4>2, LowerAssumption DEF Row
    <3>2. CASE a # r
      BY <1>2, <2>1, <3>2 DEF LoginsAreLower, MayLogIn
    <3> QED
      BY <3>1, <3>2
  <2> QED
    BY <2>1 DEF LoginsAreLower
<1>6. SeederKeepsNames'
  BY <1>1, <1>2, <1>3 DEF SeederKeepsNames, SeederHasFound, Seeded
<1> QED
  BY <1>4, <1>5, <1>6, AccountPartsNext

(* A login writes back the username it has read, which is still the one    *)
(* that was registered if the user's is.                                   *)
LEMMA SaveLoginAccounts ==
    ASSUME TableInvariant, AccountInvariant, NEW r \in Registrations, SaveLogin(r)
    PROVE  AccountInvariant'
<1> /\ TypeOK /\ StepsInOrder /\ SeederHasFound
    /\ LoginsAreLower /\ SeederKeepsNames /\ \A q \in Registrations : Stands(q)
  BY AccountParts DEF TableInvariant
<1>1. /\ pc[r] = "saveLogin" /\ r \in DOMAIN reps
      /\ users' = users /\ request' = request /\ name' = name /\ seeding' = seeding
      /\ DOMAIN reps' = DOMAIN reps /\ \A a \in DOMAIN reps : a # r => reps'[a] = reps[a]
      /\ reps'[r] \in {reps[r], seen[r]}
      /\ \A q \in Registrations : Kind(q)' = Kind(q)
      /\ pc'[r] = "ok" /\ \A q \in Registrations \ {r} : pc'[q] = pc[q] /\ seen'[q] = seen[q]
  BY DEF SaveLogin, StepsInOrder, Goto, Kind, TypeOK
<1>2. ASSUME NEW q \in Registrations PROVE Stands(q)'
  <2>1. CASE q = r
    BY <1>1, <2>1 DEF Stands, RowStands, RepStands, Seeded
  <2>2. CASE q # r
    <3>1. q \in DOMAIN users /\ Kind(q) = "sales_rep" => q \in DOMAIN reps
      BY DEF StepsInOrder
    <3> QED
      BY <1>1, <2>2, <3>1 DEF Stands, RowStands, RepStands, Seeded
  <2> QED
    BY <2>1, <2>2
<1>3. LoginsAreLower'
  BY <1>1 DEF LoginsAreLower, MayLogIn
<1>4. SeederKeepsNames'
  BY <1>1 DEF SeederKeepsNames, Seeded
<1> QED
  BY <1>2, <1>3, <1>4, AccountPartsNext

-----------------------------------------------------------------------------
(* The seed may log in at an address in lower case. *)
LEMMA SeedIsLower == Seed.email \in Emails /\ Lower(Seed.email) = Seed.email
  BY SeedAssumption, LowerAssumption

(* Nothing a registration is known by is changed by the seeder, but the    *)
(* rows of one account.                                                    *)
LEMMA OtherAccountsStand ==
    ASSUME StepsInOrder, NEW q \in Registrations, Stands(q),
           request' = request, name' = name, pc' = pc, seen' = seen,
           q \in DOMAIN users' => q \in DOMAIN users,
           q \in DOMAIN users => users'[q].email = users[q].email
                                 /\ users'[q].username = users[q].username,
           q \in DOMAIN reps => reps'[q] = reps[q]
    PROVE  Stands(q)'
<1>1. q \in DOMAIN users /\ Kind(q) = "sales_rep" => q \in DOMAIN reps
  BY DEF StepsInOrder
<1>2. Kind(q)' = Kind(q)
  BY DEF Kind
<1> QED
  BY <1>1, <1>2 DEF Stands, RowStands, RepStands, Seeded

(* The seeder looks for the accounts it may change. *)
LEMMA SeederLooksAccounts ==
    ASSUME TableInvariant, AccountInvariant,
           \/ SeedStarts \/ SeedStops \/ SeedFindsRole \/ SeedInsertsRole
           \/ SeedFindsUser("byEmail", "byUsername") \/ SeedFindsUser("byUsername", "save")
           \/ SeedFindsRep
    PROVE  AccountInvariant'
<1> /\ TypeOK /\ StepsInOrder /\ SeederHasFound
    /\ LoginsAreLower /\ SeederKeepsNames /\ \A q \in Registrations : Stands(q)
  BY AccountParts DEF TableInvariant
<1>1. /\ users' = users /\ reps' = reps /\ pc' = pc /\ request' = request /\ name' = name
      /\ seen' = seen
  BY DEF SeedStarts, SeedStops, SeedFindsRole, SeedInsertsRole, SeedFindsUser, SeedFindsRep,
     database, calls
<1>2. \A q \in Registrations : Stands(q)'
  BY <1>1, OtherAccountsStand
<1>3. LoginsAreLower'
  BY <1>1 DEF LoginsAreLower, MayLogIn
<1>4. seeding = [pc |-> seeding.pc, user |-> seeding.user, rep |-> seeding.rep]
  BY DEF TypeOK
<1>5. SeederKeepsNames'
  <2>1. CASE SeedStarts \/ SeedFindsRole \/ SeedInsertsRole
    <3>1. /\ seeding.pc \in {"idle", "role", "insertRole"}
          /\ seeding'.pc \in {"role", "insertRole", "byEmail"} /\ seeding'.user = seeding.user
      BY <1>4, <2>1 DEF SeedStarts, SeedFindsRole, SeedInsertsRole, SeedGoes
    <3> QED
      BY <1>1, <3>1 DEF SeederKeepsNames
  <2>2. CASE SeedStops
    BY <2>2 DEF SeedStops, NoSeeding, SeederKeepsNames
  <2>3. ASSUME NEW by \in {"byEmail", "byUsername"}, NEW otherwise \in {"byUsername", "save"},
               SeedFindsUser(by, otherwise)
        PROVE  SeederKeepsNames'
    <3>1. seeding.user = None
      BY <2>3 DEF SeedFindsUser, SeederKeepsNames
    <3>2. \/ seeding'.pc = otherwise /\ seeding'.user = None
          \/ /\ seeding'.pc = "save"
             /\ users[seeding'.user].email = Seed.email
                \/ users[seeding'.user].username = Seed.username
      BY <1>4, <2>3, <3>1 DEF SeedFindsUser, SeedGoes
    <3> QED
      BY <1>1, <3>2 DEF SeederKeepsNames
  <2>4. CASE SeedFindsRep
    <3>1. PICK a \in DOMAIN reps \cup {seeding.user} :
            /\ seeding' = [seeding EXCEPT !.pc = "saveRep", !.rep = a]
            /\ a = seeding.user \/ reps[a] = Seed.username
      BY <2>4 DEF SeedFindsRep
    <3>2. seeding'.pc = "saveRep" /\ seeding'.user = seeding.user /\ seeding'.rep = a
      BY <1>4, <3>1
    <3>3. seeding.pc = "findRep" /\ Seeded(users[seeding.user])
      BY <2>4 DEF SeedFindsRep, SeederKeepsNames
    <3>4. ASSUME a \in Registrations, Kind(a) = "sales_rep", users[a].username = name[a]
          PROVE  name[a] = Seed.username
      <4>1. CASE a = seeding.user
        BY <3>3, <3>4, <4>1 DEF Seeded
      <4>2. CASE a # seeding.user
        <5>1. a \in DOMAIN users /\ reps[a] = Seed.username
          BY <3>1, <4>2 DEF TypeOK
        <5> QED
          BY <3>4, <5>1 DEF Stands, RepStands
      <4> QED
        BY <4>1, <4>2
    <3> QED
      BY <1>1, <1>4, <3>2, <3>3, <3>4 DEF SeederKeepsNames, Seeded, Kind
  <2> QED
    BY <2>1, <2>2, <2>3, <2>4
<1> QED
  BY <1>2, <1>3, <1>5, AccountPartsNext

(* The account that gets the seed's row had the e-mail or the username of  *)
(* the seed.                                                               *)
LEMMA SeedSavesUserAccounts ==
    ASSUME TableInvariant, AccountInvariant, SeedSavesUser
    PROVE  AccountInvariant'
<1> /\ TypeOK /\ StepsInOrder /\ SeederHasFound
    /\ LoginsAreLower /\ SeederKeepsNames /\ \A q \in Registrations : Stands(q)
  BY AccountParts DEF TableInvariant
<1> DEFINE a == IF seeding.user = None THEN Seeder ELSE seeding.user
           old == IF a \in DOMAIN users THEN users[a].roles ELSE {}
<1>1. /\ users' = With(users, a, [email |-> Seed.email, username |-> Seed.username, roles |-> old])
      /\ seeding' = [seeding EXCEPT !.pc = "link", !.user = a]
      /\ reps' = reps /\ pc' = pc /\ request' = request /\ name' = name /\ seen' = seen
      /\ seeding.pc = "save"
  BY DEF SeedSavesUser
<1>2. /\ a \in Registrations => a = seeding.user /\ a # None /\ a \in DOMAIN users
      /\ a \in DOMAIN reps => a \in DOMAIN users
  BY NamesAssumption DEF SeederHasFound, TypeOK
<1>3. a \in DOMAIN users => old = users[a].roles
  OBVIOUS
<1>4. a \notin DOMAIN users => old = {}
  OBVIOUS
<1> HIDE DEF old
<1>5. /\ DOMAIN users' = DOMAIN users \cup {a}
      /\ users'[a] = [email |-> Seed.email, username |-> Seed.username, roles |-> old]
      /\ \A b \in DOMAIN users : b # a => users'[b] = users[b]
  BY <1>1 DEF With
<1>6. seeding'.pc = "link" /\ seeding'.user = a
  BY <1>1 DEF TypeOK
<1>7. ASSUME a \in Registrations
      PROVE  users[a].email = Seed.email \/ users[a].username = Seed.username
  BY <1>1, <1>2, <1>7 DEF SeederKeepsNames
<1> HIDE DEF a
<1>8. ASSUME NEW q \in Registrations PROVE Stands(q)'
  <2>1. CASE q # a
    BY <1>1, <1>5, <2>1, OtherAccountsStand
  <2>2. CASE q = a
    <3>1. RowStands(q) /\ RepStands(q)
      BY <1>2, <2>2 DEF Stands
    <3>2. users[q].email = Seed.email \/ users[q].username = Seed.username
      BY <1>7, <2>2
    <3>3. Seeded(users[q])'
      BY <1>5, <2>2 DEF Seeded
    <3>4. RowStands(q)'
      BY <1>1, <3>1, <3>2, <3>3 DEF RowStands, Seeded
    <3>5. name[q] = Seed.username => users[q].username = name[q]
      BY <3>1 DEF RowStands, Seeded
    <3>6. users'[q].username = Seed.username /\ Kind(q)' = Kind(q)
      BY <1>1, <3>3 DEF Seeded, Kind
    <3>7. RepStands(q)'
      BY <1>1, <3>1, <3>5, <3>6 DEF RepStands
    <3> QED
      BY <3>4, <3>7 DEF Stands
  <2> QED
    BY <2>1, <2>2
<1>9. LoginsAreLower'
  <2>1. ASSUME NEW b \in DOMAIN users', MayLogIn(b)'
        PROVE  users'[b].email = None \/ Lower(users'[b].email) = users'[b].email
    <3>1. CASE b = a
      BY <1>5, <3>1, SeedIsLower
    <3>2. CASE b # a
      BY <1>1, <1>5, <2>1, <3>2 DEF LoginsAreLower, MayLogIn
    <3> QED
      BY <3>1, <3>2
  <2> QED
    BY <2>1 DEF LoginsAreLower
<1>10. SeederKeepsNames'
  BY <1>5, <1>6 DEF SeederKeepsNames, Seeded
<1> QED
  BY <1>8, <1>9, <1>10, AccountPartsNext

(* Who gets the seed's role has the seed's row. *)
LEMMA SeedLinksRoleAccounts ==
    ASSUME TableInvariant, AccountInvariant, SeedLinksRole
    PROVE  AccountInvariant'
<1> /\ TypeOK /\ StepsInOrder /\ SeederHasFound
    /\ LoginsAreLower /\ SeederKeepsNames /\ \A q \in Registrations : Stands(q)
  BY AccountParts DEF TableInvariant
<1> DEFINE a == seeding.user
<1>1. /\ a \in DOMAIN users /\ Seeded(users[a]) /\ seeding.pc = "link"
      /\ users[a] \in [email : Emails \cup {None}, username : Usernames \cup {None, Blank},
                       roles : SUBSET Kinds]
  BY DEF SeedLinksRole, SeederHasFound, SeederKeepsNames, TypeOK
<1>2. /\ users' = [users EXCEPT ![a].roles = @ \cup {Seed.kind}]
      /\ reps' = reps /\ pc' = pc /\ request' = request /\ name' = name /\ seen' = seen
      /\ \/ seeding' = [seeding EXCEPT !.pc = "findRep"]
         \/ seeding' = NoSeeding
  BY DEF SeedLinksRole, SeedGoes, calls
<1>3. /\ DOMAIN users' = DOMAIN users
      /\ \A b \in DOMAIN users : b # a => users'[b] = users[b]
      /\ users'[a].email = users[a].email /\ users'[a].username = users[a].username
  BY <1>1, <1>2
<1>4. (seeding'.pc = "findRep" /\ seeding'.user = a) \/ seeding' = NoSeeding
  BY <1>2 DEF TypeOK
<1> HIDE DEF a
<1>5. \A q \in Registrations : Stands(q)'
  BY <1>2, <1>3, OtherAccountsStand
<1>6. LoginsAreLower'
  <2>1. ASSUME NEW b \in DOMAIN users', MayLogIn(b)'
        PROVE  users'[b].email = None \/ Lower(users'[b].email) = users'[b].email
    <3>1. CASE b = a
      BY <1>1, <1>3, <3>1, SeedIsLower DEF Seeded
    <3>2. CASE b # a
      BY <1>2, <1>3, <2>1, <3>2 DEF LoginsAreLower, MayLogIn
    <3> QED
      BY <3>1, <3>2
  <2> QED
    BY <2>1 DEF LoginsAreLower
<1>7. SeederKeepsNames'
  BY <1>1, <1>3, <1>4 DEF SeederKeepsNames, Seeded, NoSeeding
<1> QED
  BY <1>5, <1>6, <1>7, AccountPartsNext

(* The representative who gets the seed's username has registered with it, *)
(* or its user has lost the username that was registered.                  *)
LEMMA SeedSavesRepAccounts ==
    ASSUME TableInvariant, AccountInvariant, SeedSavesRep
    PROVE  AccountInvariant'
<1> /\ TypeOK /\ StepsInOrder /\ SeederHasFound
    /\ LoginsAreLower /\ SeederKeepsNames /\ \A q \in Registrations : Stands(q)
  BY AccountParts DEF TableInvariant
<1> DEFINE a == seeding.rep
<1>1. /\ seeding.pc = "saveRep" /\ reps' = With(reps, a, Seed.username) /\ seeding' = NoSeeding
      /\ users' = users /\ pc' = pc /\ request' = request /\ name' = name /\ seen' = seen
  BY DEF SeedSavesRep
<1>2. /\ a \in DOMAIN reps \cup {seeding.user} /\ Seeded(users[seeding.user])
      /\ a \in Registrations /\ Kind(a) = "sales_rep" /\ users[a].username = name[a] =>
            name[a] = Seed.username
  BY <1>1 DEF SeederKeepsNames
<1> HIDE DEF a
<1>3. /\ DOMAIN reps' = DOMAIN reps \cup {a} /\ reps'[a] = Seed.username
      /\ \A b \in DOMAIN reps : b # a => reps'[b] = reps[b]
  BY <1>1 DEF With
<1>4. ASSUME NEW q \in Registrations PROVE Stands(q)'
  <2>1. CASE q # a
    BY <1>1, <1>3, <2>1, OtherAccountsStand
  <2>2. CASE q = a
    <3>1. Kind(q)' = Kind(q)
      BY <1>1 DEF Kind
    <3> QED
      BY <1>1, <1>2, <1>3, <2>2, <3>1 DEF Stands, RowStands, RepStands, Seeded
  <2> QED
    BY <2>1, <2>2
<1>5. LoginsAreLower'
  <2>1. ASSUME NEW b \in DOMAIN users, MayLogIn(b)'
        PROVE  users[b].email = None \/ Lower(users[b].email) = users[b].email
    <3>1. CASE b = seeding.user
      BY <1>2, <3>1, SeedIsLower DEF Seeded
    <3>2. CASE b # seeding.user
      BY <1>1, <1>2, <1>3, <2>1, <3>2 DEF LoginsAreLower, MayLogIn
    <3> QED
      BY <3>1, <3>2
  <2> QED
    BY <1>1, <2>1 DEF LoginsAreLower
<1>6. SeederKeepsNames'
  BY <1>1 DEF SeederKeepsNames, NoSeeding
<1> QED
  BY <1>4, <1>5, <1>6, AccountPartsNext

-----------------------------------------------------------------------------
(* There is no account before the first registration. *)
LEMMA AccountsInitially == Init => AccountInvariant
<1> SUFFICES ASSUME Init PROVE AccountInvariant
  OBVIOUS
<1>1. DOMAIN users = {} /\ seeding = NoSeeding
  BY DEF Init
<1> QED
  BY <1>1 DEF AccountInvariant, LoginsAreLower, SeederKeepsNames, NoSeeding

(* Every step keeps what the accounts are known by. *)
LEMMA AccountsStep == TableInvariant /\ AccountInvariant /\ [Next]_vars => AccountInvariant'
<1> SUFFICES ASSUME TableInvariant, AccountInvariant, [Next]_vars PROVE AccountInvariant'
  OBVIOUS
<1>1. ASSUME NEW r \in Registrations,
             \/ Begin(r) \/ Register(r) \/ Fault(r) \/ CommitUnanswered(r)
             \/ LoginSalesRep(r) \/ SaveLogin(r)
      PROVE  AccountInvariant'
  BY <1>1, RegisteringAccounts, CommitAccounts, SaveLoginAccounts DEF Register
<1>2. CASE SeederNext
  BY <1>2, SeederLooksAccounts, SeedSavesUserAccounts, SeedLinksRoleAccounts,
     SeedSavesRepAccounts DEF SeederNext
<1>3. CASE UNCHANGED vars
  BY <1>3 DEF AccountInvariant, RowStands, RepStands, Seeded, LoginsAreLower, MayLogIn,
     SeederKeepsNames, Kind, vars, database, calls
<1> QED
  BY <1>1, <1>2, <1>3 DEF Next

(* The rows of the accounts are as registered or as seeded. *)
THEOREM AccountInvariantHolds == Spec => []AccountInvariant
<1>1. RegistrationInvariant => TableInvariant
  BY DEF RegistrationInvariant
<1> QED
  BY <1>1, RegistrationInvariantHolds, AccountsInitially, AccountsStep, PTL DEF Spec

(* What identifies an account and has been left to it leads to it, and to  *)
(* others only when it is an address here and a username there.            *)
LEMMA IdentifierLeadsHome ==
    ASSUME TableInvariant, AccountInvariant, NEW r \in Registrations, r \in DOMAIN users,
           Kind(r) # "user", NEW id \in Left(r)
    PROVE  /\ r \in Found(Kind(r), id)
           /\ \A a \in Found(Kind(r), id) \ {r} : CrossNamed(r, a, id)
<1> /\ TypeOK /\ StepsInOrder /\ RowsAreUnique /\ LoginsAreLower
    /\ RowStands(r) /\ RepStands(r) /\ pc[r] # "unsent"
  BY AccountParts DEF TableInvariant, Stands, StepsInOrder
<1>1. /\ Kind(r) \in users[r].roles /\ Kind(r) \in {"admin", "sales_rep"}
      /\ Kind(r) = "sales_rep" => r \in DOMAIN reps
      /\ MayLogIn(r)
  BY RequestType DEF StepsInOrder, MayLogIn, Kinds
<1>2. id # None /\ (id = users[r].email \/ (id = name[r] /\ id = users[r].username))
  BY DEF Left
<1>3. r \in Found(Kind(r), id)
  <2>1. CASE id = users[r].email
    BY <1>1, <1>2, <2>1 DEF Found, LoginsAreLower
  <2>2. CASE id = users[r].username
    BY <1>1, <2>2 DEF Found
  <2> QED
    BY <1>2, <2>1, <2>2
<1>4. ASSUME NEW a \in Found(Kind(r), id), a # r PROVE CrossNamed(r, a, id)
  <2>1. /\ a \in DOMAIN users /\ MayLogIn(a)
        /\ \/ users[a].email # None /\ Lower(users[a].email) = id
           \/ users[a].username = id
           \/ Kind(r) = "sales_rep" /\ a \in DOMAIN reps /\ reps[a] = id
    BY <1>1, <1>4 DEF Found, MayLogIn
  <2>2. ~Clash(users[a].email, users[a].username, users[r].email, users[r].username)
    BY <1>4, <2>1 DEF RowsAreUnique
  <2>3. users[a].email # None => Lower(users[a].email) = users[a].email
    BY <2>1 DEF LoginsAreLower
  <2>4. CASE id = users[r].email
    BY <1>2, <2>1, <2>2, <2>3, <2>4 DEF Clash, CrossNamed
  <2>5. CASE id = name[r] /\ id = users[r].username
    <3>1. Kind(r) = "sales_rep" => reps[r] = id
      BY <2>5 DEF RepStands
    <3>2. ~(Kind(r) = "sales_rep" /\ a \in DOMAIN reps /\ reps[a] = id)
      BY <1>1, <1>4, <3>1 DEF RowsAreUnique
    <3> QED
      BY <1>2, <2>1, <2>2, <2>3, <2>5, <3>2 DEF Clash, CrossNamed
  <2> QED
    BY <1>2, <2>4, <2>5
<1> QED
  BY <1>3, <1>4

(* Whoever was told that an account was created can be found by a login    *)
(* with something it was created with, whatever the seeder has done to it  *)
(* since; who else is found has as a username what is an address here, or  *)
(* the other way round.                                                    *)
THEOREM AccountsStayReachable == Spec => []AccountReachable
<1>1. TableInvariant /\ AccountInvariant => AccountReachable
  <2> SUFFICES ASSUME TableInvariant, AccountInvariant, NEW r \in Registrations,
                      pc[r] \in {"ok", "saveLogin"}, Kind(r) # "user"
               PROVE  /\ Left(r) # {}
                      /\ \A id \in Left(r) :
                            /\ r \in Found(Kind(r), id)
                            /\ \A a \in Found(Kind(r), id) \ {r} : CrossNamed(r, a, id)
    BY DEF AccountReachable
  <2>1. r \in DOMAIN users /\ RowStands(r)
    BY AccountParts DEF TableInvariant, StepsInOrder, Stands
  <2>2. Left(r) # {}
    <3>1. request[r].email \in Emails \/ name[r] \in Usernames
      <4>1. request[r] \in WellFormed /\ request[r].kind # "user"
        BY RequestType DEF TableInvariant, Kind
      <4>2. request[r].email # None \/ request[r].username \in Usernames
        BY <4>1 DEF WellFormed
      <4> QED
        BY <4>2, RequestType, NamesAssumption DEF TableInvariant, StepsInOrder
    <3>2. \/ /\ users[r].email = request[r].email /\ users[r].username = name[r]
          \/ /\ request[r].email = Seed.email /\ users[r].email = Seed.email
          \/ /\ name[r] = Seed.username /\ users[r].username = Seed.username
      BY <2>1 DEF RowStands, Seeded
    <3>3. Emails \cap {None, Blank} = {} /\ Usernames \cap {None, Blank} = {}
      BY NamesAssumption
    <3> QED
      BY <3>1, <3>2, <3>3, SeedType DEF Left
  <2> QED
    BY <2>1, <2>2, IdentifierLeadsHome
<1>2. RegistrationInvariant => TableInvariant
  BY DEF RegistrationInvariant
<1> QED
  BY <1>1, <1>2, RegistrationInvariantHolds, AccountInvariantHolds, PTL
=============================================================================
