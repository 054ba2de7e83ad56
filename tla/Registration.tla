----------------------------- MODULE Registration -----------------------------
(***************************************************************************)
(* The accounts: registration of administrators and sales representatives, *)
(* creation of plain users, login, and the seeder that may run beside      *)
(* them.  Every registration runs in a READ COMMITTED transaction: it      *)
(* looks, then inserts, and unique indexes decide who comes first.         *)
(*                                                                         *)
(* A registration that succeeds creates the account of its own name.  The  *)
(* username <<b, 0>> stands for the word b, <<b, n>> for b followed by the *)
(* number n.                                                               *)
(***************************************************************************)
EXTENDS Naturals, FiniteSets

CONSTANTS
    Registrations,
    Asked,        \* Asked[r]: what r may ask for
    Emails, Words,
    Lower(_),     \* the lower-case form of an e-mail address
    WordOf(_),    \* the word made of what stands before the @
    Seed,         \* the account the seeder provides for
    Seeder, None, Blank

Usernames == Words \X Nat
Kinds == {"admin", "sales_rep", "user"}
Accounts == Registrations \cup {Seeder}

(* What the checks on the request let pass.  Only createUser keeps the     *)
(* letters of the address as they are, and it has no username.             *)
WellFormed ==
    [kind : {"user"}, email : Emails, username : {None}]
        \cup {q \in [kind : {"admin", "sales_rep"}, email : {Lower(e) : e \in Emails} \cup {None},
                     username : Usernames \cup {None, Blank}] :
                 q.email # None \/ q.username \in Usernames}

ASSUME AskedAssumption == Asked \in [Registrations -> SUBSET WellFormed]
ASSUME LowerAssumption ==
    \A e \in Emails : Lower(e) \in Emails /\ Lower(Lower(e)) = Lower(e) /\ WordOf(e) \in Words
ASSUME NamesAssumption ==
    /\ Seeder \notin Registrations /\ None \notin Accounts
    /\ {None, Blank} \cap (Emails \cup Usernames) = {} /\ None # Blank
ASSUME SeedAssumption ==
    /\ Seed.kind \in {"admin", "sales_rep"}
    /\ Seed.email \in {Lower(e) : e \in Emails}
    /\ Seed.username \in Usernames

VARIABLES
    roles,       \* the committed roles
    users,       \* users[a]: the committed rows of users, with the roles app_users links to them
    reps,        \* reps[a]: the username in the committed rows of sales_reps
    pc,
    request,     \* request[r]: what r asks for
    name,        \* name[r]: the username r inserts, or tries next
    madeRole,    \* madeRole[r]: r has inserted its role and not committed it
    why,         \* why[r]: what r was refused for
    overlapped,  \* overlapped[r]: somebody committed while r was running
    seen,        \* seen[r]: the username in the sales_reps row a login of r has read
    seeding      \* what the seeder does next, and the accounts it has found

database == <<roles, users, reps>>
calls == <<pc, request, name, madeRole, why, overlapped>>
vars == <<database, calls, seen, seeding>>

Running ==
    {"email", "countUsers", "countReps", "role", "createRole", "insert", "insertRep",
     "commit", "token", "failed"}
Answered == {"ok", "saveLogin", "error"}
NoSeeding == [pc |-> "idle", user |-> None, rep |-> None]

TypeOK ==
    /\ roles \subseteq Kinds
    /\ DOMAIN users \subseteq Accounts
    /\ \A a \in DOMAIN users :
          users[a] \in [email : Emails \cup {None}, username : Usernames \cup {None, Blank},
                        roles : SUBSET Kinds]
    /\ DOMAIN reps \subseteq DOMAIN users
    /\ \A a \in DOMAIN reps : reps[a] \in Usernames \cup {Blank}
    /\ pc \in [Registrations -> {"unsent"} \cup Running \cup Answered]
    /\ request \in [Registrations -> WellFormed \cup {None}]
    /\ name \in [Registrations -> Usernames \cup {None, Blank}]
    /\ madeRole \in [Registrations -> BOOLEAN]
    /\ why \in [Registrations -> {"nothing", "taken", "collision", "fault", "cut", "token"}]
    /\ overlapped \in [Registrations -> BOOLEAN]
    /\ seen \in [Registrations -> Usernames \cup {None, Blank}]
    /\ seeding \in [pc : {"idle", "role", "insertRole", "byEmail", "byUsername", "save", "link",
                          "findRep", "saveRep"},
                    user : Accounts \cup {None}, rep : Accounts \cup {None}]

Init ==
    /\ roles = {} /\ users = <<>> /\ reps = <<>>
    /\ pc = [r \in Registrations |-> "unsent"]
    /\ request = [r \in Registrations |-> None]
    /\ name = [r \in Registrations |-> None]
    /\ madeRole = [r \in Registrations |-> FALSE]
    /\ why = [r \in Registrations |-> "nothing"]
    /\ overlapped = [r \in Registrations |-> FALSE]
    /\ seen = [r \in Registrations |-> None]
    /\ seeding = NoSeeding

-----------------------------------------------------------------------------
Goto(r, label) == pc' = [pc EXCEPT ![r] = label]
Refuse(r, reason) == Goto(r, "failed") /\ why' = [why EXCEPT ![r] = reason]

Kind(r) == request[r].kind
Given(r) == request[r].username \in Usernames
Generates(r) == Kind(r) # "user" /\ request[r].username = None

(* The rows r has inserted and not committed. *)
UserPending(r) == pc[r] \in {"insertRep", "commit"}

(* Slip: the index on the username is missing. *)
ClashOfEmailsOnly(email1, username1, email2, username2) ==
    email1 = email2 /\ email1 # None

(* Two rows of users that the unique indexes do not allow together. *)
Clash(email1, username1, email2, username2) ==
    \/ email1 = email2 /\ email1 # None
    \/ username1 = username2 /\ username1 # None

UserTaken(email, username, but) ==
    \E a \in DOMAIN users \ {but} : Clash(email, username, users[a].email, users[a].username)
RepTaken(username, but) == \E a \in DOMAIN reps \ {but} : reps[a] = username

(* An insert waits for a transaction that has inserted what it clashes with. *)
UserAwaited(email, username, but) ==
    \E q \in Registrations \ {but} :
        UserPending(q) /\ Clash(email, username, request[q].email, name[q])
RepAwaited(username, but) ==
    \E q \in Registrations \ {but} :
        pc[q] = "commit" /\ Kind(q) = "sales_rep" /\ name[q] = username
RoleAwaited(kind, but) == \E q \in Registrations \ {but} : madeRole[q] /\ Kind(q) = kind

(* A commit is seen by whoever is running. *)
Overlap(but) ==
    overlapped' = [q \in Registrations |->
                      overlapped[q] \/ (q # but /\ pc[q] \in Running)]

Begin(r) ==
    /\ pc[r] = "unsent"
    /\ \E q \in Asked[r] :
          /\ request' = [request EXCEPT ![r] = q]
          /\ name' = [name EXCEPT ![r] = IF q.kind = "user" \/ q.username # None
                                         THEN q.username ELSE <<WordOf(q.email), 0>>]
    /\ Goto(r, "email")
    /\ UNCHANGED <<database, madeRole, why, overlapped, seen, seeding>>

CheckEmail(r) ==
    /\ pc[r] = "email"
    /\ IF \E a \in DOMAIN users :
             /\ users[a].email # None
             /\ request[r].email = IF Kind(r) = "user" THEN users[a].email
                                   ELSE Lower(users[a].email)
       THEN Refuse(r, "taken")
       ELSE Goto(r, IF Given(r) THEN "countUsers" ELSE "role") /\ UNCHANGED why
    /\ UNCHANGED <<database, request, name, madeRole, overlapped, seen, seeding>>

(* Slip: the same name is tried again. *)
TakenForEver(r) ==
    IF Given(r) THEN Refuse(r, "taken") /\ UNCHANGED name
    ELSE Goto(r, "countUsers") /\ UNCHANGED <<name, why>>

(* isUsernameTaken.  A generated name that is taken is followed by the     *)
(* next one.                                                               *)
Taken(r) ==
    IF Given(r) THEN Refuse(r, "taken") /\ UNCHANGED name
    ELSE /\ name' = [name EXCEPT ![r] = <<@[1], @[2] + 1>>]
         /\ Goto(r, "countUsers")
         /\ UNCHANGED why

(* Slip: only the representatives are asked. *)
CountNoUsers(r) ==
    /\ pc[r] = "countUsers"
    /\ Goto(r, "countReps")
    /\ UNCHANGED <<database, request, name, madeRole, why, overlapped, seen, seeding>>

CountUsers(r) ==
    /\ pc[r] = "countUsers"
    /\ IF \E a \in DOMAIN users : users[a].username = name[r]
       THEN Taken(r)
       ELSE Goto(r, "countReps") /\ UNCHANGED <<name, why>>
    /\ UNCHANGED <<database, request, madeRole, overlapped, seen, seeding>>

CountReps(r) ==
    /\ pc[r] = "countReps"
    /\ IF RepTaken(name[r], None)
       THEN Taken(r)
       ELSE Goto(r, IF Given(r) THEN "role" ELSE "insert") /\ UNCHANGED <<name, why>>
    /\ UNCHANGED <<database, request, madeRole, overlapped, seen, seeding>>

EnsureRole(r) ==
    /\ pc[r] = "role"
    /\ Goto(r, IF Kind(r) \notin roles THEN "createRole"
               ELSE IF Generates(r) THEN "countUsers" ELSE "insert")
    /\ UNCHANGED <<database, request, name, madeRole, why, overlapped, seen, seeding>>

CreateRole(r) ==
    /\ pc[r] = "createRole"
    /\ ~RoleAwaited(Kind(r), r)
    /\ IF Kind(r) \in roles
       THEN Refuse(r, "collision") /\ UNCHANGED madeRole
       ELSE /\ madeRole' = [madeRole EXCEPT ![r] = TRUE]
            /\ Goto(r, IF Generates(r) THEN "countUsers" ELSE "insert")
            /\ UNCHANGED why
    /\ UNCHANGED <<database, request, name, overlapped, seen, seeding>>

(* The user and its app_users row; a sales representative's row follows. *)
InsertUser(r) ==
    /\ pc[r] = "insert"
    /\ IF UserTaken(request[r].email, name[r], None)
       THEN Refuse(r, "collision")
       ELSE /\ ~UserAwaited(request[r].email, name[r], r)
            /\ Goto(r, IF Kind(r) = "sales_rep" THEN "insertRep" ELSE "commit")
            /\ UNCHANGED why
    /\ UNCHANGED <<database, request, name, madeRole, overlapped, seen, seeding>>

(* A table with the row of an account replaced or added. *)
With(table, a, row) == [x \in DOMAIN table \cup {a} |-> IF x = a THEN row ELSE table[x]]

Row(r) == [email |-> request[r].email, username |-> name[r], roles |-> {Kind(r)}]

(* Slip: the user is committed before the representative is inserted. *)
InsertSalesRepAfterCommit(r) ==
    /\ pc[r] = "insertRep"
    /\ users' = With(users, r, Row(r))
    /\ IF RepTaken(name[r], None)
       THEN Refuse(r, "collision")
       ELSE Goto(r, "commit") /\ UNCHANGED why
    /\ UNCHANGED <<roles, reps, request, name, madeRole, overlapped, seen, seeding>>

InsertSalesRep(r) ==
    /\ pc[r] = "insertRep"
    /\ IF RepTaken(name[r], None)
       THEN Refuse(r, "collision")
       ELSE /\ ~RepAwaited(name[r], r)
            /\ Goto(r, "commit")
            /\ UNCHANGED why
    /\ UNCHANGED <<database, request, name, madeRole, overlapped, seen, seeding>>

(* PostgreSQL carries out r's COMMIT. *)
Stored(r) ==
    /\ pc[r] = "commit"
    /\ roles' = roles \cup IF madeRole[r] THEN {Kind(r)} ELSE {}
    /\ users' = With(users, r, Row(r))
    /\ reps' = IF Kind(r) = "sales_rep" THEN With(reps, r, name[r]) ELSE reps
    /\ madeRole' = [madeRole EXCEPT ![r] = FALSE]
    /\ Overlap(r)
    /\ UNCHANGED <<request, name, seen, seeding>>

Commit(r) == Stored(r) /\ Goto(r, IF Kind(r) = "user" THEN "ok" ELSE "token") /\ UNCHANGED why

(* The connection breaks before the answer to COMMIT has arrived: the call *)
(* fails, and there is nothing left to roll back.                          *)
CommitUnanswered(r) == Stored(r) /\ Refuse(r, "cut")

(* The token is signed after the commit, outside of the try block. *)
Answer(r) ==
    /\ pc[r] = "token"
    /\ \/ Goto(r, "ok") /\ UNCHANGED why
       \/ Goto(r, "error") /\ why' = [why EXCEPT ![r] = "token"]
    /\ UNCHANGED <<database, request, name, madeRole, overlapped, seen, seeding>>

(* The database or the hashing fails, and nothing has been committed. *)
Fault(r) ==
    /\ pc[r] \in Running \ {"token", "failed"}
    /\ Refuse(r, "fault")
    /\ UNCHANGED <<database, request, name, madeRole, overlapped, seen, seeding>>

Rollback(r) ==
    /\ pc[r] = "failed"
    /\ madeRole' = [madeRole EXCEPT ![r] = FALSE]
    /\ Goto(r, "error")
    /\ UNCHANGED <<database, request, name, why, overlapped, seen, seeding>>

-----------------------------------------------------------------------------
(* The accounts a login of this kind looks up by an identifier.            *)
Found(kind, id) ==
    {a \in DOMAIN users :
        \/ kind = "admin" /\ "admin" \in users[a].roles
        \/ kind = "sales_rep" /\ a \in DOMAIN reps} \cap
    {a \in DOMAIN users :
        \/ users[a].email # None /\ Lower(users[a].email) = id
        \/ users[a].username = id
        \/ kind = "sales_rep" /\ a \in DOMAIN reps /\ reps[a] = id}

(* A representative logs in; the password is compared before the row that  *)
(* was read is saved.                                                      *)
LoginSalesRep(r) ==
    /\ pc[r] = "ok" /\ Kind(r) = "sales_rep"
    /\ \E id \in {request[r].email, name[r]} \ {None} : r \in Found("sales_rep", id)
    /\ seen' = [seen EXCEPT ![r] = reps[r]]
    /\ Goto(r, "saveLogin")
    /\ UNCHANGED <<database, request, name, madeRole, why, overlapped, seeding>>

(* save() also writes the username back when the row has changed since. *)
SaveLogin(r) ==
    /\ pc[r] = "saveLogin"
    /\ RepTaken(seen[r], r) \/ ~RepAwaited(seen[r], r)
    /\ reps' = IF RepTaken(seen[r], r) THEN reps ELSE [reps EXCEPT ![r] = seen[r]]
    /\ Overlap(r)
    /\ seen' = [seen EXCEPT ![r] = None]
    /\ Goto(r, "ok")
    /\ UNCHANGED <<roles, users, request, name, madeRole, why, seeding>>

-----------------------------------------------------------------------------
(* The seeder, for one account: every statement commits by itself, and one *)
(* that fails ends it.                                                     *)
SeedGoes(label) == seeding' = [seeding EXCEPT !.pc = label]
SeedStarts == seeding.pc = "idle" /\ SeedGoes("role") /\ UNCHANGED <<database, calls, seen>>
SeedStops == seeding.pc # "idle" /\ seeding' = NoSeeding /\ UNCHANGED <<database, calls, seen>>

SeedFindsRole ==
    /\ seeding.pc = "role"
    /\ SeedGoes(IF Seed.kind \in roles THEN "byEmail" ELSE "insertRole")
    /\ UNCHANGED <<database, calls, seen>>

SeedInsertsRole ==
    /\ seeding.pc = "insertRole"
    /\ ~RoleAwaited(Seed.kind, None)
    /\ Seed.kind \notin roles
    /\ roles' = roles \cup {Seed.kind}
    /\ Overlap(None)
    /\ SeedGoes("byEmail")
    /\ UNCHANGED <<users, reps, pc, request, name, madeRole, why, seen>>

SeedFindsUser(by, otherwise) ==
    LET found == {a \in DOMAIN users :
                     IF by = "byEmail" THEN users[a].email = Seed.email
                     ELSE users[a].username = Seed.username}
    IN /\ seeding.pc = by
       /\ IF found = {} THEN SeedGoes(otherwise)
          ELSE \E a \in found : seeding' = [seeding EXCEPT !.pc = "save", !.user = a]
       /\ UNCHANGED <<database, calls, seen>>

(* The account that was found gets the seed's e-mail and username. *)
SeedSavesUser ==
    LET a == IF seeding.user = None THEN Seeder ELSE seeding.user
        old == IF a \in DOMAIN users THEN users[a].roles ELSE {}
    IN /\ seeding.pc = "save"
       /\ ~UserTaken(Seed.email, Seed.username, a)
       /\ ~UserAwaited(Seed.email, Seed.username, None)
       /\ users' = With(users, a, [email |-> Seed.email, username |-> Seed.username,
                                   roles |-> old])
       /\ Overlap(None)
       /\ seeding' = [seeding EXCEPT !.pc = "link", !.user = a]
       /\ UNCHANGED <<roles, reps, pc, request, name, madeRole, why, seen>>

SeedLinksRole ==
    /\ seeding.pc = "link"
    /\ users' = [users EXCEPT ![seeding.user].roles = @ \cup {Seed.kind}]
    /\ IF Seed.kind = "sales_rep" THEN SeedGoes("findRep") ELSE seeding' = NoSeeding
    /\ UNCHANGED <<roles, reps, calls, seen>>

(* Slip: any representative is taken for the one of the seed. *)
SeedFindsAnyRep ==
    /\ seeding.pc = "findRep"
    /\ \E a \in DOMAIN reps \cup {seeding.user} :
          seeding' = [seeding EXCEPT !.pc = "saveRep", !.rep = a]
    /\ UNCHANGED <<database, calls, seen>>

SeedFindsRep ==
    LET found == {a \in DOMAIN reps : a = seeding.user \/ reps[a] = Seed.username}
    IN /\ seeding.pc = "findRep"
       /\ \E a \in IF found = {} THEN {seeding.user} ELSE found :
             seeding' = [seeding EXCEPT !.pc = "saveRep", !.rep = a]
       /\ UNCHANGED <<database, calls, seen>>

SeedSavesRep ==
    /\ seeding.pc = "saveRep"
    /\ ~RepTaken(Seed.username, seeding.rep)
    /\ ~RepAwaited(Seed.username, seeding.rep)
    /\ reps' = With(reps, seeding.rep, Seed.username)
    /\ Overlap(None)
    /\ seeding' = NoSeeding
    /\ UNCHANGED <<roles, users, pc, request, name, madeRole, why, seen>>

Register(r) ==
    \/ CheckEmail(r) \/ CountUsers(r) \/ CountReps(r) \/ EnsureRole(r) \/ CreateRole(r)
    \/ InsertUser(r) \/ InsertSalesRep(r) \/ Commit(r) \/ Answer(r) \/ Rollback(r)
SeederNext ==
    \/ SeedStarts \/ SeedStops \/ SeedFindsRole \/ SeedInsertsRole
    \/ SeedFindsUser("byEmail", "byUsername") \/ SeedFindsUser("byUsername", "save")
    \/ SeedSavesUser \/ SeedLinksRole \/ SeedFindsRep \/ SeedSavesRep

Next ==
    \/ \E r \in Registrations :
          \/ Begin(r) \/ Register(r) \/ Fault(r) \/ CommitUnanswered(r)
          \/ LoginSalesRep(r) \/ SaveLogin(r)
    \/ SeederNext

(* Some registration goes on as long as the database lets one; nobody has  *)
(* to register, log in or seed.  It is enough for all of them to end,      *)
(* since a registration takes finitely many steps.                         *)
Spec == Init /\ [][Next]_vars
FairSpec == Spec /\ WF_vars(\E r \in Registrations : Register(r))

-----------------------------------------------------------------------------
(* What r was registered with and its account still has: the seeder may    *)
(* replace the e-mail or the username.                                     *)
Left(r) ==
    {id \in {request[r].email, name[r]} \ {None, Blank} :
        \/ id = request[r].email /\ id = users[r].email
        \/ id = name[r] /\ id = users[r].username}

(* What is the address of r or a is a username of the other one. *)
CrossNamed(r, a, id) ==
    \/ users[r].email = id /\ (users[a].username = id \/ (a \in DOMAIN reps /\ reps[a] = id))
    \/ users[r].username = id /\ users[a].email = id

(* Whoever was told that an account was created still has something it was *)
(* created with, and a login with that finds the account.  It finds no     *)
(* other one, except an account that has the same words as a username      *)
(* where this one has them as an address, or the other way round.          *)
AccountReachable ==
    \A r \in Registrations : pc[r] \in {"ok", "saveLogin"} /\ Kind(r) # "user" =>
        /\ Left(r) # {}
        /\ \A id \in Left(r) :
              /\ r \in Found(Kind(r), id)
              /\ \A a \in Found(Kind(r), id) \ {r} : CrossNamed(r, a, id)

(* An account that was reported is there; a refused registration leaves    *)
(* nothing, unless it was refused because the token could not be made or   *)
(* the answer to COMMIT was lost.  Whatever was answered, an account that  *)
(* is there is whole: it has its role, and a representative its row in     *)
(* sales_reps.                                                             *)
AnswersTellTheTruth ==
    \A r \in Registrations :
        /\ pc[r] \in {"ok", "saveLogin"} => r \in DOMAIN users
        /\ pc[r] = "error" /\ why[r] \notin {"token", "cut"} =>
              r \notin DOMAIN users \cup DOMAIN reps
        /\ r \in DOMAIN users =>
              /\ Kind(r) \in users[r].roles /\ Kind(r) \in roles
              /\ Kind(r) = "sales_rep" => r \in DOMAIN reps

(* What the checks have let pass is refused by an index only when somebody *)
(* committed in the meantime.  Known exception: a blank username is        *)
(* accepted without a check, and stored.                                   *)
CollisionsAreRaces ==
    \A r \in Registrations :
        why[r] = "collision" => overlapped[r] \/ request[r].username = Blank

(* Where a registration stands tells what it has inserted and committed. *)
StepsInOrder ==
    \A r \in Registrations :
        /\ IF pc[r] = "unsent" THEN why[r] = "nothing" ELSE request[r] \in WellFormed
        /\ r \in DOMAIN users =>
              /\ \/ pc[r] \in {"token", "ok", "saveLogin"}
                 \/ pc[r] = "error" /\ why[r] = "token"
                 \/ pc[r] \in {"failed", "error"} /\ why[r] = "cut"
              /\ Kind(r) = "sales_rep" => r \in DOMAIN reps
              /\ Kind(r) \in users[r].roles \cap roles
        /\ pc[r] \in {"token", "ok", "saveLogin"} => r \in DOMAIN users
        /\ pc[r] \in {"insert", "insertRep", "commit"} => madeRole[r] \/ Kind(r) \in roles
        /\ pc[r] \in {"countUsers", "countReps"} /\ ~Given(r) => madeRole[r] \/ Kind(r) \in roles
        /\ pc[r] # "unsent" =>
              IF Kind(r) # "user" /\ request[r].username = None THEN name[r] \in Usernames
              ELSE name[r] = request[r].username
        /\ pc[r] \in {"countUsers", "countReps"} => name[r] \in Usernames
        /\ pc[r] = "insertRep" => Kind(r) = "sales_rep"
        /\ pc[r] = "saveLogin" => r \in DOMAIN reps /\ seen[r] # None

(* No two rows are alike where an index is unique, nor would they be if    *)
(* everything that was inserted were committed.                            *)
RowsAreUnique ==
    /\ \A a, b \in DOMAIN users :
          a # b => ~Clash(users[a].email, users[a].username, users[b].email, users[b].username)
    /\ \A a, b \in DOMAIN reps : a # b => reps[a] # reps[b]
    /\ \A r \in Registrations : UserPending(r) =>
          /\ ~UserTaken(request[r].email, name[r], None)
          /\ ~UserAwaited(request[r].email, name[r], r)
    /\ \A r \in Registrations : pc[r] = "commit" /\ Kind(r) = "sales_rep" =>
          ~RepTaken(name[r], None) /\ ~RepAwaited(name[r], r)

(* The seeder works on accounts that are there. *)
SeederHasFound ==
    /\ seeding.user # None => seeding.user \in DOMAIN users
    /\ seeding.pc \in {"link", "findRep", "saveRep"} => seeding.user # None
    /\ seeding.pc = "saveRep" => seeding.rep \in DOMAIN users

(* r has found its username free in both tables, and inserts it next. *)
NameChecked(r) ==
    \/ pc[r] \in {"role", "createRole"} /\ Given(r)
    \/ /\ pc[r] \in {"insert", "insertRep"}
       /\ Kind(r) # "user" /\ request[r].username # Blank

(* What a registration has looked up still holds until somebody commits.   *)
ChecksStand ==
    \A r \in Registrations : ~overlapped[r] =>
        /\ pc[r] \in {"countUsers", "countReps", "role", "createRole", "insert"} =>
              \A a \in DOMAIN users :
                 users[a].email = None \/ users[a].email # request[r].email
        /\ pc[r] = "countReps" \/ NameChecked(r) =>
              \A a \in DOMAIN users : users[a].username # name[r]
        /\ NameChecked(r) => \A a \in DOMAIN reps : reps[a] # name[r]
        /\ pc[r] = "createRole" => Kind(r) \notin roles

(* The inductive invariant: of the tables, and of what was looked up in    *)
(* them.                                                                   *)
TableInvariant == TypeOK /\ StepsInOrder /\ RowsAreUnique /\ SeederHasFound
RegistrationInvariant == TableInvariant /\ ChecksStand /\ CollisionsAreRaces

(* The row of an account is as it was registered, or the seed's, when it   *)
(* had the e-mail or the username of the seed.                             *)
Seeded(row) == row.email = Seed.email /\ row.username = Seed.username
RowStands(r) ==
    \/ users[r].email = request[r].email /\ users[r].username = name[r]
    \/ Seeded(users[r]) /\ (request[r].email = Seed.email \/ name[r] = Seed.username)

(* The row of a representative has the username that was registered as     *)
(* long as that of the user has.                                           *)
RepStands(r) ==
    Kind(r) = "sales_rep" /\ users[r].username = name[r] =>
        reps[r] = name[r] /\ (pc[r] = "saveLogin" => seen[r] = name[r])

(* The addresses of those who may log in are in lower case. *)
MayLogIn(a) == users[a].roles \cap {"admin", "sales_rep"} # {} \/ a \in DOMAIN reps
LoginsAreLower ==
    \A a \in DOMAIN users : MayLogIn(a) =>
        users[a].email = None \/ Lower(users[a].email) = users[a].email

(* The seeder changes the rows of the account it has found by the e-mail   *)
(* or the username of the seed, and no representative's that it would take *)
(* the username from.                                                      *)
SeederKeepsNames ==
    /\ seeding.pc \in {"idle", "role", "insertRole", "byEmail", "byUsername"} =>
          seeding.user = None
    /\ seeding.pc = "save" /\ seeding.user # None =>
          \/ users[seeding.user].email = Seed.email
          \/ users[seeding.user].username = Seed.username
    /\ seeding.pc \in {"link", "findRep", "saveRep"} => Seeded(users[seeding.user])
    /\ seeding.pc = "saveRep" =>
          /\ seeding.rep \in DOMAIN reps \cup {seeding.user}
          /\ seeding.rep \in Registrations /\ Kind(seeding.rep) = "sales_rep"
                /\ users[seeding.rep].username = name[seeding.rep] =>
                name[seeding.rep] = Seed.username

(* The inductive invariant of what identifies an account, beside           *)
(* TableInvariant.                                                         *)
AccountInvariant ==
    /\ \A r \in Registrations \cap DOMAIN users : RowStands(r) /\ RepStands(r)
    /\ LoginsAreLower /\ SeederKeepsNames

(* Every registration is answered: the search for a free username ends,    *)
(* and inserts that wait for one another are never a circle.               *)
EveryRegistrationEnds ==
    <>[](\A r \in Registrations : pc[r] \notin Running)
=============================================================================
