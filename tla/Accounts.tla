------------------------------- MODULE Accounts ------------------------------
(***************************************************************************)
(* Accounts, tokens and companies: POST /auth/register, /auth/login and    *)
(* /auth/refresh, the dependencies get_current_user and require_recruiter, *)
(* POST /companies and POST /companies/{id}/recruiters, and the service    *)
(* delete_user, which no endpoint calls yet.  A statement is a step.       *)
(*                                                                         *)
(* Two things outlive a request here: a row, and a token, which names its  *)
(* account by email.  Accounts, companies and memberships hang on one      *)
(* another by foreign keys with ON DELETE CASCADE, but delete_user goes    *)
(* through SQLAlchemy's session, which first loads the companies and       *)
(* memberships of the user and sets their foreign key to NULL: as the      *)
(* columns are NOT NULL, whoever has either cannot be deleted.  The        *)
(* cascade takes only what came after that load.                           *)
(*                                                                         *)
(* A crash needs no action: it is a handler that takes no further step,    *)
(* for each has one COMMIT and only reads after it.                        *)
(***************************************************************************)
EXTENDS FiniteSets

CONSTANTS
    Spellings,     \* emails as a client spells them
    Normalized,    \* email.strip().lower()
    Seeds,         \* the accounts there at the start
    SeedUsers,     \* the tables users there may be at the start
    Requests,      \* the requests ever received; bounds a behaviour
    None           \* None, "no such row"

Roles == {"candidate", "recruiter"}

Users == [email : Spellings, role : Roles, active : BOOLEAN]

ASSUME AccAssumption ==
    /\ Normalized \in [Spellings -> Spellings]
    /\ \A e \in Spellings : Normalized[Normalized[e]] = Normalized[e]
    /\ SeedUsers \subseteq [Seeds -> Users]
    /\ \A seed \in SeedUsers, s, t \in Seeds :
          /\ Normalized[seed[s].email] = seed[s].email
          /\ seed[s].email = seed[t].email => s = t
    /\ Seeds \cap Requests = {}
    /\ None \notin Seeds \cup Requests

\* A primary key is never reused: the account or company that request r inserts
\* is r, and the company a seed may have is that seed's.
Ids == Seeds \cup Requests

\* A pair of tokens: the email in "sub", and, for the properties, the account it
\* was issued to.
Tokens == [sub : Spellings, to : Ids]

\* What a handler holds: the payload, the current user, and "before", a history
\* variable: who had committed when it read what it relies on.  A handler that
\* writes, or fails to, keeps it after its answer.
Locals == [op : {"register", "session", "company", "member", "delete"},
           email : Spellings \cup {None}, me : Ids \cup {None},
           company : Ids \cup {None}, user : Ids \cup {None},
           before : SUBSET Requests]

ASSUME NoneAssumption == None \notin Users \cup Tokens \cup Locals

Working == {"create_user", "create_company", "get_company", "get_recruiter",
            "is_member", "add_recruiter", "load_relations", "delete_row", "reload"}

\* "raised" is an exception of delete_user, "lost" one after a commit.
Replies == {"ok", "conflict", "unauthorized", "forbidden", "not_found",
            "bad_request", "server_error", "raised", "lost"}

VARIABLES
    users,       \* table users
    companies,   \* table companies: the owner of each
    members,     \* table company_recruiters: <<company, recruiter>>
    tokens,      \* the pair of tokens each login or refresh has issued
    pc,          \* where each request is
    req          \* Locals of each request

vars == <<users, companies, members, tokens, pc, req>>

\* The seeds are logged in, and a recruiter may have a company.  Their roles and
\* is_activated are set: no endpoint sets either.
Init ==
    /\ \E seed \in SeedUsers, owners \in SUBSET Seeds :
          /\ \A s \in owners : seed[s].role = "recruiter"
          /\ users = [u \in Ids |-> IF u \in Seeds THEN seed[u] ELSE None]
          /\ companies = [c \in Ids |-> IF c \in owners THEN c ELSE None]
          /\ tokens = [t \in Ids |-> IF t \in Seeds THEN [sub |-> seed[t].email, to |-> t]
                                     ELSE None]
    /\ members = {}
    /\ pc = [r \in Requests |-> "idle"]
    /\ req = [r \in Requests |-> None]

Goto(r, label) == pc' = [pc EXCEPT ![r] = label]

Committed == {q \in Requests : pc[q] \in {"reload", "ok", "lost"}}

\* The handler has begun, and holds what is given.
Hold(r, op, email, me, company, user) ==
    req' = [req EXCEPT ![r] = [op |-> op, email |-> email, me |-> me,
                               company |-> company, user |-> user, before |-> Committed]]

\* The handler ends without having written, and its variables are gone.
Refuse(r, reply) ==
    /\ Goto(r, reply)
    /\ req' = [req EXCEPT ![r] = None]

Rows == <<users, companies, members>>

\* get_user_by_email: at most one account, for the column is unique.
ByEmail(email) ==
    {u \in Ids : users[u] # None /\ users[u].email = Normalized[email]}

-----------------------------------------------------------------------------
(* Registration, login and refresh *)

\* register: the SELECT.
Register(r, email) ==
    /\ pc[r] = "idle"
    /\ \/ /\ ByEmail(email) # {}
          /\ Refuse(r, "conflict")
       \/ /\ ByEmail(email) = {}
          /\ Hold(r, "register", email, None, None, None)
          /\ Goto(r, "create_user")
    /\ UNCHANGED <<users, companies, members, tokens>>

\* A slip for the mutation runs: the email is stored as it was spelt.
NewUserAsSpelt(email) == [email |-> email, role |-> "candidate", active |-> TRUE]

NewUser(email) == [email |-> Normalized[email], role |-> "candidate", active |-> TRUE]

\* A slip for the mutation runs: the column users.email is not unique.
NeverTaken(email) == FALSE

Taken(email) == \E u \in Ids : users[u] # None /\ users[u].email = email

\* create_user: INSERT and COMMIT.  The IntegrityError of a taken email is not
\* caught.
CreateUser(r) ==
    LET row == NewUser(req[r].email) IN
    /\ pc[r] = "create_user"
    /\ \/ /\ Taken(row.email)
          /\ Goto(r, "server_error")
          /\ UNCHANGED users
       \/ /\ ~Taken(row.email)
          /\ users' = [users EXCEPT ![r] = row]
          /\ Goto(r, "reload")
    /\ UNCHANGED <<companies, members, tokens, req>>

\* A pair of tokens for the account u, or the refusal of a missing or a
\* deactivated one.
IssueTokens(r, found) ==
    \/ /\ found = {}
       /\ Refuse(r, "unauthorized")
       /\ UNCHANGED tokens
    \/ \E u \in found :
          \/ /\ ~users[u].active
             /\ Refuse(r, "forbidden")
             /\ UNCHANGED tokens
          \/ /\ users[u].active
             /\ tokens' = [tokens EXCEPT ![r] = [sub |-> users[u].email, to |-> u]]
             /\ Hold(r, "session", None, u, None, None)
             /\ Goto(r, "ok")

\* login, with the right password or a wrong one.
Login(r, email, right) ==
    /\ pc[r] = "idle"
    /\ IssueTokens(r, IF right THEN ByEmail(email) ELSE {})
    /\ UNCHANGED Rows

\* A token as a client presents it: one of a pair, and in time or too late.
Presented == [pair : {t \in Ids : tokens[t] # None}, kind : {"access", "refresh"},
              expired : BOOLEAN]

\* decode_token_strict, the test of its type, and get_user_by_email.
Bearer(token, kind) ==
    IF token.expired \/ token.kind # kind THEN {} ELSE ByEmail(tokens[token.pair].sub)

RefreshTokens(r, token) ==
    /\ pc[r] = "idle"
    /\ IssueTokens(r, Bearer(token, "refresh"))
    /\ UNCHANGED Rows

-----------------------------------------------------------------------------
(* Companies and their recruiters *)

\* get_current_user and require_recruiter; the handler goes on to "next".
Authenticate(r, token, op, company, user, next) ==
    LET found == Bearer(token, "access") IN
    /\ pc[r] = "idle"
    /\ \/ /\ found = {}
          /\ Refuse(r, "unauthorized")
       \/ \E u \in found :
             \/ /\ ~users[u].active \/ users[u].role # "recruiter"
                /\ Refuse(r, "forbidden")
             \/ /\ users[u].active /\ users[u].role = "recruiter"
                /\ Hold(r, op, None, u, company, user)
                /\ Goto(r, next)
    /\ UNCHANGED <<users, companies, members, tokens>>

\* create_company: INSERT and COMMIT, with the owner as it was authenticated.
CreateCompany(r) ==
    LET me == req[r].me IN
    /\ pc[r] = "create_company"
    /\ \/ /\ users[me] = None
          /\ Goto(r, "server_error")
          /\ UNCHANGED companies
       \/ /\ users[me] # None
          /\ companies' = [companies EXCEPT ![r] = me]
          /\ Goto(r, "reload")
    /\ UNCHANGED <<users, members, tokens, req>>

\* add_company_recruiter_member: the company, its owner, and who is to be added.
GetCompany(r) ==
    LET q == req[r] IN
    /\ pc[r] = "get_company"
    /\ \/ companies[q.company] = None /\ Refuse(r, "not_found")
       \/ companies[q.company] \notin {None, q.me} /\ Refuse(r, "forbidden")
       \/ companies[q.company] = q.me /\ q.user = q.me /\ Refuse(r, "conflict")
       \/ /\ companies[q.company] = q.me /\ q.user # q.me
          /\ Goto(r, "get_recruiter")
          /\ UNCHANGED req
    /\ UNCHANGED <<users, companies, members, tokens>>

GetRecruiter(r) ==
    LET row == users[req[r].user] IN
    /\ pc[r] = "get_recruiter"
    /\ \/ row = None /\ Refuse(r, "bad_request")
       \/ row # None /\ row.role # "recruiter" /\ Refuse(r, "bad_request")
       \/ /\ row # None /\ row.role = "recruiter"
          /\ Goto(r, "is_member")
          /\ UNCHANGED req
    /\ UNCHANGED <<users, companies, members, tokens>>

\* A slip for the mutation runs: the duplicate is left to the constraint.
NotAsked(company, user) == FALSE

AlreadyMember(company, user) == <<company, user>> \in members

IsMember(r) ==
    /\ pc[r] = "is_member"
    /\ \/ /\ AlreadyMember(req[r].company, req[r].user)
          /\ Refuse(r, "conflict")
       \/ /\ ~AlreadyMember(req[r].company, req[r].user)
          /\ Goto(r, "add_recruiter")
          /\ UNCHANGED req
    /\ UNCHANGED <<users, companies, members, tokens>>

\* add_recruiter_to_company: INSERT and COMMIT, with two foreign keys and a unique
\* constraint whose IntegrityError is not caught.
AddRecruiter(r) ==
    LET q == req[r]
        fits == /\ companies[q.company] # None /\ users[q.user] # None
                /\ <<q.company, q.user>> \notin members
    IN
    /\ pc[r] = "add_recruiter"
    /\ \/ /\ ~fits
          /\ Goto(r, "server_error")
          /\ UNCHANGED members
       \/ /\ fits
          /\ members' = members \cup {<<q.company, q.user>>}
          /\ Goto(r, "reload")
    /\ UNCHANGED <<users, companies, tokens, req>>

\* The row that the handler has inserted.
Inserted(r) ==
    CASE req[r].op = "register" -> users[r] # None
      [] req[r].op = "company" -> companies[r] # None
      [] OTHER -> <<req[r].company, req[r].user>> \in members

\* db.refresh of the new row, which raises if it has been deleted since.
Reload(r) ==
    /\ pc[r] = "reload"
    /\ Goto(r, IF Inserted(r) THEN "ok" ELSE "lost")
    /\ UNCHANGED <<users, companies, members, tokens, req>>

-----------------------------------------------------------------------------
(* Deletion *)

\* delete_user: the SELECT.
GetUser(r, u) ==
    /\ pc[r] = "idle"
    /\ \/ /\ users[u] = None
          /\ Refuse(r, "not_found")
       \/ /\ users[u] # None
          /\ Hold(r, "delete", None, None, None, u)
          /\ Goto(r, "load_relations")
    /\ UNCHANGED <<users, companies, members, tokens>>

\* A slip for the mutation runs: passive_deletes on the relationships.
LeftToTheDatabase(u) == FALSE

HasRelations(u) == \E c \in Ids : companies[c] = u \/ <<c, u>> \in members

\* The flush loads user.companies and user.company_memberships; to set a foreign
\* key to NULL raises IntegrityError.
LoadRelations(r) ==
    /\ pc[r] = "load_relations"
    /\ \/ /\ HasRelations(req[r].user)
          /\ Refuse(r, "raised")
       \/ /\ ~HasRelations(req[r].user)
          /\ req' = [req EXCEPT ![r].before = Committed]
          /\ Goto(r, "delete_row")
    /\ UNCHANGED <<users, companies, members, tokens>>

\* DELETE and COMMIT, and what the foreign keys cascade to.  If the row is gone
\* SQLAlchemy only warns.
DeleteRow(r) ==
    LET u == req[r].user IN
    /\ pc[r] = "delete_row"
    /\ users' = [users EXCEPT ![u] = None]
    /\ companies' = [c \in Ids |-> IF companies[c] = u THEN None ELSE companies[c]]
    /\ members' = {m \in members : m[2] # u /\ companies[m[1]] # u}
    /\ Goto(r, "ok")
    /\ UNCHANGED <<tokens, req>>

-----------------------------------------------------------------------------
Receive(r) ==
    \/ \E email \in Spellings : Register(r, email)
    \/ \E email \in Spellings, right \in BOOLEAN : Login(r, email, right)
    \/ \E token \in Presented : RefreshTokens(r, token)
    \/ \E token \in Presented : Authenticate(r, token, "company", None, None, "create_company")
    \/ \E token \in Presented, company \in Ids, user \in Ids :
          Authenticate(r, token, "member", company, user, "get_company")
    \/ \E u \in Ids : GetUser(r, u)

Handle(r) ==
    \/ CreateUser(r) \/ CreateCompany(r) \/ GetCompany(r) \/ GetRecruiter(r)
    \/ IsMember(r) \/ AddRecruiter(r) \/ Reload(r) \/ LoadRelations(r) \/ DeleteRow(r)

Next == \E r \in Requests : Receive(r) \/ Handle(r)

Spec == Init /\ [][Next]_vars

-----------------------------------------------------------------------------
(* Properties *)

\* Every variable keeps its type, and a handler at work has its variables.
TypeOK ==
    /\ users \in [Ids -> Users \cup {None}]
    /\ companies \in [Ids -> Ids \cup {None}]
    /\ members \in SUBSET (Ids \X Ids)
    /\ tokens \in [Ids -> Tokens \cup {None}]
    /\ pc \in [Requests -> {"idle"} \cup Working \cup Replies]
    /\ req \in [Requests -> Locals \cup {None}]
    /\ \A r \in Requests : pc[r] \in Working \cup {"ok", "lost", "server_error"} =>
          req[r] \in Locals

\* No two accounts have emails that are one address in two spellings, although
\* two registrations check before either inserts.
OneAccountPerEmail ==
    \A u, v \in Ids :
        /\ users[u] # None /\ users[v] # None
        /\ Normalized[users[u].email] = Normalized[users[v].email]
        => u = v

\* A token speaks for the account it was issued to.  It can speak for another one,
\* registered under the same email, only after the first has been deleted.
TokenSpeaksForItsAccount ==
    \A t \in Ids : tokens[t] # None =>
        \A u \in ByEmail(tokens[t].sub) : u = tokens[t].to \/ users[tokens[t].to] = None

\* q committed after r read what it relies on.
Overtook(q, r) == q # r /\ q \in Committed /\ q \notin req[r].before

\* No company and no membership is deleted with an account, except those that were
\* inserted after delete_user had looked for them.
GoesOnlyIfRaced ==
    [][/\ \A c \in Ids : companies[c] # None /\ companies'[c] = None =>
             \E r \in Requests : pc[r] = "delete_row" /\ c \in Requests /\ Overtook(c, r)
       /\ \A m \in members \ members' :
             \E r, q \in Requests :
                 /\ pc[r] = "delete_row" /\ Overtook(q, r)
                 /\ req[q].op = "member" /\ m = <<req[q].company, req[q].user>>]_vars

\* What is left of the documented answers, see DuplicateIsConflict: a registration, a
\* new company and a new member are answered 500 only because a rival committed since
\* the handler began, one that inserted the same email or member, or deleted an account
\* the new row refers to.  Without a rival a duplicate is always the documented 409.
FailsOnlyIfRaced ==
    \A r \in Requests : pc[r] = "server_error" =>
        \E q \in Requests :
            /\ Overtook(q, r)
            /\ \/ /\ req[q].op = "register" /\ req[r].op = "register"
                  /\ Normalized[req[q].email] = Normalized[req[r].email]
               \/ /\ req[q].op = "member" /\ req[r].op = "member"
                  /\ req[q].company = req[r].company /\ req[q].user = req[r].user
               \/ req[q].op = "delete" /\ req[q].user \in {req[r].me, req[r].user}

-----------------------------------------------------------------------------
(* What the documents say and the code does not keep. *)

\* auth-and-roles.md and error-handling.md: a duplicate email is answered 409, and so
\* is, in api-contracts.md, a duplicate membership.  Violated: two handlers find no
\* such row, and the IntegrityError of the second INSERT is not caught.
DuplicateIsConflict ==
    \A r \in Requests : pc[r] = "server_error" =>
        /\ req[r].op = "register" => ~Taken(Normalized[req[r].email])
        /\ req[r].op = "member" => ~AlreadyMember(req[r].company, req[r].user)
=============================================================================
