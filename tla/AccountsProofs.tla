---------------------------- MODULE AccountsProofs ---------------------------
(***************************************************************************)
(* Proofs about Accounts, for any emails, seeds and requests.  The         *)
(* invariant says of each handler at work what it may still rely on: what  *)
(* it has read is so, or somebody has overtaken it and changed it.         *)
(***************************************************************************)
EXTENDS Accounts, TLAPS

\* Somebody deleted u since r read it.
DeletedBehind(u, r) ==
    \E q \in Requests : Overtook(q, r) /\ req[q].op = "delete" /\ req[q].user = u

\* Somebody made u a member of c since r looked.
AddedBehind(c, u, r) ==
    \E q \in Requests : /\ Overtook(q, r) /\ req[q].op = "member"
                        /\ req[q].company = c /\ req[q].user = u

\* Somebody registered the email since r looked.
RegisteredBehind(email, r) ==
    \E q \in Requests : /\ Overtook(q, r) /\ req[q].op = "register"
                        /\ Normalized[req[q].email] = email

\* What failed in the database was overtaken.
Raced(r) ==
    \E q \in Requests :
        /\ Overtook(q, r)
        /\ \/ /\ req[q].op = "register" /\ req[r].op = "register"
              /\ Normalized[req[q].email] = Normalized[req[r].email]
           \/ /\ req[q].op = "member" /\ req[r].op = "member"
              /\ req[q].company = req[r].company /\ req[q].user = req[r].user
           \/ req[q].op = "delete" /\ req[q].user \in {req[r].me, req[r].user}

Started(c) == c \in Requests => c \in Committed

\* What the handler of POST /auth/register relies on.
RegisterOK(r) ==
    pc[r] = "create_user" =>
        /\ req[r].op = "register" /\ req[r].email \in Spellings
        /\ \A u \in Ids : users[u] # None /\ users[u].email = Normalized[req[r].email] =>
              RegisteredBehind(Normalized[req[r].email], r)

\* What those of POST /companies and POST /companies/{id}/recruiters rely on.
RecruiterOK(r) ==
    LET q == req[r] IN
    /\ pc[r] = "create_company" =>
         q.op = "company" /\ q.me \in Ids /\ (users[q.me] = None => DeletedBehind(q.me, r))
    /\ pc[r] \in {"get_company", "get_recruiter", "is_member", "add_recruiter"} =>
         /\ q.op = "member" /\ q.me \in Ids /\ q.company \in Ids /\ q.user \in Ids
         /\ users[q.me] = None => DeletedBehind(q.me, r)
    /\ pc[r] \in {"get_recruiter", "is_member", "add_recruiter"} =>
         /\ Started(q.company)
         /\ companies[q.company] # q.me =>
              companies[q.company] = None /\ DeletedBehind(q.me, r)
    /\ pc[r] \in {"is_member", "add_recruiter"} =>
         (users[q.user] = None => DeletedBehind(q.user, r))
    /\ pc[r] = "add_recruiter" =>
         (<<q.company, q.user>> \in members => AddedBehind(q.company, q.user, r))

\* What delete_user relies on.
DeleteOK(r) ==
    LET q == req[r] IN
    /\ pc[r] \in {"load_relations", "delete_row"} => q.op = "delete" /\ q.user \in Ids
    /\ pc[r] = "delete_row" =>
         /\ \A c \in Ids : companies[c] = q.user => c \in Requests /\ Overtook(c, r)
         /\ \A c, u \in Ids : <<c, u>> \in members /\ (u = q.user \/ companies[c] = q.user) =>
              AddedBehind(c, u, r)

ReqOK(r) ==
    /\ pc[r] \in Working => req[r].before \subseteq Committed
    /\ RegisterOK(r) /\ RecruiterOK(r) /\ DeleteOK(r)
    /\ pc[r] = "server_error" => Raced(r)

\* Emails are stored normalised, and an account is its registration's.
EmailInv ==
    \A u \in Ids : users[u] # None =>
        /\ Normalized[users[u].email] = users[u].email
        /\ u \in Requests => /\ u \in Committed /\ req[u].op = "register"
                             /\ users[u].email = Normalized[req[u].email]

\* A token's "sub" is the email of the account it was issued to.
TokenInv ==
    \A t \in Ids : tokens[t] # None =>
        /\ Normalized[tokens[t].sub] = tokens[t].sub
        /\ Started(tokens[t].to)
        /\ users[tokens[t].to] # None => users[tokens[t].to].email = tokens[t].sub

\* A company is its request's, and a membership is of a company that is there.
RowInv ==
    /\ \A c \in Ids : companies[c] # None => Started(c)
    /\ \A c, u \in Ids : <<c, u>> \in members => companies[c] # None

IInv ==
    /\ TypeOK
    /\ EmailInv
    /\ OneAccountPerEmail
    /\ TokenInv
    /\ RowInv
    /\ \A r \in Requests : ReqOK(r)

USE AccAssumption, NoneAssumption

-----------------------------------------------------------------------------
\* Initially there are the seeds, and nobody is at work.
LEMMA InitIInv == Init => IInv
PROOF
  <1> SUFFICES ASSUME Init PROVE IInv
    OBVIOUS
  <1>1. PICK seed \in SeedUsers, owners \in SUBSET Seeds :
          /\ users = [u \in Ids |-> IF u \in Seeds THEN seed[u] ELSE None]
          /\ companies = [c \in Ids |-> IF c \in owners THEN c ELSE None]
          /\ tokens = [t \in Ids |-> IF t \in Seeds THEN [sub |-> seed[t].email, to |-> t]
                                     ELSE None]
    BY DEF Init
  <1>2. /\ members = {} /\ pc = [r \in Requests |-> "idle"]
        /\ req = [r \in Requests |-> None]
    BY DEF Init
  <1>3. /\ seed \in [Seeds -> Users]
        /\ \A s \in Seeds : Normalized[seed[s].email] = seed[s].email
        /\ \A s, t \in Seeds : seed[s].email = seed[t].email => s = t
    OBVIOUS
  <1>4. TypeOK
    BY <1>1, <1>2, <1>3 DEF TypeOK, Ids, Users, Tokens, Working
  <1>5. EmailInv /\ OneAccountPerEmail /\ TokenInv /\ RowInv
    <2>1. \A u \in Ids : users[u] # None => u \in Seeds /\ users[u] = seed[u]
      BY <1>1
    <2>2. EmailInv /\ OneAccountPerEmail
      BY <1>3, <2>1 DEF EmailInv, OneAccountPerEmail
    <2>3. \A t \in Ids : tokens[t] # None =>
             t \in Seeds /\ tokens[t].sub = seed[t].email /\ tokens[t].to = t
      BY <1>1
    <2>4. TokenInv
      BY <1>3, <2>1, <2>3 DEF TokenInv, Started
    <2>5. RowInv
      BY <1>1, <1>2 DEF RowInv, Started
    <2> QED
      BY <2>2, <2>4, <2>5
  <1>6. \A r \in Requests : ReqOK(r)
    BY <1>2 DEF ReqOK, RegisterOK, RecruiterOK, DeleteOK, Working
  <1> QED
    BY <1>4, <1>5, <1>6 DEF IInv

\* A step of r: the other handlers stay, and what has committed stays so.
StepOf(r) ==
    /\ pc \in [Requests -> {"idle"} \cup Working \cup Replies]
    /\ pc' \in [Requests -> {"idle"} \cup Working \cup Replies]
    /\ \A p \in Requests \ {r} : pc'[p] = pc[p] /\ req'[p] = req[p]
    /\ r \in Committed => r \in Committed' /\ req'[r] = req[r]

\* Who has overtaken another handler has done so for good.
LEMMA Overtaken ==
    ASSUME NEW r \in Requests, StepOf(r), NEW p \in Requests \ {r}
    PROVE  /\ \A q \in Committed : q \in Committed' /\ req'[q] = req[q]
           /\ \A q \in Requests : Overtook(q, p) => Overtook(q, p)'
           /\ \A u : DeletedBehind(u, p) => DeletedBehind(u, p)'
           /\ \A c, u : AddedBehind(c, u, p) => AddedBehind(c, u, p)'
           /\ \A e : RegisteredBehind(e, p) => RegisteredBehind(e, p)'
           /\ Raced(p) => Raced(p)'
PROOF
  <1>1. \A q \in Committed : q \in Committed' /\ req'[q] = req[q]
    BY DEF StepOf, Committed
  <1>2. \A q \in Requests : Overtook(q, p) => Overtook(q, p)' /\ req'[q] = req[q]
    BY <1>1 DEF StepOf, Overtook
  <1>3. req'[p] = req[p]
    BY DEF StepOf
  <1> QED
    BY <1>1, <1>2, <1>3 DEF DeletedBehind, AddedBehind, RegisteredBehind, Raced

\* Whoever commits now overtakes all who are at work.
LEMMA Overtaking ==
    ASSUME IInv, NEW r \in Requests, StepOf(r), r \notin Committed, r \in Committed',
           NEW p \in Requests \ {r}, pc[p] \in Working
    PROVE  Overtook(r, p)'
PROOF
  BY DEF IInv, ReqOK, StepOf, Overtook

\* A step that writes no row leaves the others what they rely on.
LEMMA QuietStep ==
    ASSUME IInv, NEW r \in Requests, StepOf(r), UNCHANGED Rows, NEW p \in Requests \ {r}
    PROVE  ReqOK(p)'
PROOF
  <1>1. pc'[p] = pc[p] /\ req'[p] = req[p] /\ ReqOK(p)
    BY DEF StepOf, IInv
  <1>2. UNCHANGED <<users, companies, members>>
    BY DEF Rows
  <1>3. pc'[p] \in Working => req'[p].before \subseteq Committed'
    BY <1>1, Overtaken DEF ReqOK
  <1>4. RegisterOK(p)'
    BY <1>1, <1>2, Overtaken DEF ReqOK, RegisterOK
  <1>5. RecruiterOK(p)'
    BY <1>1, <1>2, Overtaken DEF ReqOK, RecruiterOK, Started
  <1>6. DeleteOK(p)'
    BY <1>1, <1>2, Overtaken DEF ReqOK, DeleteOK
  <1>7. pc'[p] = "server_error" => Raced(p)'
    BY <1>1, Overtaken DEF ReqOK
  <1> QED
    BY <1>3, <1>4, <1>5, <1>6, <1>7 DEF ReqOK

\* A step that writes neither a row nor a token has to answer only for r.
LEMMA ReadStep ==
    ASSUME IInv, NEW r \in Requests, StepOf(r), UNCHANGED <<users, companies, members, tokens>>,
           TypeOK', ReqOK(r)'
    PROVE  IInv'
PROOF
  <1>1. \A q \in Committed : q \in Committed' /\ req'[q] = req[q]
    BY DEF StepOf, Committed
  <1>2. EmailInv' /\ TokenInv' /\ RowInv'
    BY <1>1 DEF IInv, EmailInv, TokenInv, RowInv, Started
  <1>3. OneAccountPerEmail'
    BY DEF IInv, OneAccountPerEmail
  <1>4. \A p \in Requests : ReqOK(p)'
    BY QuietStep DEF Rows
  <1> QED
    BY <1>2, <1>3, <1>4 DEF IInv

\* A refusal: the handler has written nothing and relies on nothing.
LEMMA RefuseStep ==
    ASSUME IInv, NEW r \in Requests, r \notin Committed,
           NEW reply \in Replies \ {"ok", "lost", "server_error"}, Refuse(r, reply),
           UNCHANGED <<users, companies, members, tokens>>
    PROVE  IInv'
PROOF
  <1>1. pc' = [pc EXCEPT ![r] = reply] /\ req' = [req EXCEPT ![r] = None]
    BY DEF Refuse, Goto
  <1>2. TypeOK'
    BY <1>1 DEF IInv, TypeOK, Working, Replies
  <1>3. StepOf(r)
    BY <1>1, <1>2 DEF StepOf, IInv, TypeOK
  <1>4. pc'[r] = reply
    BY <1>1 DEF IInv, TypeOK
  <1>5. ReqOK(r)'
    BY <1>4 DEF ReqOK, RegisterOK, RecruiterOK, DeleteOK, Working, Replies
  <1> QED
    BY <1>2, <1>3, <1>5, ReadStep

\* A handler begins, and holds what it was given.
LEMMA HoldStep ==
    ASSUME IInv, NEW r \in Requests, pc[r] = "idle",
           NEW label \in Working \cup {"ok"}, Goto(r, label),
           NEW op \in {"register", "session", "company", "member", "delete"},
           NEW email \in Spellings \cup {None}, NEW me \in Ids \cup {None},
           NEW company \in Ids \cup {None}, NEW user \in Ids \cup {None},
           Hold(r, op, email, me, company, user)
    PROVE  /\ StepOf(r) /\ pc'[r] = label /\ req'[r] \in Locals
           /\ req'[r].op = op /\ req'[r].email = email /\ req'[r].me = me
           /\ req'[r].company = company /\ req'[r].user = user
           /\ req'[r].before \subseteq Committed'
           /\ pc' \in [Requests -> {"idle"} \cup Working \cup Replies]
           /\ req' \in [Requests -> Locals \cup {None}]
           /\ \A p \in Requests : pc'[p] \in Working \cup {"ok", "lost", "server_error"} =>
                  req'[p] \in Locals
PROOF
  <1> DEFINE q == [op |-> op, email |-> email, me |-> me, company |-> company,
                   user |-> user, before |-> Committed]
  <1>1. q \in Locals /\ q.op = op /\ q.email = email /\ q.me = me /\ q.company = company
        /\ q.user = user /\ q.before = Committed
    BY DEF Locals, Committed
  <1>2. req' = [req EXCEPT ![r] = q] /\ pc' = [pc EXCEPT ![r] = label]
    BY DEF Hold, Goto
  <1> HIDE DEF q
  <1>3. r \notin Committed
    BY DEF Committed
  <1>4. pc \in [Requests -> {"idle"} \cup Working \cup Replies]
        /\ pc' \in [Requests -> {"idle"} \cup Working \cup Replies]
    BY <1>2 DEF IInv, TypeOK, Replies
  <1>5. StepOf(r) /\ pc'[r] = label /\ req'[r] = q
    BY <1>2, <1>3, <1>4 DEF StepOf, IInv, TypeOK
  <1>6. Committed \subseteq Committed'
    BY <1>3, <1>5 DEF StepOf, Committed
  <1>7. req' \in [Requests -> Locals \cup {None}]
        /\ \A p \in Requests : pc'[p] \in Working \cup {"ok", "lost", "server_error"} =>
              req'[p] \in Locals
    BY <1>1, <1>2 DEF IInv, TypeOK
  <1> QED
    BY <1>1, <1>4, <1>5, <1>6, <1>7

\* Registration goes on to the INSERT if the email is free.
LEMMA RegisterStep ==
    ASSUME IInv, NEW r \in Requests, NEW email \in Spellings, Register(r, email)
    PROVE  IInv'
PROOF
  <1>1. pc[r] = "idle" /\ r \notin Committed /\ UNCHANGED <<users, companies, members, tokens>>
    BY DEF Register, Committed
  <1>2. CASE Refuse(r, "conflict")
    BY <1>1, <1>2, RefuseStep DEF Replies
  <1>3. CASE /\ ByEmail(email) = {} /\ Hold(r, "register", email, None, None, None)
             /\ Goto(r, "create_user")
    <2>1. /\ StepOf(r) /\ pc'[r] = "create_user" /\ req'[r].op = "register"
          /\ req'[r].email = email /\ req'[r].before \subseteq Committed'
          /\ pc' \in [Requests -> {"idle"} \cup Working \cup Replies]
          /\ req' \in [Requests -> Locals \cup {None}]
          /\ \A p \in Requests : pc'[p] \in Working \cup {"ok", "lost", "server_error"} =>
                 req'[p] \in Locals
      BY <1>1, <1>3, HoldStep DEF Working
    <2>2. TypeOK'
      BY <1>1, <2>1 DEF IInv, TypeOK
    <2>3. RegisterOK(r)'
      BY <1>1, <1>3, <2>1 DEF RegisterOK, ByEmail
    <2>4. ReqOK(r)'
      BY <2>1, <2>3 DEF ReqOK, RecruiterOK, DeleteOK
    <2> QED
      BY <1>1, <2>1, <2>2, <2>4, ReadStep
  <1> QED
    BY <1>2, <1>3 DEF Register

\* Tokens are issued to an account that is there, for its email.
LEMMA IssueStep ==
    ASSUME IInv, NEW r \in Requests, pc[r] = "idle", NEW found \in SUBSET Ids,
           \A u \in found : users[u] # None, IssueTokens(r, found), UNCHANGED Rows
    PROVE  IInv'
PROOF
  <1>1. r \notin Committed /\ UNCHANGED <<users, companies, members>>
    BY DEF Committed, Rows
  <1>2. ASSUME NEW reply \in {"unauthorized", "forbidden"}, Refuse(r, reply), UNCHANGED tokens
        PROVE  IInv'
    BY <1>1, <1>2, RefuseStep DEF Replies
  <1>3. ASSUME NEW u \in found, Hold(r, "session", None, u, None, None), Goto(r, "ok"),
               tokens' = [tokens EXCEPT ![r] = [sub |-> users[u].email, to |-> u]]
        PROVE  IInv'
    <2> DEFINE pair == [sub |-> users[u].email, to |-> u]
    <2>1. /\ StepOf(r) /\ pc'[r] = "ok"
          /\ pc' \in [Requests -> {"idle"} \cup Working \cup Replies]
          /\ req' \in [Requests -> Locals \cup {None}]
          /\ \A p \in Requests : pc'[p] \in Working \cup {"ok", "lost", "server_error"} =>
                 req'[p] \in Locals
      BY <1>3, HoldStep
    <2>2. users[u] \in Users /\ users[u] # None /\ u \in Ids
      BY DEF IInv, TypeOK
    <2>3. pair \in Tokens /\ pair.sub = users[u].email /\ pair.to = u
      BY <2>2 DEF Users, Tokens
    <2> HIDE DEF pair
    <2>4. tokens' = [tokens EXCEPT ![r] = pair] /\ r \in Ids
      BY <1>3 DEF pair, Ids
    <2>5. TypeOK'
      BY <1>1, <2>1, <2>3, <2>4 DEF IInv, TypeOK
    <2>6. \A q \in Committed : q \in Committed' /\ req'[q] = req[q]
      BY <2>1 DEF StepOf, Committed
    <2>7. EmailInv' /\ OneAccountPerEmail' /\ RowInv'
      BY <1>1, <2>6 DEF IInv, EmailInv, OneAccountPerEmail, RowInv, Started
    <2>8. TokenInv'
      <3>1. Started(u)' /\ Normalized[users[u].email] = users[u].email
        BY <2>2, <2>6 DEF IInv, EmailInv, Started
      <3> QED
        BY <1>1, <2>2, <2>3, <2>4, <2>6, <3>1 DEF IInv, TypeOK, TokenInv, Started
    <2>9. ReqOK(r)'
      BY <2>1 DEF ReqOK, RegisterOK, RecruiterOK, DeleteOK, Working
    <2>10. \A p \in Requests : ReqOK(p)'
      BY <2>1, <2>9, QuietStep
    <2> QED
      BY <2>5, <2>7, <2>8, <2>10 DEF IInv
  <1> QED
    BY <1>2, <1>3 DEF IssueTokens

\* A login and a refresh look the account up by the email they are given.
LEMMA SessionStep ==
    ASSUME IInv, NEW r \in Requests,
           \/ \E email \in Spellings, right \in BOOLEAN : Login(r, email, right)
           \/ \E token \in Presented : RefreshTokens(r, token)
    PROVE  IInv'
PROOF
  <1>1. ASSUME NEW email \in Spellings, NEW right \in BOOLEAN, Login(r, email, right)
        PROVE  IInv'
    <2> DEFINE found == IF right THEN ByEmail(email) ELSE {}
    <2>1. found \in SUBSET Ids /\ \A u \in found : users[u] # None
      BY DEF ByEmail
    <2>2. pc[r] = "idle" /\ IssueTokens(r, found) /\ UNCHANGED Rows
      BY <1>1 DEF Login
    <2> HIDE DEF found
    <2> QED
      BY <2>1, <2>2, IssueStep
  <1>2. ASSUME NEW token \in Presented, RefreshTokens(r, token)
        PROVE  IInv'
    <2> DEFINE found == Bearer(token, "refresh")
    <2>1. found \in SUBSET Ids /\ \A u \in found : users[u] # None
      BY DEF Bearer, ByEmail
    <2>2. pc[r] = "idle" /\ IssueTokens(r, found) /\ UNCHANGED Rows
      BY <1>2 DEF RefreshTokens
    <2> HIDE DEF found
    <2> QED
      BY <2>1, <2>2, IssueStep
  <1> QED
    BY <1>1, <1>2

\* A recruiter is let in who is there when the token is looked up.
LEMMA AuthenticateStep ==
    ASSUME IInv, NEW r \in Requests, NEW token \in Presented,
           \/ Authenticate(r, token, "company", None, None, "create_company")
           \/ \E company \in Ids, user \in Ids :
                 Authenticate(r, token, "member", company, user, "get_company")
    PROVE  IInv'
PROOF
  <1>1. pc[r] = "idle" /\ r \notin Committed /\ UNCHANGED <<users, companies, members, tokens>>
    BY DEF Authenticate, Committed
  <1>2. ASSUME NEW reply \in {"unauthorized", "forbidden"}, Refuse(r, reply)
        PROVE  IInv'
    BY <1>1, <1>2, RefuseStep DEF Replies
  <1>3. ASSUME NEW u \in Ids, users[u] # None, Hold(r, "company", None, u, None, None),
               Goto(r, "create_company")
        PROVE  IInv'
    <2> u \in Ids \cup {None} /\ None \in Ids \cup {None} /\ None \in Spellings \cup {None}
        /\ "create_company" \in Working \cup {"ok"}
      BY DEF Working
    <2>1. /\ StepOf(r) /\ pc'[r] = "create_company" /\ req'[r].op = "company"
          /\ req'[r].me = u /\ req'[r].before \subseteq Committed'
          /\ pc' \in [Requests -> {"idle"} \cup Working \cup Replies]
          /\ req' \in [Requests -> Locals \cup {None}]
          /\ \A p \in Requests : pc'[p] \in Working \cup {"ok", "lost", "server_error"} =>
                 req'[p] \in Locals
      BY <1>1, <1>3, HoldStep, SMTT(20)
    <2>2. TypeOK'
      BY <1>1, <2>1 DEF IInv, TypeOK
    <2>3. ReqOK(r)'
      BY <1>1, <1>3, <2>1 DEF ReqOK, RegisterOK, RecruiterOK, DeleteOK
    <2> QED
      BY <1>1, <2>1, <2>2, <2>3, ReadStep
  <1>4. ASSUME NEW u \in Ids, users[u] # None, NEW company \in Ids, NEW user \in Ids,
               Hold(r, "member", None, u, company, user), Goto(r, "get_company")
        PROVE  IInv'
    <2>1. /\ StepOf(r) /\ pc'[r] = "get_company" /\ req'[r].op = "member"
          /\ req'[r].me = u /\ req'[r].company = company /\ req'[r].user = user
          /\ req'[r].before \subseteq Committed'
          /\ pc' \in [Requests -> {"idle"} \cup Working \cup Replies]
          /\ req' \in [Requests -> Locals \cup {None}]
          /\ \A p \in Requests : pc'[p] \in Working \cup {"ok", "lost", "server_error"} =>
                 req'[p] \in Locals
      BY <1>1, <1>4, HoldStep DEF Working
    <2>2. TypeOK'
      BY <1>1, <2>1 DEF IInv, TypeOK
    <2>3. ReqOK(r)'
      BY <1>1, <1>4, <2>1 DEF ReqOK, RegisterOK, RecruiterOK, DeleteOK
    <2> QED
      BY <1>1, <2>1, <2>2, <2>3, ReadStep
  <1>5. \A u \in Bearer(token, "access") : u \in Ids /\ users[u] # None
    BY DEF Bearer, ByEmail
  <1> QED
    BY <1>2, <1>3, <1>4, <1>5 DEF Authenticate

\* delete_user finds the account.
LEMMA GetUserStep ==
    ASSUME IInv, NEW r \in Requests, NEW u \in Ids, GetUser(r, u)
    PROVE  IInv'
PROOF
  <1>1. pc[r] = "idle" /\ r \notin Committed /\ UNCHANGED <<users, companies, members, tokens>>
    BY DEF GetUser, Committed
  <1>2. CASE Refuse(r, "not_found")
    BY <1>1, <1>2, RefuseStep DEF Replies
  <1>3. CASE Hold(r, "delete", None, None, None, u) /\ Goto(r, "load_relations")
    <2>1. /\ StepOf(r) /\ pc'[r] = "load_relations" /\ req'[r].op = "delete"
          /\ req'[r].user = u /\ req'[r].before \subseteq Committed'
          /\ pc' \in [Requests -> {"idle"} \cup Working \cup Replies]
          /\ req' \in [Requests -> Locals \cup {None}]
          /\ \A p \in Requests : pc'[p] \in Working \cup {"ok", "lost", "server_error"} =>
                 req'[p] \in Locals
      BY <1>1, <1>3, HoldStep DEF Working
    <2>2. TypeOK'
      BY <1>1, <2>1 DEF IInv, TypeOK
    <2>3. ReqOK(r)'
      BY <2>1 DEF ReqOK, RegisterOK, RecruiterOK, DeleteOK
    <2> QED
      BY <1>1, <2>1, <2>2, <2>3, ReadStep
  <1> QED
    BY <1>2, <1>3 DEF GetUser

\* A handler goes on without having written.
LEMMA MoveStep ==
    ASSUME IInv, NEW r \in Requests, pc[r] \in Working \ {"reload"},
           NEW label \in Working \cup {"ok", "server_error"}, Goto(r, label),
           req' \in [Requests -> Locals \cup {None}],
           \A p \in Requests \ {r} : req'[p] = req[p], req'[r] \in Locals
    PROVE  /\ StepOf(r) /\ pc'[r] = label /\ r \in Requests /\ r \notin Committed
           /\ pc' \in [Requests -> {"idle"} \cup Working \cup Replies]
           /\ \A p \in Requests : pc'[p] \in Working \cup {"ok", "lost", "server_error"} =>
                  req'[p] \in Locals
           /\ Committed \subseteq Committed'
           /\ req[r].before \subseteq Committed'
           /\ \A u : DeletedBehind(u, r) /\ req'[r] = req[r] => DeletedBehind(u, r)'
           /\ \A c, u : AddedBehind(c, u, r) /\ req'[r] = req[r] => AddedBehind(c, u, r)'
           /\ \A e : RegisteredBehind(e, r) /\ req'[r] = req[r] => RegisteredBehind(e, r)'
           /\ Raced(r) /\ req'[r] = req[r] => Raced(r)'
PROOF
  <1>1. r \notin Committed
    BY DEF Committed, Working
  <1>2. pc' = [pc EXCEPT ![r] = label] /\ pc \in [Requests -> {"idle"} \cup Working \cup Replies]
    BY DEF Goto, IInv, TypeOK
  <1>3. pc'[r] = label /\ pc' \in [Requests -> {"idle"} \cup Working \cup Replies]
        /\ \A p \in Requests \ {r} : pc'[p] = pc[p]
    BY <1>2 DEF Replies
  <1>4. StepOf(r)
    BY <1>1, <1>2, <1>3 DEF StepOf
  <1>5. \A q \in Committed : q \in Committed' /\ req'[q] = req[q]
    BY <1>4 DEF StepOf, Committed
  <1>6. req[r].before \subseteq Committed'
    BY <1>5 DEF IInv, ReqOK
  <1>7. \A p \in Requests : pc'[p] \in Working \cup {"ok", "lost", "server_error"} =>
           req'[p] \in Locals
    BY <1>3 DEF IInv, TypeOK
  <1>8. req'[r] = req[r] => \A q \in Requests : Overtook(q, r) => Overtook(q, r)' /\ req'[q] = req[q]
    BY <1>5 DEF Overtook
  <1>9. /\ \A u : DeletedBehind(u, r) /\ req'[r] = req[r] => DeletedBehind(u, r)'
        /\ \A c, u : AddedBehind(c, u, r) /\ req'[r] = req[r] => AddedBehind(c, u, r)'
        /\ \A e : RegisteredBehind(e, r) /\ req'[r] = req[r] => RegisteredBehind(e, r)'
        /\ Raced(r) /\ req'[r] = req[r] => Raced(r)'
    BY <1>8 DEF DeletedBehind, AddedBehind, RegisteredBehind, Raced
  <1> QED
    BY <1>1, <1>3, <1>4, <1>5, <1>6, <1>7, <1>9

\* The company is the recruiter's own, unless somebody deletes both.
LEMMA GetCompanyStep ==
    ASSUME IInv, NEW r \in Requests, GetCompany(r)
    PROVE  IInv'
PROOF
  <1>1. pc[r] = "get_company" /\ r \notin Committed
        /\ UNCHANGED <<users, companies, members, tokens>>
    BY DEF GetCompany, Committed
  <1>2. ASSUME NEW reply \in {"not_found", "forbidden", "conflict"}, Refuse(r, reply)
        PROVE  IInv'
    BY <1>1, <1>2, RefuseStep DEF Replies
  <1>3. CASE companies[req[r].company] = req[r].me /\ Goto(r, "get_recruiter") /\ UNCHANGED req
    <2>1. req[r] \in Locals /\ req \in [Requests -> Locals \cup {None}]
      BY <1>1 DEF IInv, TypeOK, Working
    <2>2. /\ StepOf(r) /\ pc'[r] = "get_recruiter" /\ Committed \subseteq Committed'
          /\ pc' \in [Requests -> {"idle"} \cup Working \cup Replies]
          /\ \A p \in Requests : pc'[p] \in Working \cup {"ok", "lost", "server_error"} =>
                 req'[p] \in Locals
          /\ req[r].before \subseteq Committed'
          /\ \A u : DeletedBehind(u, r) => DeletedBehind(u, r)'
      BY <1>1, <1>3, <2>1, MoveStep DEF Working
    <2>3. TypeOK'
      BY <1>1, <1>3, <2>1, <2>2 DEF IInv, TypeOK
    <2>4. RecruiterOK(r) /\ Started(req[r].company)
      <3>1. RecruiterOK(r) /\ RowInv
        BY DEF IInv, ReqOK
      <3>2. req[r].me \in Ids /\ req[r].company \in Ids
        BY <1>1, <3>1 DEF RecruiterOK
      <3>3. req[r].me # None
        BY <3>2 DEF Ids
      <3> QED
        BY <1>3, <3>1, <3>2, <3>3 DEF RowInv
    <2>5. ReqOK(r)'
      BY <1>1, <1>3, <2>2, <2>4 DEF ReqOK, RegisterOK, RecruiterOK, DeleteOK, Started
    <2> QED
      BY <1>1, <2>2, <2>3, <2>5, ReadStep
  <1> QED
    BY <1>2, <1>3 DEF GetCompany

\* Who is to be added is there.
LEMMA GetRecruiterStep ==
    ASSUME IInv, NEW r \in Requests, GetRecruiter(r)
    PROVE  IInv'
PROOF
  <1>1. pc[r] = "get_recruiter" /\ r \notin Committed
        /\ UNCHANGED <<users, companies, members, tokens>>
    BY DEF GetRecruiter, Committed
  <1>2. CASE Refuse(r, "bad_request")
    BY <1>1, <1>2, RefuseStep DEF Replies
  <1>3. CASE users[req[r].user] # None /\ Goto(r, "is_member") /\ UNCHANGED req
    <2>1. req[r] \in Locals /\ req \in [Requests -> Locals \cup {None}]
      BY <1>1 DEF IInv, TypeOK, Working
    <2>2. /\ StepOf(r) /\ pc'[r] = "is_member" /\ Committed \subseteq Committed'
          /\ pc' \in [Requests -> {"idle"} \cup Working \cup Replies]
          /\ \A p \in Requests : pc'[p] \in Working \cup {"ok", "lost", "server_error"} =>
                 req'[p] \in Locals
          /\ req[r].before \subseteq Committed'
          /\ \A u : DeletedBehind(u, r) => DeletedBehind(u, r)'
      BY <1>1, <1>3, <2>1, MoveStep DEF Working
    <2>3. TypeOK'
      BY <1>1, <1>3, <2>1, <2>2 DEF IInv, TypeOK
    <2>4. RecruiterOK(r)
      BY DEF IInv, ReqOK
    <2>5. ReqOK(r)'
      BY <1>1, <1>3, <2>2, <2>4 DEF ReqOK, RegisterOK, RecruiterOK, DeleteOK, Started
    <2> QED
      BY <1>1, <2>2, <2>3, <2>5, ReadStep
  <1> QED
    BY <1>2, <1>3 DEF GetRecruiter

\* Who is to be added is no member yet.
LEMMA IsMemberStep ==
    ASSUME IInv, NEW r \in Requests, IsMember(r)
    PROVE  IInv'
PROOF
  <1>1. pc[r] = "is_member" /\ r \notin Committed
        /\ UNCHANGED <<users, companies, members, tokens>>
    BY DEF IsMember, Committed
  <1>2. CASE Refuse(r, "conflict")
    BY <1>1, <1>2, RefuseStep DEF Replies
  <1>3. CASE /\ <<req[r].company, req[r].user>> \notin members
             /\ Goto(r, "add_recruiter") /\ UNCHANGED req
    <2>1. req[r] \in Locals /\ req \in [Requests -> Locals \cup {None}]
      BY <1>1 DEF IInv, TypeOK, Working
    <2>2. /\ StepOf(r) /\ pc'[r] = "add_recruiter" /\ Committed \subseteq Committed'
          /\ pc' \in [Requests -> {"idle"} \cup Working \cup Replies]
          /\ \A p \in Requests : pc'[p] \in Working \cup {"ok", "lost", "server_error"} =>
                 req'[p] \in Locals
          /\ req[r].before \subseteq Committed'
          /\ \A u : DeletedBehind(u, r) => DeletedBehind(u, r)'
      BY <1>1, <1>3, <2>1, MoveStep DEF Working
    <2>3. TypeOK'
      BY <1>1, <1>3, <2>1, <2>2 DEF IInv, TypeOK
    <2>4. RecruiterOK(r)
      BY DEF IInv, ReqOK
    <2>5. ReqOK(r)'
      BY <1>1, <1>3, <2>2, <2>4 DEF ReqOK, RegisterOK, RecruiterOK, DeleteOK, Started
    <2> QED
      BY <1>1, <2>2, <2>3, <2>5, ReadStep
  <1> QED
    BY <1>2, <1>3 DEF IsMember, AlreadyMember

\* Whom delete_user is about to delete has neither company nor membership now.
LEMMA LoadRelationsStep ==
    ASSUME IInv, NEW r \in Requests, LoadRelations(r)
    PROVE  IInv'
PROOF
  <1>1. pc[r] = "load_relations" /\ r \notin Committed
        /\ UNCHANGED <<users, companies, members, tokens>>
    BY DEF LoadRelations, Committed
  <1>2. CASE Refuse(r, "raised")
    BY <1>1, <1>2, RefuseStep DEF Replies
  <1>3. CASE /\ ~HasRelations(req[r].user) /\ req' = [req EXCEPT ![r].before = Committed]
             /\ Goto(r, "delete_row")
    <2>1. req[r] \in Locals /\ req \in [Requests -> Locals \cup {None}]
      BY <1>1 DEF IInv, TypeOK, Working
    <2>2. /\ req' \in [Requests -> Locals \cup {None}] /\ req'[r] \in Locals
          /\ \A p \in Requests \ {r} : req'[p] = req[p]
          /\ req'[r].op = req[r].op /\ req'[r].user = req[r].user /\ req'[r].before = Committed
      BY <1>3, <2>1 DEF Locals, Committed
    <2>3. /\ StepOf(r) /\ pc'[r] = "delete_row" /\ Committed \subseteq Committed'
          /\ pc' \in [Requests -> {"idle"} \cup Working \cup Replies]
          /\ \A p \in Requests : pc'[p] \in Working \cup {"ok", "lost", "server_error"} =>
                 req'[p] \in Locals
      BY <1>1, <1>3, <2>2, MoveStep DEF Working
    <2>4. TypeOK'
      BY <1>1, <2>2, <2>3 DEF IInv, TypeOK
    <2>5. req[r].op = "delete" /\ req[r].user \in Ids
      BY <1>1 DEF IInv, ReqOK, DeleteOK
    <2>6. \A c \in Ids : companies[c] # req[r].user /\ <<c, req[r].user>> \notin members
      BY <1>3 DEF HasRelations
    <2>7. DeleteOK(r)'
      BY <1>1, <2>2, <2>3, <2>5, <2>6 DEF DeleteOK
    <2>8. ReqOK(r)'
      BY <2>2, <2>3, <2>7 DEF ReqOK, RegisterOK, RecruiterOK
    <2> QED
      BY <1>1, <2>3, <2>4, <2>8, ReadStep
  <1> QED
    BY <1>2, <1>3 DEF LoadRelations

\* The row is reloaded, or it is not there any more.
LEMMA ReloadStep ==
    ASSUME IInv, NEW r \in Requests, Reload(r)
    PROVE  IInv'
PROOF
  <1>1. pc[r] = "reload" /\ UNCHANGED <<users, companies, members, tokens, req>>
    BY DEF Reload
  <1>2. PICK reply \in {"ok", "lost"} : pc' = [pc EXCEPT ![r] = reply]
    BY DEF Reload, Goto
  <1>3. pc'[r] = reply /\ pc' \in [Requests -> {"idle"} \cup Working \cup Replies]
        /\ \A p \in Requests \ {r} : pc'[p] = pc[p]
    BY <1>2 DEF IInv, TypeOK, Replies
  <1>4. StepOf(r)
    BY <1>1, <1>3 DEF StepOf, Committed, IInv, TypeOK
  <1>5. TypeOK'
    BY <1>1, <1>3 DEF IInv, TypeOK, Working
  <1>6. ReqOK(r)'
    BY <1>3 DEF ReqOK, RegisterOK, RecruiterOK, DeleteOK, Working
  <1> QED
    BY <1>1, <1>4, <1>5, <1>6, ReadStep

\* A handler at its last statement is there, has its variables, and is not done.
LEMMA WriterOK ==
    ASSUME IInv, NEW r \in Requests,
           pc[r] \in {"create_user", "create_company", "add_recruiter", "delete_row"}
    PROVE  /\ pc[r] \in Working \ {"reload"} /\ r \in Ids /\ r \notin Committed
           /\ req[r] \in Locals /\ req \in [Requests -> Locals \cup {None}]
           /\ RegisterOK(r) /\ RecruiterOK(r) /\ DeleteOK(r)
PROOF
  BY DEF IInv, TypeOK, ReqOK, Working, Committed, Ids

\* A handler whose statement fails in the database was overtaken.
LEMMA FailStep ==
    ASSUME IInv, NEW r \in Requests, pc[r] \in {"create_user", "create_company", "add_recruiter"},
           Raced(r), Goto(r, "server_error"),
           UNCHANGED <<users, companies, members, tokens, req>>
    PROVE  IInv'
PROOF
  <1>1. /\ pc[r] \in Working \ {"reload"} /\ req[r] \in Locals
        /\ req \in [Requests -> Locals \cup {None}]
    BY WriterOK
  <1>2. /\ StepOf(r) /\ pc'[r] = "server_error" /\ Raced(r)'
        /\ pc' \in [Requests -> {"idle"} \cup Working \cup Replies]
        /\ \A p \in Requests : pc'[p] \in Working \cup {"ok", "lost", "server_error"} =>
               req'[p] \in Locals
    BY <1>1, MoveStep
  <1>3. TypeOK'
    BY <1>1, <1>2 DEF IInv, TypeOK
  <1>4. ReqOK(r)'
    BY <1>2 DEF ReqOK, RegisterOK, RecruiterOK, DeleteOK, Working
  <1> QED
    BY <1>2, <1>3, <1>4, ReadStep

\* A handler that commits overtakes the others and relies on nothing any more.
LEMMA CommitStep ==
    ASSUME IInv, NEW r \in Requests,
           pc[r] \in {"create_user", "create_company", "add_recruiter", "delete_row"},
           NEW label \in {"reload", "ok"}, Goto(r, label), UNCHANGED req
    PROVE  /\ StepOf(r) /\ Committed' = Committed \cup {r}
           /\ pc' \in [Requests -> {"idle"} \cup Working \cup Replies]
           /\ \A p \in Requests : pc'[p] \in Working \cup {"ok", "lost", "server_error"} =>
                  req'[p] \in Locals
           /\ ReqOK(r)'
           /\ \A p \in Requests \ {r} : pc[p] \in Working => Overtook(r, p)'
           /\ \A p \in Requests \ {r} :
                 /\ pc'[p] = pc[p] /\ req'[p] = req[p] /\ ReqOK(p)
                 /\ \A q \in Requests : Overtook(q, p) => Overtook(q, p)'
                 /\ \A u : DeletedBehind(u, p) => DeletedBehind(u, p)'
                 /\ \A c, u : AddedBehind(c, u, p) => AddedBehind(c, u, p)'
                 /\ \A e : RegisteredBehind(e, p) => RegisteredBehind(e, p)'
                 /\ pc'[p] \in Working => req'[p].before \subseteq Committed'
                 /\ pc'[p] = "server_error" => Raced(p)'
PROOF
  <1>1. /\ pc[r] \in Working \ {"reload"} /\ r \notin Committed /\ req[r] \in Locals
        /\ req \in [Requests -> Locals \cup {None}]
    BY WriterOK
  <1>2. label \in Working \cup {"ok", "server_error"}
    BY DEF Working
  <1>3. /\ StepOf(r) /\ pc'[r] = label /\ req[r].before \subseteq Committed'
        /\ pc' \in [Requests -> {"idle"} \cup Working \cup Replies]
        /\ \A p \in Requests : pc'[p] \in Working \cup {"ok", "lost", "server_error"} =>
               req'[p] \in Locals
    BY <1>1, <1>2, MoveStep
  <1>4. Committed' = Committed \cup {r}
    BY <1>3 DEF StepOf, Committed
  <1>5. ReqOK(r)'
    BY <1>3 DEF ReqOK, RegisterOK, RecruiterOK, DeleteOK
  <1>6. \A p \in Requests \ {r} : pc[p] \in Working => Overtook(r, p)'
    BY <1>1, <1>3, <1>4, Overtaking
  <1>7. \A p \in Requests \ {r} : pc'[p] = pc[p] /\ req'[p] = req[p] /\ ReqOK(p)
    BY <1>3 DEF StepOf, IInv
  <1>8. \A p \in Requests \ {r} :
           /\ \A q \in Requests : Overtook(q, p) => Overtook(q, p)'
           /\ \A u : DeletedBehind(u, p) => DeletedBehind(u, p)'
           /\ \A c, u : AddedBehind(c, u, p) => AddedBehind(c, u, p)'
           /\ \A e : RegisteredBehind(e, p) => RegisteredBehind(e, p)'
           /\ Raced(p) => Raced(p)'
    BY <1>3, Overtaken
  <1>9. \A p \in Requests \ {r} :
           /\ pc'[p] \in Working => req'[p].before \subseteq Committed'
           /\ pc'[p] = "server_error" => Raced(p)'
    BY <1>4, <1>7, <1>8 DEF ReqOK
  <1> QED
    BY <1>3, <1>4, <1>5, <1>6, <1>7, <1>8, <1>9

\* The new account is the only one with its email, or the INSERT fails.
LEMMA CreateUserStep ==
    ASSUME IInv, NEW r \in Requests, CreateUser(r)
    PROVE  IInv'
PROOF
  <1>1. /\ pc[r] = "create_user" /\ r \in Ids /\ r \notin Committed /\ RegisterOK(r)
        /\ UNCHANGED <<companies, members, tokens, req>>
        /\ req \in [Requests -> Locals \cup {None}]
    BY WriterOK DEF CreateUser
  <1>2. req[r].op = "register" /\ req[r].email \in Spellings
    BY <1>1 DEF RegisterOK
  <1>3. PICK row \in Users : row = NewUser(req[r].email)
    BY <1>2 DEF NewUser, Users, Roles
  <1>4. /\ row.email = Normalized[req[r].email] /\ row # None
        /\ Normalized[row.email] = row.email
    BY <1>2, <1>3 DEF NewUser
  <1>5. CASE Taken(row.email) /\ Goto(r, "server_error") /\ UNCHANGED users
    <2>1. RegisteredBehind(row.email, r)
      BY <1>1, <1>2, <1>4, <1>5 DEF RegisterOK, Taken
    <2>2. Raced(r)
      BY <1>2, <1>4, <2>1 DEF RegisteredBehind, Raced
    <2> QED
      BY <1>1, <1>5, <2>2, FailStep
  <1>6. CASE ~Taken(row.email) /\ users' = [users EXCEPT ![r] = row] /\ Goto(r, "reload")
    <2>1. /\ StepOf(r) /\ Committed' = Committed \cup {r} /\ ReqOK(r)'
          /\ pc' \in [Requests -> {"idle"} \cup Working \cup Replies]
          /\ \A p \in Requests : pc'[p] \in Working \cup {"ok", "lost", "server_error"} =>
                 req'[p] \in Locals
      BY <1>1, <1>6, CommitStep
    <2>2. users \in [Ids -> Users \cup {None}] /\ users' \in [Ids -> Users \cup {None}]
          /\ users'[r] = row /\ \A u \in Ids \ {r} : users'[u] = users[u]
      BY <1>1, <1>2, <1>4, <1>6 DEF IInv, TypeOK
    <2>3. TypeOK'
      BY <1>1, <2>1, <2>2 DEF IInv, TypeOK
    <2>4. EmailInv'
      BY <1>1, <1>2, <1>4, <2>1, <2>2 DEF IInv, EmailInv
    <2>5. OneAccountPerEmail'
      <3>1. \A u \in Ids \ {r} : users'[u] # None => users'[u].email # row.email
        BY <1>6, <2>2 DEF Taken
      <3>2. \A u \in Ids : users'[u] # None => Normalized[users'[u].email] = users'[u].email
        BY <2>4 DEF EmailInv
      <3>3. \A u, v \in Ids \ {r} :
               users[u] # None /\ users[v] # None
               /\ Normalized[users[u].email] = Normalized[users[v].email] => u = v
        BY DEF IInv, OneAccountPerEmail
      <3> QED
        BY <2>2, <3>1, <3>2, <3>3 DEF OneAccountPerEmail
    <2>6. TokenInv'
      <3>1. \A t \in Ids : tokens[t] # None => tokens[t].to \in Ids /\ tokens[t].to # r
        BY <1>1 DEF IInv, TypeOK, TokenInv, Started, Tokens
      <3> QED
        BY <1>1, <2>1, <2>2, <3>1 DEF IInv, TokenInv, Started
    <2>7. RowInv'
      BY <1>1, <2>1 DEF IInv, RowInv, Started
    <2>8. ASSUME NEW p \in Requests \ {r} PROVE ReqOK(p)'
      <3>1. /\ pc'[p] = pc[p] /\ req'[p] = req[p] /\ ReqOK(p)
            /\ pc[p] \in Working => Overtook(r, p)'
            /\ \A q \in Requests : Overtook(q, p) => Overtook(q, p)'
            /\ \A u : DeletedBehind(u, p) => DeletedBehind(u, p)'
            /\ \A c, u : AddedBehind(c, u, p) => AddedBehind(c, u, p)'
            /\ \A e : RegisteredBehind(e, p) => RegisteredBehind(e, p)'
            /\ pc'[p] \in Working => req'[p].before \subseteq Committed'
            /\ pc'[p] = "server_error" => Raced(p)'
        BY <1>1, <1>6, CommitStep
      <3>2. RegisterOK(p)'
        <4>1. ASSUME pc[p] = "create_user"
              PROVE  RegisteredBehind(row.email, p)'
          BY <1>1, <1>2, <1>4, <3>1, <4>1 DEF RegisteredBehind, Working
        <4> QED
          BY <1>2, <1>4, <2>2, <3>1, <4>1 DEF ReqOK, RegisterOK
      <3>3. RecruiterOK(p)'
        <4>1. RecruiterOK(p) /\ \A u \in Ids : users'[u] = None => users[u] = None
          BY <1>2, <1>4, <2>2, <3>1 DEF ReqOK
        <4> QED
          BY <1>1, <2>1, <3>1, <4>1 DEF RecruiterOK, Started
      <3>4. DeleteOK(p)'
        BY <1>1, <3>1 DEF ReqOK, DeleteOK
      <3> QED
        BY <3>1, <3>2, <3>3, <3>4 DEF ReqOK
    <2> QED
      BY <2>1, <2>3, <2>4, <2>5, <2>6, <2>7, <2>8 DEF IInv
  <1> QED
    BY <1>5, <1>6, <1>3 DEF CreateUser

\* The new company is its recruiter's, or the INSERT fails.
LEMMA CreateCompanyStep ==
    ASSUME IInv, NEW r \in Requests, CreateCompany(r)
    PROVE  IInv'
PROOF
  <1>1. /\ pc[r] = "create_company" /\ r \in Ids /\ r \notin Committed /\ RecruiterOK(r)
        /\ UNCHANGED <<users, members, tokens, req>>
        /\ req \in [Requests -> Locals \cup {None}]
    BY WriterOK DEF CreateCompany
  <1>2. /\ req[r].op = "company" /\ req[r].me \in Ids
        /\ users[req[r].me] = None => DeletedBehind(req[r].me, r)
    BY <1>1 DEF RecruiterOK
  <1>3. CASE users[req[r].me] = None /\ Goto(r, "server_error") /\ UNCHANGED companies
    <2>1. Raced(r)
      BY <1>2, <1>3 DEF DeletedBehind, Raced
    <2> QED
      BY <1>1, <1>3, <2>1, FailStep
  <1>4. CASE companies' = [companies EXCEPT ![r] = req[r].me] /\ Goto(r, "reload")
    <2>1. /\ StepOf(r) /\ Committed' = Committed \cup {r} /\ ReqOK(r)'
          /\ pc' \in [Requests -> {"idle"} \cup Working \cup Replies]
          /\ \A p \in Requests : pc'[p] \in Working \cup {"ok", "lost", "server_error"} =>
                 req'[p] \in Locals
      BY <1>1, <1>4, CommitStep
    <2>2. companies' \in [Ids -> Ids \cup {None}] /\ companies'[r] = req[r].me
          /\ req[r].me # None /\ \A c \in Ids \ {r} : companies'[c] = companies[c]
      BY <1>1, <1>2, <1>4 DEF IInv, TypeOK, Ids
    <2>3. TypeOK'
      BY <1>1, <2>1, <2>2 DEF IInv, TypeOK
    <2>4. EmailInv' /\ OneAccountPerEmail' /\ TokenInv'
      BY <1>1, <2>1 DEF IInv, EmailInv, OneAccountPerEmail, TokenInv, Started
    <2>5. RowInv'
      BY <1>1, <2>1, <2>2 DEF IInv, RowInv, Started
    <2>6. ASSUME NEW p \in Requests \ {r} PROVE ReqOK(p)'
      <3>1. /\ pc'[p] = pc[p] /\ req'[p] = req[p] /\ ReqOK(p)
            /\ pc[p] \in Working => Overtook(r, p)'
            /\ \A q \in Requests : Overtook(q, p) => Overtook(q, p)'
            /\ \A u : DeletedBehind(u, p) => DeletedBehind(u, p)'
            /\ \A c, u : AddedBehind(c, u, p) => AddedBehind(c, u, p)'
            /\ \A e : RegisteredBehind(e, p) => RegisteredBehind(e, p)'
            /\ pc'[p] \in Working => req'[p].before \subseteq Committed'
            /\ pc'[p] = "server_error" => Raced(p)'
        BY <1>1, <1>4, CommitStep
      <3>2. RegisterOK(p)'
        BY <1>1, <3>1 DEF ReqOK, RegisterOK
      <3>3. RecruiterOK(p)'
        <4>1. RecruiterOK(p)
          BY <3>1 DEF ReqOK
        <4>2. pc[p] \in {"get_recruiter", "is_member", "add_recruiter"} =>
                 companies'[req[p].company] = companies[req[p].company]
          BY <1>1, <2>2, <4>1 DEF RecruiterOK, Started
        <4> QED
          BY <1>1, <2>1, <3>1, <4>1, <4>2 DEF RecruiterOK, Started
      <3>4. DeleteOK(p)'
        <4>1. DeleteOK(p)
          BY <3>1 DEF ReqOK
        <4>2. \A c, u \in Ids : <<c, u>> \in members => c # r
          BY <1>1 DEF IInv, RowInv, Started
        <4>3. pc[p] = "delete_row" => Overtook(r, p)'
          BY <3>1 DEF Working
        <4> QED
          BY <1>1, <2>2, <3>1, <4>1, <4>2, <4>3 DEF DeleteOK
      <3> QED
        BY <3>1, <3>2, <3>3, <3>4 DEF ReqOK
    <2> QED
      BY <2>1, <2>3, <2>4, <2>5, <2>6 DEF IInv
  <1> QED
    BY <1>3, <1>4 DEF CreateCompany

\* The new membership is of a company and an account that are there, or the INSERT
\* fails.
LEMMA AddRecruiterStep ==
    ASSUME IInv, NEW r \in Requests, AddRecruiter(r)
    PROVE  IInv'
PROOF
  <1> DEFINE me == req[r].me
             company == req[r].company
             user == req[r].user
             fits == /\ companies[company] # None /\ users[user] # None
                     /\ <<company, user>> \notin members
  <1>1. /\ pc[r] = "add_recruiter" /\ r \in Ids /\ r \notin Committed /\ RecruiterOK(r)
        /\ UNCHANGED <<users, companies, tokens, req>>
        /\ req \in [Requests -> Locals \cup {None}]
    BY WriterOK DEF AddRecruiter
  <1>2. /\ req[r].op = "member" /\ me \in Ids /\ company \in Ids /\ user \in Ids
        /\ companies[company] # me => DeletedBehind(me, r)
        /\ users[user] = None => DeletedBehind(user, r)
        /\ <<company, user>> \in members => AddedBehind(company, user, r)
    BY <1>1 DEF RecruiterOK
  <1>3. CASE ~fits /\ Goto(r, "server_error") /\ UNCHANGED members
    <2>1. CASE companies[company] = None
      <3>1. DeletedBehind(me, r)
        BY <1>2, <2>1 DEF Ids
      <3> QED
        BY <1>1, <1>3, <3>1, FailStep DEF DeletedBehind, Raced
    <2>2. CASE users[user] = None
      BY <1>1, <1>2, <1>3, <2>2, FailStep DEF DeletedBehind, Raced
    <2>3. CASE <<company, user>> \in members
      BY <1>1, <1>2, <1>3, <2>3, FailStep DEF AddedBehind, Raced
    <2> QED
      BY <1>3, <2>1, <2>2, <2>3
  <1>4. CASE fits /\ members' = members \cup {<<company, user>>} /\ Goto(r, "reload")
    <2>1. /\ StepOf(r) /\ Committed' = Committed \cup {r} /\ ReqOK(r)'
          /\ pc' \in [Requests -> {"idle"} \cup Working \cup Replies]
          /\ \A p \in Requests : pc'[p] \in Working \cup {"ok", "lost", "server_error"} =>
                 req'[p] \in Locals
      BY <1>1, <1>4, CommitStep
    <2>2. TypeOK'
      BY <1>1, <1>2, <1>4, <2>1 DEF IInv, TypeOK
    <2>3. EmailInv' /\ OneAccountPerEmail' /\ TokenInv'
      BY <1>1, <2>1 DEF IInv, EmailInv, OneAccountPerEmail, TokenInv, Started
    <2>4. RowInv'
      BY <1>1, <1>4, <2>1 DEF IInv, RowInv, Started
    <2>5. ASSUME NEW p \in Requests \ {r} PROVE ReqOK(p)'
      <3>1. /\ pc'[p] = pc[p] /\ req'[p] = req[p] /\ ReqOK(p)
            /\ pc[p] \in Working => Overtook(r, p)'
            /\ \A q \in Requests : Overtook(q, p) => Overtook(q, p)'
            /\ \A u : DeletedBehind(u, p) => DeletedBehind(u, p)'
            /\ \A c, u : AddedBehind(c, u, p) => AddedBehind(c, u, p)'
            /\ \A e : RegisteredBehind(e, p) => RegisteredBehind(e, p)'
            /\ pc'[p] \in Working => req'[p].before \subseteq Committed'
            /\ pc'[p] = "server_error" => Raced(p)'
        BY <1>1, <1>4, CommitStep
      <3>2. RegisterOK(p)'
        BY <1>1, <3>1 DEF ReqOK, RegisterOK
      <3>3. ASSUME NEW c \in Ids, NEW u \in Ids, <<c, u>> \in members' \ members,
                   pc[p] \in Working
            PROVE  AddedBehind(c, u, p)'
        <4>1. c = company /\ u = user /\ Overtook(r, p)'
          BY <1>4, <3>1, <3>3
        <4> QED
          BY <1>1, <1>2, <4>1 DEF AddedBehind
      <3>4. RecruiterOK(p)'
        <4>1. RecruiterOK(p)
          BY <3>1 DEF ReqOK
        <4>2. /\ pc[p] = "add_recruiter" => pc[p] \in Working
              /\ pc[p] = "add_recruiter" => req[p].company \in Ids /\ req[p].user \in Ids
          BY <4>1 DEF RecruiterOK, Working
        <4> QED
          BY <1>1, <2>1, <3>1, <3>3, <4>1, <4>2 DEF RecruiterOK, Started
      <3>5. DeleteOK(p)'
        <4>1. DeleteOK(p) /\ (pc[p] = "delete_row" => pc[p] \in Working)
          BY <3>1 DEF ReqOK, Working
        <4> QED
          BY <1>1, <3>1, <3>3, <4>1 DEF DeleteOK
      <3> QED
        BY <3>1, <3>2, <3>4, <3>5 DEF ReqOK
    <2> QED
      BY <2>1, <2>2, <2>3, <2>4, <2>5 DEF IInv
  <1> QED
    BY <1>3, <1>4 DEF AddRecruiter

\* The deletion takes with it what hangs on the account.
LEMMA DeleteRowStep ==
    ASSUME IInv, NEW r \in Requests, DeleteRow(r)
    PROVE  IInv'
PROOF
  <1>1. /\ pc[r] = "delete_row" /\ r \in Ids /\ r \notin Committed /\ DeleteOK(r)
        /\ Goto(r, "ok") /\ UNCHANGED <<tokens, req>>
        /\ req \in [Requests -> Locals \cup {None}]
    BY WriterOK DEF DeleteRow
  <1>2. req[r].op = "delete" /\ req[r].user \in Ids
    BY <1>1 DEF DeleteOK
  <1>3. PICK u \in Ids : u = req[r].user
    BY <1>2
  <1>4. /\ users' = [users EXCEPT ![u] = None]
        /\ companies' = [c \in Ids |-> IF companies[c] = u THEN None ELSE companies[c]]
        /\ members' = {m \in members : m[2] # u /\ companies[m[1]] # u}
    BY <1>3 DEF DeleteRow
  <1>5. /\ StepOf(r) /\ Committed' = Committed \cup {r} /\ ReqOK(r)'
        /\ pc' \in [Requests -> {"idle"} \cup Working \cup Replies]
        /\ \A p \in Requests : pc'[p] \in Working \cup {"ok", "lost", "server_error"} =>
               req'[p] \in Locals
    BY <1>1, CommitStep
  <1>6. /\ users' \in [Ids -> Users \cup {None}] /\ users'[u] = None
        /\ \A v \in Ids \ {u} : users'[v] = users[v]
        /\ \A v \in Ids : users'[v] # None => users'[v] = users[v]
    BY <1>4 DEF IInv, TypeOK
  <1>7. /\ companies' \in [Ids -> Ids \cup {None}] /\ members' \subseteq members
        /\ \A c \in Ids : companies'[c] # None => companies'[c] = companies[c]
        /\ \A c \in Ids : companies[c] # u => companies'[c] = companies[c]
    BY <1>4 DEF IInv, TypeOK
  <1>8. TypeOK'
    BY <1>1, <1>5, <1>6, <1>7 DEF IInv, TypeOK
  <1>9. EmailInv' /\ OneAccountPerEmail'
    BY <1>1, <1>5, <1>6 DEF IInv, EmailInv, OneAccountPerEmail
  <1>10. TokenInv'
    <2>1. \A t \in Ids : tokens[t] # None => tokens[t].to \in Ids
      BY DEF IInv, TypeOK, Tokens
    <2> QED
      BY <1>1, <1>5, <1>6, <2>1 DEF IInv, TokenInv, Started
  <1>11. RowInv'
    <2>1. \A c, v \in Ids : <<c, v>> \in members' => companies[c] # u
      BY <1>4
    <2> QED
      BY <1>5, <1>7, <2>1 DEF IInv, RowInv, Started
  <1>12. ASSUME NEW p \in Requests \ {r} PROVE ReqOK(p)'
    <2>1. /\ pc'[p] = pc[p] /\ req'[p] = req[p] /\ ReqOK(p)
          /\ pc[p] \in Working => Overtook(r, p)'
          /\ \A q \in Requests : Overtook(q, p) => Overtook(q, p)'
          /\ \A v : DeletedBehind(v, p) => DeletedBehind(v, p)'
          /\ \A c, v : AddedBehind(c, v, p) => AddedBehind(c, v, p)'
          /\ \A e : RegisteredBehind(e, p) => RegisteredBehind(e, p)'
          /\ pc'[p] \in Working => req'[p].before \subseteq Committed'
          /\ pc'[p] = "server_error" => Raced(p)'
      BY <1>1, CommitStep
    <2>2. pc[p] \in Working => DeletedBehind(u, p)'
      BY <1>1, <1>2, <1>3, <2>1 DEF DeletedBehind
    <2>3. RegisterOK(p)'
      BY <1>6, <2>1 DEF ReqOK, RegisterOK
    <2>4. RecruiterOK(p)'
      <3>1. RecruiterOK(p)
        BY <2>1 DEF ReqOK
      <3>2. pc[p] \in {"create_company", "get_company", "get_recruiter", "is_member",
                       "add_recruiter"} => DeletedBehind(u, p)'
        BY <2>2 DEF Working
      <3>3. \A v \in Ids : users'[v] = None => users[v] = None \/ v = u
        BY <1>6
      <3>4. \A c, v \in Ids : companies'[c] # v /\ companies[c] = v =>
               v = u /\ companies'[c] = None
        BY <1>4
      <3>5. \A c \in Ids : companies[c] = None => companies'[c] = None
        BY <1>4
      <3> QED
        BY <1>5, <1>7, <2>1, <3>1, <3>2, <3>3, <3>4, <3>5 DEF RecruiterOK, Started
    <2>5. DeleteOK(p)'
      <3>1. DeleteOK(p)
        BY <2>1 DEF ReqOK
      <3>2. \A c, v \in Ids : companies'[c] = v => companies[c] = v
        BY <1>7 DEF Ids
      <3> QED
        BY <1>7, <2>1, <3>1, <3>2 DEF DeleteOK
    <2> QED
      BY <2>1, <2>3, <2>4, <2>5 DEF ReqOK
  <1> QED
    BY <1>5, <1>8, <1>9, <1>10, <1>11, <1>12 DEF IInv

-----------------------------------------------------------------------------
\* A stuttering step changes nothing.
LEMMA StutterStep == IInv /\ UNCHANGED vars => IInv'
PROOF
  BY DEF vars, IInv, TypeOK, EmailInv, OneAccountPerEmail, TokenInv, RowInv, ReqOK,
         RegisterOK, RecruiterOK, DeleteOK, Raced, RegisteredBehind, DeletedBehind,
         AddedBehind, Started, Overtook, Committed

\* Every step preserves the invariant.
LEMMA StepIInv == IInv /\ [Next]_vars => IInv'
PROOF
  <1> SUFFICES ASSUME IInv, Next PROVE IInv'
    BY StutterStep
  <1>1. PICK r \in Requests : Receive(r) \/ Handle(r)
    BY DEF Next
  <1>2. CASE Receive(r)
    BY <1>2, RegisterStep, SessionStep, AuthenticateStep, GetUserStep DEF Receive
  <1>3. CASE Handle(r)
    BY <1>3, CreateUserStep, CreateCompanyStep, GetCompanyStep, GetRecruiterStep,
       IsMemberStep, AddRecruiterStep, ReloadStep, LoadRelationsStep, DeleteRowStep
       DEF Handle
  <1> QED
    BY <1>1, <1>2, <1>3

-----------------------------------------------------------------------------
\* The invariant holds in every state.
THEOREM Invariant == Spec => []IInv
PROOF
  <1> QED
    BY InitIInv, StepIInv, PTL DEF Spec

\* Every variable keeps its type.
THEOREM TypeCorrect == Spec => []TypeOK
PROOF
  <1>1. IInv => TypeOK
    BY DEF IInv
  <1> QED
    BY <1>1, Invariant, PTL

\* No two accounts share an address, however it is spelt, and whatever races.
THEOREM EmailsAreUnique == Spec => []OneAccountPerEmail
PROOF
  <1>1. IInv => OneAccountPerEmail
    BY DEF IInv
  <1> QED
    BY <1>1, Invariant, PTL

\* A token speaks for another account than its own only after its own is deleted.
THEOREM TokensKeepTheirAccount == Spec => []TokenSpeaksForItsAccount
PROOF
  <1>1. IInv => TokenSpeaksForItsAccount
    <2> SUFFICES ASSUME IInv, NEW t \in Ids, tokens[t] # None, NEW u \in ByEmail(tokens[t].sub),
                        users[tokens[t].to] # None
                 PROVE  u = tokens[t].to
      BY DEF TokenSpeaksForItsAccount
    <2>1. tokens[t].to \in Ids
      BY DEF IInv, TypeOK, Tokens
    <2>2. users[tokens[t].to].email = tokens[t].sub
          /\ Normalized[tokens[t].sub] = tokens[t].sub
      BY DEF IInv, TokenInv
    <2>3. u \in Ids /\ users[u] # None /\ users[u].email = tokens[t].sub
      BY <2>2 DEF ByEmail
    <2> QED
      BY <2>1, <2>2, <2>3 DEF IInv, OneAccountPerEmail
  <1> QED
    BY <1>1, Invariant, PTL

\* Registration, a new company and a new member fail in the database only for a
\* rival that committed meanwhile.
THEOREM FailuresAreRaces == Spec => []FailsOnlyIfRaced
PROOF
  <1>1. IInv => FailsOnlyIfRaced
    BY DEF IInv, ReqOK, Raced, FailsOnlyIfRaced
  <1> QED
    BY <1>1, Invariant, PTL

\* An account takes with it only companies and memberships that were inserted after
\* delete_user had looked for them.
THEOREM DeletionsAreRaces == Spec => GoesOnlyIfRaced
PROOF
  <1>1. ASSUME IInv, NEW r \in Requests, DeleteRow(r)
        PROVE  /\ \A c \in Ids : companies[c] # None /\ companies'[c] = None =>
                     c \in Requests /\ Overtook(c, r)
               /\ \A m \in members \ members' : m \in Ids \X Ids /\ AddedBehind(m[1], m[2], r)
    <2>1. pc[r] = "delete_row" /\ DeleteOK(r)
      BY <1>1 DEF DeleteRow, IInv, ReqOK
    <2>2. /\ companies' = [c \in Ids |-> IF companies[c] = req[r].user THEN None
                                         ELSE companies[c]]
          /\ members' = {m \in members : m[2] # req[r].user /\ companies[m[1]] # req[r].user}
      BY <1>1 DEF DeleteRow
    <2>3. members \subseteq Ids \X Ids
      BY <1>1 DEF IInv, TypeOK
    <2> QED
      BY <2>1, <2>2, <2>3 DEF DeleteOK
  <1>2. ASSUME IInv, NEW r \in Requests, Receive(r) \/ Handle(r), ~DeleteRow(r)
        PROVE  /\ members \subseteq members'
               /\ \A c \in Ids : companies[c] # None => companies'[c] # None
    <2>1. ASSUME Receive(r) PROVE UNCHANGED <<companies, members>>
      BY <2>1 DEF Receive, Register, Login, RefreshTokens, Authenticate, GetUser, Rows
    <2>2. ASSUME CreateCompany(r)
          PROVE  members' = members /\ \A c \in Ids : companies[c] # None => companies'[c] # None
      <3>1. req[r].me \in Ids
        BY <1>2, <2>2 DEF IInv, ReqOK, RecruiterOK, CreateCompany
      <3>2. req[r].me # None
        BY <3>1 DEF Ids
      <3> QED
        BY <1>2, <2>2, <3>2 DEF CreateCompany, IInv, TypeOK
    <2>3. ASSUME AddRecruiter(r) PROVE members \subseteq members' /\ companies' = companies
      BY <2>3 DEF AddRecruiter
    <2>4. ASSUME Handle(r), ~CreateCompany(r), ~AddRecruiter(r)
          PROVE  UNCHANGED <<companies, members>>
      BY <1>2, <2>4 DEF Handle, CreateUser, GetCompany, GetRecruiter, IsMember, Reload,
                        LoadRelations
    <2> QED
      BY <1>2, <2>1, <2>2, <2>3, <2>4
  <1>3. IInv /\ [Next]_vars =>
          [/\ \A c \in Ids : companies[c] # None /\ companies'[c] = None =>
                \E r \in Requests : pc[r] = "delete_row" /\ c \in Requests /\ Overtook(c, r)
           /\ \A m \in members \ members' :
                \E r, q \in Requests :
                    /\ pc[r] = "delete_row" /\ Overtook(q, r)
                    /\ req[q].op = "member" /\ m = <<req[q].company, req[q].user>>]_vars
    <2> SUFFICES ASSUME IInv, Next
                 PROVE  /\ \A c \in Ids : companies[c] # None /\ companies'[c] = None =>
                            \E r \in Requests : /\ pc[r] = "delete_row" /\ c \in Requests
                                                /\ Overtook(c, r)
                        /\ \A m \in members \ members' :
                             \E r, q \in Requests :
                                /\ pc[r] = "delete_row" /\ Overtook(q, r)
                                /\ req[q].op = "member"
                                /\ m = <<req[q].company, req[q].user>>
      OBVIOUS
    <2>1. PICK r \in Requests : Receive(r) \/ Handle(r)
      BY DEF Next
    <2>2. CASE ~DeleteRow(r)
      BY <1>2, <2>1, <2>2
    <2>3. CASE DeleteRow(r)
      <3>1. pc[r] = "delete_row"
        BY <2>3 DEF DeleteRow
      <3>2. \A m \in members \ members' : \E q \in Requests :
               /\ Overtook(q, r) /\ req[q].op = "member"
               /\ m = <<req[q].company, req[q].user>>
        BY <1>1, <2>3 DEF AddedBehind
      <3> QED
        BY <1>1, <2>3, <3>1, <3>2
    <2> QED
      BY <2>2, <2>3
  <1> QED
    BY <1>3, Invariant, PTL DEF Spec, GoesOnlyIfRaced
=============================================================================
