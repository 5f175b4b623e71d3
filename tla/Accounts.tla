-------------------------------- MODULE Accounts -------------------------------
(***************************************************************************)
(* RegisterHandler and LoginHandler of internal/handlers/handlers.go, the  *)
(* users table under them, the tokens of internal/auth/auth.go and the     *)
(* middleware that admits a request with one (internal/auth/middleware.go).*)
(*                                                                         *)
(* The table is the only thing requests share: registrations race to its   *)
(* unique index.  A connection may break while a statement runs; the       *)
(* handler then fails, or the driver sends the statement again, and what   *)
(* was sent first may still run, however late.  A login is a query, the    *)
(* slow comparison of the password, and a token made of what the query     *)
(* found.  Tokens are never looked up: who holds one is admitted until it  *)
(* expires.  Nothing in the code changes a row, or makes one whose role is *)
(* not user: roles are left out.                                           *)
(***************************************************************************)
EXTENDS Naturals

CONSTANTS
    Requests,        \* HTTP requests
    Inputs,          \* [Requests -> set of what each may be]
    NoRequest,       \* what was asked by a request not sent yet
    AllowedDomains,  \* ALLOWED_EMAIL_DOMAINS, as ParseDomains normalises them
    TokenLife,       \* 12 hours
    MaxClock         \* bound on the clock

\* An address is a mailbox of a domain in some spelling: `form` tells apart what
\* lowering, trimming and parsing make the same ("User@x.org", "U <user@x.org>"),
\* "long" has more than 255 characters, and "malformed" does not parse.  A password
\* is its first 72 bytes, its length and whether it is ASCII; none has a NUL in it.
ASSUME AccountInputsAssumption ==
    /\ \A r \in Requests : \A in \in Inputs[r] :
          /\ in # NoRequest
          /\ in.op \in {"register", "login", "use"}
          /\ in.op = "use" => in.login \in Requests \cup {NoRequest}
    \* Passwords that differ only after their first 72 bytes are not shorter than that.
    /\ \A r, q \in Requests : \A in \in Inputs[r], on \in Inputs[q] :
          in.op # "use" /\ on.op # "use" /\ in.password.start = on.password.start =>
             \/ in.password = on.password
             \/ in.password.length > 72 /\ on.password.length >= 72
             \/ in.password.length >= 72 /\ on.password.length > 72
    /\ TokenLife \in Nat
    /\ MaxClock \in Nat

VARIABLES
    req,       \* what each request asks
    pc,        \* where its handler is
    resp,      \* HTTP status sent; 0 while there is none
    accounts,  \* rows of users, named by the request whose INSERT made them
    late,      \* registrations whose INSERT was given up or repeated, and may run
    failed,    \* requests of which a statement failed
    found,     \* [Requests -> the account a login found, or the claims of a token name]
    time,      \* when a token was made, when a request was admitted
    before,    \* [Requests -> the registrations that had been answered 200 when it was sent]
    clock

handling == <<req, pc, resp, found, time, before>>
vars     == <<handling, accounts, late, failed, clock>>

Init ==
    /\ req = [r \in Requests |-> NoRequest]
    /\ pc = [r \in Requests |-> "idle"]
    /\ resp = [r \in Requests |-> 0]
    /\ accounts = {}
    /\ late = {}
    /\ failed = {}
    /\ found = [r \in Requests |-> NoRequest]
    /\ time = [r \in Requests |-> 0]
    /\ before = [r \in Requests |-> {}]
    /\ clock = 0

Goto(r, stage)    == pc' = [pc EXCEPT ![r] = stage] /\ UNCHANGED resp
Answer(r, status) == pc' = [pc EXCEPT ![r] = "done"] /\ resp' = [resp EXCEPT ![r] = status]

--------------------------------------------------------------------------------
\* Registration.

\* Only the domain is looked at; what is stored is the spelling that was sent.
ValidateEmail(e)     == e.form # "malformed" /\ e.domain \in AllowedDomains
ValidatePassword(pw) == pw.length \in 8..72 /\ pw.ascii

\* bcrypt takes no notice of what follows the first 72 bytes.  It refuses to make a
\* hash of more, which ValidatePassword has refused before, but compares more with one.
HashPassword(pw) == pw.start

\* Mutant: whatever bcrypt does not call a mismatch is let through, a password too long as well.
CheckMismatch(pw, hash) == pw.length > 72 \/ HashPassword(pw) = hash

CheckPassword(pw, hash) == HashPassword(pw) = hash

\* The client has the token that the response to q holds.
HasToken(q) == pc[q] = "done" /\ req[q].op = "login" /\ resp[q] = 200

\* The client has been told that the account was made.
Registered(q) == pc[q] = "done" /\ req[q].op = "register" /\ resp[q] = 200

\* A request arrives, one that needs a token with it or without; what needs no statement is decided at once.
Ask(r) ==
    /\ pc[r] = "idle"
    /\ \E in \in Inputs[r] :
          /\ req' = [req EXCEPT ![r] = in]
          /\ CASE in.op = "register" ->
                     IF ValidateEmail(in.email) /\ ValidatePassword(in.password)
                     THEN Goto(r, "insert") ELSE Answer(r, 400)
               [] in.op = "login" -> Goto(r, "lookup")
               [] in.op = "use"   ->
                     IF in.login = NoRequest THEN Answer(r, 401)
                     ELSE HasToken(in.login) /\ Goto(r, "admit")
    /\ before' = [before EXCEPT ![r] = {q \in Requests : Registered(q)}]
    /\ UNCHANGED <<accounts, late, failed, found, time, clock>>

\* What the unique index and the column type refuse.
Refused(email) == email.form = "long" \/ \E a \in accounts : a.email = email
Row(r)         == [id |-> r, email |-> req[r].email, hash |-> HashPassword(req[r].password)]

\* Mutant: INSERT .. ON CONFLICT DO NOTHING.
InsertOrIgnore(r) ==
    /\ pc[r] = "insert"
    /\ accounts' = IF Refused(req[r].email) THEN accounts ELSE accounts \cup {Row(r)}
    /\ Answer(r, 200)
    /\ UNCHANGED <<req, late, failed, found, time, before, clock>>

\* CreateUser: one INSERT, which waits for another of the same address to end.
Insert(r) ==
    /\ pc[r] = "insert"
    /\ IF Refused(req[r].email)
       THEN Answer(r, 500) /\ UNCHANGED accounts
       ELSE Answer(r, 200) /\ accounts' = accounts \cup {Row(r)}
    /\ UNCHANGED <<req, late, failed, found, time, before, clock>>

\* The connection breaks: the driver repeats the statement, or the handler fails.
\* The statement may not have arrived, may have run, or may run later.
LoseInsert(r) ==
    /\ pc[r] = "insert"
    /\ \/ Goto(r, "insert")
       \/ Answer(r, 500)
    /\ late' \in {late, late \cup {r}}
    /\ failed' = failed \cup {r}
    /\ UNCHANGED <<req, accounts, found, time, before, clock>>

LateInsert(r) ==
    /\ r \in late
    /\ late' = late \ {r}
    /\ accounts' = IF Refused(req[r].email) THEN accounts ELSE accounts \cup {Row(r)}
    /\ UNCHANGED <<handling, failed, clock>>

--------------------------------------------------------------------------------
\* Login.

\* Mutant: WHERE email = lower($1), against rows stored as sent.
MatchesLowered(a, in) ==
    a.email = [in.email EXCEPT !.form = "plain"] /\ CheckPassword(in.password, a.hash)

\* WHERE email = $1, and the password of the row.
Matches(a, in) == a.email = in.email /\ CheckPassword(in.password, a.hash)

\* FindUserForLogin and CheckPassword.
Lookup(r) ==
    /\ pc[r] = "lookup"
    /\ \/ \E a \in accounts :
             /\ Matches(a, req[r])
             /\ found' = [found EXCEPT ![r] = a.id]
             /\ Goto(r, "token")
       \/ /\ \A a \in accounts : ~Matches(a, req[r])
          /\ Answer(r, 401)
          /\ UNCHANGED found
    /\ UNCHANGED <<req, accounts, late, failed, time, before, clock>>

\* Any error of the query is answered the way a wrong password is.
LoseLookup(r) ==
    /\ pc[r] = "lookup"
    /\ Answer(r, 401)
    /\ failed' = failed \cup {r}
    /\ UNCHANGED <<req, accounts, late, found, time, before, clock>>

\* Mutant: what is kept of the token is when it expires.
IssueExpiry(r) ==
    /\ pc[r] = "token"
    /\ time' = [time EXCEPT ![r] = clock + TokenLife]
    /\ Answer(r, 200)
    /\ UNCHANGED <<req, accounts, late, failed, found, before, clock>>

\* CreateToken.
Issue(r) ==
    /\ pc[r] = "token"
    /\ time' = [time EXCEPT ![r] = clock]
    /\ Answer(r, 200)
    /\ UNCHANGED <<req, accounts, late, failed, found, before, clock>>

--------------------------------------------------------------------------------
\* A request with the token of a login.

\* ValidateToken: the signature, the issuer and the audience are those CreateToken
\* gave it; what is left to check is that it expires later than now.
ValidateToken(q) == clock < time[q] + TokenLife

\* AuthMiddleware: the handler is called with the claims of the token.
Admit(r) ==
    /\ pc[r] = "admit"
    /\ IF ValidateToken(req[r].login)
       THEN /\ found' = [found EXCEPT ![r] = found[req[r].login]]
            /\ time' = [time EXCEPT ![r] = clock]
            /\ Goto(r, "handler")
       ELSE Answer(r, 401) /\ UNCHANGED <<found, time>>
    /\ UNCHANGED <<req, accounts, late, failed, before, clock>>

\* The handler ends, as GetClaims told it who asks.
Handle(r) ==
    /\ pc[r] = "handler"
    /\ Answer(r, 200)
    /\ UNCHANGED <<req, accounts, late, failed, found, time, before, clock>>

--------------------------------------------------------------------------------

Tick ==
    /\ clock < MaxClock
    /\ clock' = clock + 1
    /\ UNCHANGED <<handling, accounts, late, failed>>

\* Nobody waits for a response: the server waits for requests.
Quiet ==
    /\ \A r \in Requests : pc[r] \in {"idle", "done"}
    /\ UNCHANGED vars

Next ==
    \/ \E r \in Requests :
          \/ Ask(r)
          \/ Insert(r) \/ LoseInsert(r) \/ LateInsert(r)
          \/ Lookup(r) \/ LoseLookup(r) \/ Issue(r)
          \/ Admit(r) \/ Handle(r)
    \/ Tick
    \/ Quiet

Spec == Init /\ [][Next]_vars

--------------------------------------------------------------------------------
\* Properties.

Asked(r, op)    == pc[r] # "idle" /\ req[r].op = op
Answered(r, op) == pc[r] = "done" /\ req[r].op = op

\* The type invariant; only registrations make rows, and only after they asked.
TypeOK ==
    /\ req \in [Requests -> (UNION {Inputs[r] : r \in Requests}) \cup {NoRequest}]
    /\ pc \in [Requests -> {"idle", "insert", "lookup", "token", "admit", "handler", "done"}]
    /\ resp \in [Requests -> {0, 200, 400, 401, 500}]
    /\ found \in [Requests -> Requests \cup {NoRequest}]
    /\ time \in [Requests -> 0..clock]
    /\ before \in [Requests -> SUBSET Requests]
    /\ late \subseteq {r \in Requests : Asked(r, "register")}
    /\ failed \subseteq Requests
    /\ clock \in 0..MaxClock
    /\ \A a \in accounts : a.id \in Requests /\ Asked(a.id, "register") /\ a = Row(a.id)
    /\ \A r \in Requests :
          /\ pc[r] = "idle" \/ req[r] \in Inputs[r]
          /\ pc[r] = "insert" => req[r].op = "register"
          /\ pc[r] \in {"lookup", "token"} => req[r].op = "login"
          /\ pc[r] \in {"admit", "handler"} => req[r].op = "use"
          /\ resp[r] = 0 <=> pc[r] # "done"
          /\ \A q \in before[r] : Registered(q)

\* Of the registrations of an address at most one is answered 200, and then the
\* account is that one's, with its password, whatever the others, and what was
\* sent for them and given up, do before or after; a refused registration makes
\* no account, and one answered 500 without a fault lost to another (db.go:111-118).
RegistrationTruthful ==
    \A r \in Requests : Answered(r, "register") =>
        /\ resp[r] = 200 => \A a \in accounts : a.email = req[r].email <=> a = Row(r)
        /\ resp[r] = 200 => Row(r) \in accounts
        /\ resp[r] = 400 => \A a \in accounts : a.id # r
        /\ resp[r] = 500 /\ r \notin failed /\ req[r].email.form # "long" =>
              \E a \in accounts : a.email = req[r].email /\ a.id # r

\* The password an account was registered with opens it, byte by byte; and if that has
\* the full 72 bytes, so does every longer one that begins with it.
Opens(given, registered) ==
    \/ given = registered
    \/ /\ registered.length = 72 /\ given.length > 72
       /\ given.start = registered.start

\* Who was told that the registration succeeded can log in with that address and
\* that password, or one bcrypt takes for it, from then on; 401 then means that
\* the query failed (handlers.go:612-649).
RegisteredCanLogIn ==
    \A q, r \in Requests :
        /\ Answered(r, "login") /\ q \in before[r]
        /\ req[q].email = req[r].email
        /\ Opens(req[r].password, req[q].password)
        => resp[r] = 200 \/ r \in failed

\* A request is admitted as the account whose address and password the login gave,
\* in exactly the spelling it was registered with, whatever was registered since,
\* and only for as long as a token lives.  No other password is let in for it,
\* except beyond the 72 bytes that ValidatePassword allows and the login does not
\* look for (auth.go:49-99, middleware.go:13-35).
AdmittedAsRegistered ==
    \A r \in Requests : Asked(r, "use") /\ pc[r] # "admit" /\ resp[r] # 401 =>
        LET q == req[r].login
        IN  /\ \E a \in accounts :
                  /\ a.id = found[r]
                  /\ a.email = req[q].email
                  /\ Opens(req[q].password, req[a.id].password)
            /\ time[r] < time[q] + TokenLife
================================================================================
