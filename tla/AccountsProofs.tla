---------------------------- MODULE AccountsProofs -----------------------------
(***************************************************************************)
(* Theorems about Accounts, for any number of requests, whatever they ask, *)
(* and any life of tokens.                                                 *)
(*                                                                         *)
(* The argument: rows are only added, and never two of one address         *)
(* (OneAccountEach), of a password that bcrypt takes whole (Validated); a  *)
(* row is there only if its registration succeeded or a statement of it    *)
(* failed, and is there if it succeeded (RowsAccounted); what a login      *)
(* found stays there (LoginsFound); and a token is that of a login that    *)
(* ended (TokensOfLogins).                                                 *)
(***************************************************************************)
EXTENDS Accounts, TLAPS

OneAccountEach == \A a, b \in accounts : a.email = b.email => a = b

RowsAccounted ==
    \A r \in Requests :
        /\ r \in late => r \in failed /\ resp[r] # 400
        /\ \A a \in accounts : a.id = r => resp[r] # 400 /\ (resp[r] = 200 \/ r \in failed)
        /\ Registered(r) => Row(r) \in accounts
        /\ Answered(r, "register") /\ resp[r] = 500 /\ r \notin failed /\ req[r].email.form # "long"
           => \E a \in accounts : a.email = req[r].email /\ a.id # r

LoginsFound ==
    \A r \in Requests :
        Asked(r, "login") /\ (pc[r] = "token" \/ resp[r] = 200) =>
            \E a \in accounts : a.id = found[r] /\ Matches(a, req[r])

TokensOfLogins ==
    \A r \in Requests : Asked(r, "use") /\ resp[r] # 401 =>
        /\ req[r].login \in Requests
        /\ HasToken(req[r].login)
        /\ pc[r] # "admit" => /\ found[r] = found[req[r].login]
                              /\ time[r] < time[req[r].login] + TokenLife

Validated == \A r \in Requests : Asked(r, "register") /\ resp[r] # 400 => ValidatePassword(req[r].password)

IInv ==
    /\ TypeOK
    /\ Validated
    /\ OneAccountEach
    /\ RowsAccounted
    /\ LoginsFound
    /\ TokensOfLogins
    /\ RegisteredCanLogIn

\* A request is received: nothing it does not bring changes.
LEMMA AskStep == ASSUME NEW r \in Requests, IInv, Ask(r) PROVE IInv'
<1>1. PICK in \in Inputs[r] :
         /\ req' = [req EXCEPT ![r] = in]
         /\ CASE in.op = "register" ->
                    IF ValidateEmail(in.email) /\ ValidatePassword(in.password)
                    THEN Goto(r, "insert") ELSE Answer(r, 400)
              [] in.op = "login" -> Goto(r, "lookup")
              [] in.op = "use"   ->
                    IF in.login = NoRequest THEN Answer(r, 401)
                    ELSE HasToken(in.login) /\ Goto(r, "admit")
  BY DEF Ask
<1>2. /\ pc[r] = "idle"
      /\ before' = [before EXCEPT ![r] = {q \in Requests : Registered(q)}]
      /\ UNCHANGED <<accounts, late, failed, found, time, clock>>
  BY DEF Ask
<1>3. /\ in # NoRequest
      /\ in.op \in {"register", "login", "use"}
      /\ in.op = "use" => in.login \in Requests \cup {NoRequest}
  BY AccountInputsAssumption
<1>4. /\ req \in [Requests -> (UNION {Inputs[q] : q \in Requests}) \cup {NoRequest}]
      /\ pc \in [Requests -> {"idle", "insert", "lookup", "token", "admit", "handler", "done"}]
      /\ resp \in [Requests -> {0, 200, 400, 401, 500}]
      /\ resp[r] = 0
  BY <1>2 DEF IInv, TypeOK
\* What the client asks decides where the handler is.
<1>5. \/ in.op = "register" /\ ValidatePassword(in.password) /\ Goto(r, "insert")
      \/ in.op = "register" /\ Answer(r, 400)
      \/ in.op = "login" /\ Goto(r, "lookup")
      \/ in.op = "use" /\ Answer(r, 401)
      \/ in.op = "use" /\ in.login \in Requests /\ HasToken(in.login) /\ Goto(r, "admit")
  BY <1>1, <1>3, Zenon
<1>6. /\ req'[r] = in
      /\ \A q \in Requests \ {r} : req'[q] = req[q] /\ pc'[q] = pc[q] /\ resp'[q] = resp[q]
      /\ before' \in [Requests -> SUBSET Requests] /\ \A q \in Requests \ {r} : before'[q] = before[q]
      /\ \/ in.op = "register" /\ ValidatePassword(in.password) /\ pc'[r] = "insert" /\ resp'[r] = 0
         \/ in.op = "register" /\ pc'[r] = "done" /\ resp'[r] = 400
         \/ in.op = "login" /\ pc'[r] = "lookup" /\ resp'[r] = 0
         \/ in.op = "use" /\ pc'[r] = "done" /\ resp'[r] = 401
         \/ in.op = "use" /\ pc'[r] = "admit" /\ resp'[r] = 0 /\ in.login \in Requests /\ HasToken(in.login)
  BY <1>1, <1>2, <1>4, <1>5, SMTT(30) DEF IInv, TypeOK, Goto, Answer
<1>7. /\ req' \in [Requests -> (UNION {Inputs[q] : q \in Requests}) \cup {NoRequest}]
      /\ pc' \in [Requests -> {"idle", "insert", "lookup", "token", "admit", "handler", "done"}]
      /\ resp' \in [Requests -> {0, 200, 400, 401, 500}]
  BY <1>1, <1>4, <1>5, SMTT(30) DEF Goto, Answer
\* Who has asked before is not r, and what is known of it stays.
<1>8. /\ \A q \in Requests : Registered(q) <=> Registered(q)'
      /\ \A q \in Requests : HasToken(q) => q # r /\ HasToken(q)'
      /\ \A q \in Requests : HasToken(q) => found'[q] = found[q] /\ time'[q] = time[q]
      /\ \A q \in Requests : \A op : Asked(q, op) => q # r /\ Asked(q, op)'
      /\ \A q \in before'[r] : Registered(q)
  BY <1>2, <1>4, <1>6, SMTT(30) DEF Registered, HasToken, Asked
<1>9. \A a \in accounts : a.id \in Requests /\ Asked(a.id, "register") /\ Row(a.id)' = Row(a.id)
  BY <1>2, <1>6, <1>8, SMTT(30) DEF IInv, TypeOK, Row, Asked
<1>10. TypeOK'
  <2>1. \A a \in accounts' : a.id \in Requests /\ Asked(a.id, "register")' /\ a = Row(a.id)'
    BY <1>2, <1>8, <1>9 DEF IInv, TypeOK
  <2>2. late' \subseteq {q \in Requests : Asked(q, "register")'}
    BY <1>2, <1>8 DEF IInv, TypeOK
  <2>3. \A q \in Requests :
           /\ pc'[q] = "idle" \/ req'[q] \in Inputs[q]
           /\ pc'[q] = "insert" => req'[q].op = "register"
           /\ pc'[q] \in {"lookup", "token"} => req'[q].op = "login"
           /\ pc'[q] \in {"admit", "handler"} => req'[q].op = "use"
           /\ resp'[q] = 0 <=> pc'[q] # "done"
    BY <1>1, <1>6, SMTT(30) DEF IInv, TypeOK
  <2>4. \A q \in Requests : \A p \in before'[q] : Registered(p)'
    BY <1>6, <1>8, SMTT(30) DEF IInv, TypeOK
  <2>5. found' \in [Requests -> Requests \cup {NoRequest}] /\ time' \in [Requests -> 0..clock']
        /\ failed' \subseteq Requests /\ clock' \in 0..MaxClock
    BY <1>2 DEF IInv, TypeOK
  <2>6. QED
    BY <1>6, <1>7, <2>1, <2>2, <2>3, <2>4, <2>5 DEF TypeOK
<1>11. OneAccountEach'
  BY <1>2 DEF IInv, OneAccountEach
<1>12. RowsAccounted'
  <2> SUFFICES ASSUME NEW q \in Requests
               PROVE  /\ q \in late' => q \in failed' /\ resp'[q] # 400
                      /\ \A a \in accounts' : a.id = q => resp'[q] # 400 /\ (resp'[q] = 200 \/ q \in failed')
                      /\ Registered(q)' => Row(q)' \in accounts'
                      /\ Answered(q, "register")' /\ resp'[q] = 500 /\ q \notin failed'
                            /\ req'[q].email.form # "long"
                         => \E a \in accounts' : a.email = req'[q].email /\ a.id # q
    BY Zenon DEF RowsAccounted
  <2>1. CASE q = r
    BY <2>1, <1>2, <1>6, <1>8, <1>9, SMTT(30) DEF IInv, TypeOK, Registered, Answered
  <2>2. CASE q # r
    BY <2>2, <1>2, <1>6, <1>8, SMTT(30) DEF IInv, RowsAccounted, Registered, Answered, Row
  <2>3. QED
    BY <2>1, <2>2
<1>13. LoginsFound'
  BY <1>2, <1>6, SMTT(30) DEF IInv, LoginsFound, Asked, Matches
<1>14. TokensOfLogins'
  <2> SUFFICES ASSUME NEW q \in Requests, Asked(q, "use")', resp'[q] # 401
               PROVE  /\ req'[q].login \in Requests
                      /\ HasToken(req[q].login)'
                      /\ pc'[q] # "admit" => /\ found'[q] = found'[req'[q].login]
                                             /\ time'[q] < time'[req'[q].login] + TokenLife
    BY Zenon DEF TokensOfLogins
  <2>1. CASE q = r
    BY <2>1, <1>6, <1>8, SMTT(30) DEF Asked, HasToken
  <2>2. CASE q # r
    BY <2>2, <1>2, <1>6, <1>8, SMTT(30) DEF IInv, TokensOfLogins, Asked, HasToken
  <2>3. QED
    BY <2>1, <2>2
<1>15. RegisteredCanLogIn'
  <2> SUFFICES ASSUME NEW q \in Requests, NEW p \in Requests,
                      Answered(p, "login")', q \in before'[p], req'[q].email = req'[p].email,
                      Opens(req'[p].password, req'[q].password)
               PROVE  resp'[p] = 200 \/ p \in failed'
    BY Zenon DEF RegisteredCanLogIn
  <2>1. p # r
    BY <1>6, SMTT(30) DEF Answered
  <2>2. q # r
    BY <2>1, <1>2, <1>6, SMTT(30) DEF IInv, TypeOK, Registered
  <2>3. QED
    BY <2>1, <2>2, <1>2, <1>6, SMTT(30) DEF IInv, RegisteredCanLogIn, Answered
<1>16. Validated'
  BY <1>6, SMTT(30) DEF IInv, Validated, Asked
<1>17. QED
  BY <1>10, <1>11, <1>12, <1>13, <1>14, <1>15, <1>16 DEF IInv

\* The row of a registration is added, or refused because the address has one.
LEMMA InsertStep == ASSUME NEW r \in Requests, IInv, Insert(r) PROVE IInv'
<1>1. TypeOK'
  BY SMTT(30) DEF IInv, Insert, Goto, Answer, handling, TypeOK, Asked, Registered, Row
<1>2. OneAccountEach'
  BY SMTT(30) DEF IInv, Insert, Goto, Answer, handling, TypeOK, OneAccountEach, Row, Refused
<1>3. RowsAccounted'
  BY SMTT(30) DEF IInv, Insert, Goto, Answer, handling, TypeOK, RowsAccounted, Registered, Asked, Answered, Row, Refused
<1>4. LoginsFound'
  BY SMTT(30) DEF IInv, Insert, Goto, Answer, handling, TypeOK, LoginsFound, Asked, Matches
<1>5. TokensOfLogins'
  BY SMTT(30) DEF IInv, Insert, Goto, Answer, handling, TypeOK, TokensOfLogins, Asked, HasToken, ValidateToken
<1>6. RegisteredCanLogIn'
  BY SMTT(30) DEF IInv, Insert, Goto, Answer, handling, TypeOK, RegisteredCanLogIn, RowsAccounted, Registered, Answered, Row, Matches
<1>7. Validated'
  BY SMTT(30) DEF IInv, Insert, Goto, Answer, handling, TypeOK, Validated, Asked
<1>8. QED
  BY <1>1, <1>2, <1>3, <1>4, <1>5, <1>6, <1>7 DEF IInv

\* A statement is given up or sent again, and may be run later.
LEMMA LoseInsertStep == ASSUME NEW r \in Requests, IInv, LoseInsert(r) PROVE IInv'
<1>1. TypeOK'
  BY SMTT(30) DEF IInv, LoseInsert, Goto, Answer, handling, TypeOK, Asked, Registered, Row
<1>2. OneAccountEach'
  BY SMTT(30) DEF IInv, LoseInsert, Goto, Answer, handling, TypeOK, OneAccountEach, Row, Refused
<1>3. RowsAccounted'
  BY SMTT(30) DEF IInv, LoseInsert, Goto, Answer, handling, TypeOK, RowsAccounted, Registered, Asked, Answered, Row, Refused
<1>4. LoginsFound'
  BY SMTT(30) DEF IInv, LoseInsert, Goto, Answer, handling, TypeOK, LoginsFound, Asked, Matches
<1>5. TokensOfLogins'
  BY SMTT(30) DEF IInv, LoseInsert, Goto, Answer, handling, TypeOK, TokensOfLogins, Asked, HasToken, ValidateToken
<1>6. RegisteredCanLogIn'
  BY SMTT(30) DEF IInv, LoseInsert, Goto, Answer, handling, TypeOK, RegisteredCanLogIn, RowsAccounted, Registered, Answered, Row, Matches
<1>7. Validated'
  BY SMTT(30) DEF IInv, LoseInsert, Goto, Answer, handling, TypeOK, Validated, Asked
<1>8. QED
  BY <1>1, <1>2, <1>3, <1>4, <1>5, <1>6, <1>7 DEF IInv

\* A statement nobody waits for adds a row only where there is none of its address.
LEMMA LateInsertStep == ASSUME NEW r \in Requests, IInv, LateInsert(r) PROVE IInv'
<1>1. TypeOK'
  BY SMTT(30) DEF IInv, LateInsert, Goto, Answer, handling, TypeOK, Asked, Registered, Row
<1>2. OneAccountEach'
  BY SMTT(30) DEF IInv, LateInsert, Goto, Answer, handling, TypeOK, OneAccountEach, Row, Refused
<1>3. RowsAccounted'
  BY SMTT(30) DEF IInv, LateInsert, Goto, Answer, handling, TypeOK, RowsAccounted, Registered, Asked, Answered, Row, Refused
<1>4. LoginsFound'
  BY SMTT(30) DEF IInv, LateInsert, Goto, Answer, handling, TypeOK, LoginsFound, Asked, Matches
<1>5. TokensOfLogins'
  BY SMTT(30) DEF IInv, LateInsert, Goto, Answer, handling, TypeOK, TokensOfLogins, Asked, HasToken, ValidateToken
<1>6. RegisteredCanLogIn'
  BY SMTT(30) DEF IInv, LateInsert, Goto, Answer, handling, TypeOK, RegisteredCanLogIn, RowsAccounted, Registered, Answered, Row, Matches
<1>7. Validated'
  BY SMTT(30) DEF IInv, LateInsert, Goto, Answer, handling, TypeOK, Validated, Asked
<1>8. QED
  BY <1>1, <1>2, <1>3, <1>4, <1>5, <1>6, <1>7 DEF IInv

\* A login that finds no row of its address and password comes before no such row, or after none.
LEMMA LookupStep == ASSUME NEW r \in Requests, IInv, Lookup(r) PROVE IInv'
<1>1. TypeOK'
  BY SMTT(30) DEF IInv, Lookup, Goto, Answer, handling, TypeOK, Asked, Registered, Row
<1>2. OneAccountEach'
  BY SMTT(30) DEF IInv, Lookup, Goto, Answer, handling, TypeOK, OneAccountEach, Row, Refused
<1>3. RowsAccounted'
  BY SMTT(30) DEF IInv, Lookup, Goto, Answer, handling, TypeOK, RowsAccounted, Registered, Asked, Answered, Row, Refused
<1>4. LoginsFound'
  BY SMTT(30) DEF IInv, Lookup, Goto, Answer, handling, TypeOK, LoginsFound, Asked, Matches
<1>5. TokensOfLogins'
  BY SMTT(30) DEF IInv, Lookup, Goto, Answer, handling, TypeOK, TokensOfLogins, Asked, HasToken, ValidateToken
<1>6. RegisteredCanLogIn'
  <2> SUFFICES ASSUME NEW q \in Requests, NEW p \in Requests,
                      Answered(p, "login")', q \in before'[p], req'[q].email = req'[p].email,
                      Opens(req'[p].password, req'[q].password)
               PROVE  resp'[p] = 200 \/ p \in failed'
    BY Zenon DEF RegisteredCanLogIn
  <2>1. CASE p # r
    BY <2>1, SMTT(30) DEF IInv, TypeOK, Lookup, Goto, Answer, RegisteredCanLogIn, Answered
  <2>2. CASE p = r
    <3>1. q \in before[r] /\ req[q].email = req[r].email
          /\ Opens(req[r].password, req[q].password)
      BY <2>2 DEF Lookup
    <3>2. Row(q) \in accounts
      BY <3>1 DEF IInv, TypeOK, RowsAccounted
    <3>3. Matches(Row(q), req[r])
      BY <3>1 DEF Matches, Row, Opens, CheckPassword, HashPassword
    <3>4. pc'[r] = "token"
      BY <3>2, <3>3, SMTT(30) DEF IInv, TypeOK, Lookup, Goto
    <3>5. QED
      BY <2>2, <3>4 DEF Answered
  <2>3. QED
    BY <2>1, <2>2
<1>7. Validated'
  BY SMTT(30) DEF IInv, Lookup, Goto, Answer, handling, TypeOK, Validated, Asked
<1>8. QED
  BY <1>1, <1>2, <1>3, <1>4, <1>5, <1>6, <1>7 DEF IInv

\* A query fails: the login is remembered as one of which a statement failed.
LEMMA LoseLookupStep == ASSUME NEW r \in Requests, IInv, LoseLookup(r) PROVE IInv'
<1>1. TypeOK'
  BY SMTT(30) DEF IInv, LoseLookup, Goto, Answer, handling, TypeOK, Asked, Registered, Row
<1>2. OneAccountEach'
  BY SMTT(30) DEF IInv, LoseLookup, Goto, Answer, handling, TypeOK, OneAccountEach, Row, Refused
<1>3. RowsAccounted'
  BY SMTT(30) DEF IInv, LoseLookup, Goto, Answer, handling, TypeOK, RowsAccounted, Registered, Asked, Answered, Row, Refused
<1>4. LoginsFound'
  BY SMTT(30) DEF IInv, LoseLookup, Goto, Answer, handling, TypeOK, LoginsFound, Asked, Matches
<1>5. TokensOfLogins'
  BY SMTT(30) DEF IInv, LoseLookup, Goto, Answer, handling, TypeOK, TokensOfLogins, Asked, HasToken, ValidateToken
<1>6. RegisteredCanLogIn'
  BY SMTT(30) DEF IInv, LoseLookup, Goto, Answer, handling, TypeOK, RegisteredCanLogIn, RowsAccounted, Registered, Answered, Row, Matches
<1>7. Validated'
  BY SMTT(30) DEF IInv, LoseLookup, Goto, Answer, handling, TypeOK, Validated, Asked
<1>8. QED
  BY <1>1, <1>2, <1>3, <1>4, <1>5, <1>6, <1>7 DEF IInv

\* A login that found a row ends with a token.
LEMMA IssueStep == ASSUME NEW r \in Requests, IInv, Issue(r) PROVE IInv'
<1>1. TypeOK'
  BY SMTT(30) DEF IInv, Issue, Goto, Answer, handling, TypeOK, Asked, Registered, Row
<1>2. OneAccountEach'
  BY SMTT(30) DEF IInv, Issue, Goto, Answer, handling, TypeOK, OneAccountEach, Row, Refused
<1>3. RowsAccounted'
  BY SMTT(30) DEF IInv, Issue, Goto, Answer, handling, TypeOK, RowsAccounted, Registered, Asked, Answered, Row, Refused
<1>4. LoginsFound'
  BY SMTT(30) DEF IInv, Issue, Goto, Answer, handling, TypeOK, LoginsFound, Asked, Matches
<1>5. TokensOfLogins'
  BY SMTT(30) DEF IInv, Issue, Goto, Answer, handling, TypeOK, TokensOfLogins, Asked, HasToken, ValidateToken
<1>6. RegisteredCanLogIn'
  BY SMTT(30) DEF IInv, Issue, Goto, Answer, handling, TypeOK, RegisteredCanLogIn, RowsAccounted, Registered, Answered, Row, Matches
<1>7. Validated'
  BY SMTT(30) DEF IInv, Issue, Goto, Answer, handling, TypeOK, Validated, Asked
<1>8. QED
  BY <1>1, <1>2, <1>3, <1>4, <1>5, <1>6, <1>7 DEF IInv

\* A token that is admitted is that of a login, and of its account.
LEMMA AdmitStep == ASSUME NEW r \in Requests, IInv, Admit(r) PROVE IInv'
<1>1. TypeOK'
  BY SMTT(30) DEF IInv, Admit, Goto, Answer, handling, TypeOK, TokensOfLogins, Asked, HasToken, Registered, Row
<1>2. OneAccountEach'
  BY SMTT(30) DEF IInv, Admit, Goto, Answer, handling, TypeOK, OneAccountEach, Row, Refused
<1>3. RowsAccounted'
  BY SMTT(30) DEF IInv, Admit, Goto, Answer, handling, TypeOK, RowsAccounted, Registered, Asked, Answered, Row, Refused
<1>4. LoginsFound'
  BY SMTT(30) DEF IInv, Admit, Goto, Answer, handling, TypeOK, LoginsFound, Asked, Matches
<1>5. TokensOfLogins'
  BY SMTT(30) DEF IInv, Admit, Goto, Answer, handling, TypeOK, TokensOfLogins, Asked, HasToken, ValidateToken
<1>6. RegisteredCanLogIn'
  BY SMTT(30) DEF IInv, Admit, Goto, Answer, handling, TypeOK, RegisteredCanLogIn, RowsAccounted, Registered, Answered, Row, Matches
<1>7. Validated'
  BY SMTT(30) DEF IInv, Admit, Goto, Answer, handling, TypeOK, Validated, Asked
<1>8. QED
  BY <1>1, <1>2, <1>3, <1>4, <1>5, <1>6, <1>7 DEF IInv

\* A handler ends.
LEMMA HandleStep == ASSUME NEW r \in Requests, IInv, Handle(r) PROVE IInv'
<1>1. TypeOK'
  BY SMTT(30) DEF IInv, Handle, Goto, Answer, handling, TypeOK, Asked, Registered, Row
<1>2. OneAccountEach'
  BY SMTT(30) DEF IInv, Handle, Goto, Answer, handling, TypeOK, OneAccountEach, Row, Refused
<1>3. RowsAccounted'
  BY SMTT(30) DEF IInv, Handle, Goto, Answer, handling, TypeOK, RowsAccounted, Registered, Asked, Answered, Row, Refused
<1>4. LoginsFound'
  BY SMTT(30) DEF IInv, Handle, Goto, Answer, handling, TypeOK, LoginsFound, Asked, Matches
<1>5. TokensOfLogins'
  BY SMTT(30) DEF IInv, Handle, Goto, Answer, handling, TypeOK, TokensOfLogins, Asked, HasToken, ValidateToken
<1>6. RegisteredCanLogIn'
  BY SMTT(30) DEF IInv, Handle, Goto, Answer, handling, TypeOK, RegisteredCanLogIn, RowsAccounted, Registered, Answered, Row, Matches
<1>7. Validated'
  BY SMTT(30) DEF IInv, Handle, Goto, Answer, handling, TypeOK, Validated, Asked
<1>8. QED
  BY <1>1, <1>2, <1>3, <1>4, <1>5, <1>6, <1>7 DEF IInv

--------------------------------------------------------------------------------

\* At the start nobody has asked.
LEMMA InitIInv == Init => IInv
<1> SUFFICES ASSUME Init PROVE IInv
  OBVIOUS
<1>1. TypeOK
  <2>1. req \in [Requests -> (UNION {Inputs[r] : r \in Requests}) \cup {NoRequest}]
    BY Zenon DEF Init
  <2>2. time \in [Requests -> 0..clock] /\ clock \in 0..MaxClock
    BY AccountInputsAssumption DEF Init
  <2>3. /\ pc \in [Requests -> {"idle", "insert", "lookup", "token", "admit", "handler", "done"}]
        /\ resp \in [Requests -> {0, 200, 400, 401, 500}]
        /\ found \in [Requests -> Requests \cup {NoRequest}]
        /\ before \in [Requests -> SUBSET Requests]
        /\ failed \subseteq Requests
    BY DEF Init
  <2>4. \A r \in Requests : pc[r] = "idle" /\ resp[r] = 0 /\ before[r] = {}
    BY DEF Init
  <2>5. QED
    BY <2>1, <2>2, <2>3, <2>4 DEF Init, TypeOK
<1>2. OneAccountEach /\ RowsAccounted /\ LoginsFound /\ TokensOfLogins /\ RegisteredCanLogIn /\ Validated
  BY DEF Init, Validated, OneAccountEach, RowsAccounted, LoginsFound, TokensOfLogins, RegisteredCanLogIn,
     Asked, Answered, Registered
<1>3. QED
  BY <1>1, <1>2 DEF IInv

\* Time changes nothing but the clock.
LEMMA TickStep == IInv /\ Tick => IInv'
<1> SUFFICES ASSUME IInv, Tick PROVE IInv'
  OBVIOUS
<1>1. TypeOK'
  BY AccountInputsAssumption, SMTT(30) DEF IInv, TypeOK, Tick, handling, Asked, Registered, Row
<1>2. /\ OneAccountEach' /\ RowsAccounted' /\ LoginsFound' /\ TokensOfLogins' /\ RegisteredCanLogIn'
      /\ Validated'
  BY DEF IInv, Tick, handling, Validated, OneAccountEach, RowsAccounted, LoginsFound, TokensOfLogins,
     RegisteredCanLogIn, Asked, Answered, Registered, HasToken, Row
<1>3. QED
  BY <1>1, <1>2 DEF IInv

\* Nothing happens.
LEMMA StutteringStep == IInv /\ UNCHANGED vars => IInv'
<1> SUFFICES ASSUME IInv, UNCHANGED vars PROVE IInv'
  OBVIOUS
<1>1. TypeOK'
  BY DEF IInv, vars, handling, TypeOK, Asked, Registered, Row
<1>2. /\ OneAccountEach' /\ RowsAccounted' /\ LoginsFound' /\ TokensOfLogins' /\ RegisteredCanLogIn'
      /\ Validated'
  BY DEF IInv, vars, handling, Validated, OneAccountEach, RowsAccounted, LoginsFound, TokensOfLogins,
     RegisteredCanLogIn, Asked, Answered, Registered, HasToken, Row
<1>3. QED
  BY <1>1, <1>2 DEF IInv

\* Every step keeps the invariant.
LEMMA NextIInv == IInv /\ [Next]_vars => IInv'
BY AskStep, InsertStep, LoseInsertStep, LateInsertStep, LookupStep, LoseLookupStep, IssueStep, AdmitStep,
   HandleStep, TickStep, StutteringStep DEF Next, Quiet

\* The invariant holds of every behaviour.
THEOREM Invariance == Spec => []IInv
<1>1. Init => IInv
  BY InitIInv
<1>2. IInv /\ [Next]_vars => IInv'
  BY NextIInv
<1>3. QED
  BY <1>1, <1>2, PTL DEF Spec

\* Accounts is type correct: rows are what the registrations they are named by asked for (handlers.go:651-683).
THEOREM TypeCorrect == Spec => []TypeOK
<1>1. IInv => TypeOK
  BY DEF IInv
<1>2. QED
  BY <1>1, Invariance, PTL

\* Registrations are answered truthfully, however many race to one address (db.go:111-118).
THEOREM RegistrationsAreTruthful == Spec => []RegistrationTruthful
<1>1. IInv => RegistrationTruthful
  <2> SUFFICES ASSUME IInv, NEW r \in Requests, Answered(r, "register")
               PROVE  /\ resp[r] = 200 => \A a \in accounts : a.email = req[r].email <=> a = Row(r)
                      /\ resp[r] = 200 => Row(r) \in accounts
                      /\ resp[r] = 400 => \A a \in accounts : a.id # r
                      /\ resp[r] = 500 /\ r \notin failed /\ req[r].email.form # "long"
                         => \E a \in accounts : a.email = req[r].email /\ a.id # r
    BY DEF RegistrationTruthful
  <2>1. resp[r] = 200 => Row(r) \in accounts
    BY DEF IInv, RowsAccounted, Registered, Answered
  <2>2. Row(r).email = req[r].email
    BY DEF Row
  <2>3. resp[r] = 200 => \A a \in accounts : a.email = req[r].email <=> a = Row(r)
    BY <2>1, <2>2 DEF IInv, OneAccountEach
  <2>4. resp[r] = 400 => \A a \in accounts : a.id # r
    BY DEF IInv, RowsAccounted
  <2>5. resp[r] = 500 /\ r \notin failed /\ req[r].email.form # "long"
        => \E a \in accounts : a.email = req[r].email /\ a.id # r
    BY DEF IInv, RowsAccounted
  <2>6. QED
    BY <2>1, <2>3, <2>4, <2>5
<1>2. QED
  BY <1>1, Invariance, PTL

\* Who was told of an account can log in to it (handlers.go:612-649).
THEOREM RegisteredLogIn == Spec => []RegisteredCanLogIn
<1>1. IInv => RegisteredCanLogIn
  BY DEF IInv
<1>2. QED
  BY <1>1, Invariance, PTL

\* A token admits the account of its login, while it lives (auth.go:49-87, middleware.go:13-35).
THEOREM AdmissionsFollowRegistration == Spec => []AdmittedAsRegistered
<1>1. IInv => AdmittedAsRegistered
  <2> SUFFICES ASSUME IInv, NEW r \in Requests, Asked(r, "use"), pc[r] # "admit", resp[r] # 401
               PROVE  /\ \E a \in accounts :
                            /\ a.id = found[r]
                            /\ a.email = req[req[r].login].email
                            /\ Opens(req[req[r].login].password, req[a.id].password)
                      /\ time[r] < time[req[r].login] + TokenLife
    BY Zenon DEF AdmittedAsRegistered
  <2> DEFINE q == req[r].login
  <2>1. q \in Requests /\ HasToken(q) /\ found[r] = found[q] /\ time[r] < time[q] + TokenLife
    BY DEF IInv, TokensOfLogins
  <2>2. PICK a \in accounts : a.id = found[q] /\ Matches(a, req[q])
    BY <2>1 DEF IInv, LoginsFound, HasToken, Asked
  \* The row is of its registration, whose password bcrypt took whole.
  <2>3. /\ a.id \in Requests
        /\ Asked(a.id, "register")
        /\ a = Row(a.id)
        /\ resp[a.id] # 400
    BY <2>2 DEF IInv, TypeOK, RowsAccounted
  <2>4. ValidatePassword(req[a.id].password)
    BY <2>3 DEF IInv, Validated
  <2>5. req[q].password.start = req[a.id].password.start
    BY <2>2, <2>3 DEF Matches, CheckPassword, HashPassword, Row
  <2>6. /\ req[q] \in Inputs[q] /\ req[q].op = "login"
        /\ req[a.id] \in Inputs[a.id] /\ req[a.id].op = "register"
    BY <2>1, <2>3 DEF IInv, TypeOK, HasToken, Asked
  <2>7. \/ req[q].password = req[a.id].password
        \/ req[q].password.length > 72 /\ req[a.id].password.length >= 72
        \/ req[q].password.length >= 72 /\ req[a.id].password.length > 72
    BY <2>1, <2>3, <2>5, <2>6, AccountInputsAssumption
  <2>8. Opens(req[q].password, req[a.id].password)
    BY <2>4, <2>5, <2>7 DEF ValidatePassword, Opens
  <2>9. QED
    BY <2>1, <2>2, <2>3, <2>8 DEF Matches
<1>2. QED
  BY <1>1, Invariance, PTL
================================================================================
