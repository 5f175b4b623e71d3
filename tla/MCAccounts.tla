------------------------------- MODULE MCAccounts ------------------------------
(***************************************************************************)
(* A small instance of Accounts: two registrations that may be of one      *)
(* mailbox, in one spelling or two, with one password or two; a login, and *)
(* another login or a request with the token of the first.                 *)
(***************************************************************************)
EXTENDS Accounts

CONSTANTS r1, r2, r3, r4, Secret, Other, Brief, Accented, Here, Away

Email(form, domain)      == [mailbox |-> "user", domain |-> domain, form |-> form]
Password(start, n, ascii) == [start |-> start, length |-> n, ascii |-> ascii]

Plain == Email("plain", Here)
Upper == Email("upper", Here)

\* The longest password that is taken, one byte more with the same start, and one
\* just long enough.
Longest == Password(Secret, 72, TRUE)
Longer  == Password(Secret, 73, TRUE)
Short   == Password(Other, 8, TRUE)

Register(e, pw) == [op |-> "register", email |-> e, password |-> pw]
Login(e, pw)    == [op |-> "login", email |-> e, password |-> pw]
Use(q)          == [op |-> "use", login |-> q]

Rejects == {Register(Email("plain", Away), Short), Register(Email("malformed", Here), Short),
            Register(Plain, Longer), Register(Plain, Password(Brief, 7, TRUE)),
            Register(Plain, Password(Accented, 8, FALSE)), Register(Email("long", Here), Short)}

MCInputs ==
    [r \in Requests |->
        CASE r = r1 -> {Register(e, Longest) : e \in {Plain, Upper}}
          [] r = r2 -> {Register(e, Short) : e \in {Plain, Upper}} \cup Rejects
          [] r = r3 -> {Login(Plain, Longer), Login(Upper, Longest), Login(Upper, Short)}
          [] OTHER  -> {Login(Plain, Short), Use(r3), Use(NoRequest)}]
================================================================================
