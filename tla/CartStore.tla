------------------------------- MODULE CartStore -------------------------------
(***************************************************************************)
(* What the shopping cart promises to its users.  Each has one list, newest *)
(* item first.  An addition puts its item in front, a removal takes out at *)
(* most one item, a clearing takes out all, and nothing else changes a     *)
(* list.  A request takes effect at most Sendings times, and one that is   *)
(* acknowledged has taken effect.  Cart implements this store.             *)
(***************************************************************************)
EXTENDS Naturals, SequencesExt, FiniteSets

CONSTANTS
    Users,
    Requests,
    Wishes,       \* what a request may ask: its op, its user, and its item
    Unasked,      \* what a request that was not made asks
    Sendings      \* how often one request may reach the store

VARIABLES
    list,         \* list[u]: the items of user u
    asked,        \* what each request asks
    effects,      \* how often each has taken effect
    acked         \* those answered with success

vars == <<list, asked, effects, acked>>

Init ==
    /\ list = [u \in Users |-> << >>]
    /\ asked = [r \in Requests |-> Unasked]
    /\ effects = [r \in Requests |-> 0]
    /\ acked = {}

Ask(r) ==
    /\ asked[r] = Unasked
    /\ \E wish \in Wishes : asked' = [asked EXCEPT ![r] = wish]
    /\ UNCHANGED <<list, effects, acked>>

Becomes(r, l) == list' = [list EXCEPT ![asked[r].user] = l]

Add(r) ==
    /\ asked[r].op = "add"
    /\ Becomes(r, <<asked[r].item>> \o list[asked[r].user])

\* The item may be one that another removal takes out already.
TakeOut(r) ==
    /\ asked[r].op = "remove"
    /\ \/ \E i \in DOMAIN list[asked[r].user] : Becomes(r, RemoveAt(list[asked[r].user], i))
       \/ UNCHANGED list

Clear(r) ==
    /\ asked[r].op = "clear"
    /\ Becomes(r, << >>)

\* The request reaches the store, and may be acknowledged at once.
Effect(r) ==
    /\ asked[r] # Unasked
    /\ effects[r] < Sendings
    /\ Add(r) \/ TakeOut(r) \/ Clear(r)
    /\ effects' = [effects EXCEPT ![r] = @ + 1]
    /\ acked' \in {acked, acked \cup {r}}
    /\ UNCHANGED asked

Acknowledge(r) ==
    /\ asked[r] # Unasked
    /\ effects[r] > 0 \/ asked[r].op = "get"
    /\ acked' = acked \cup {r}
    /\ UNCHANGED <<list, asked, effects>>

Next == \E r \in Requests : Ask(r) \/ Effect(r) \/ Acknowledge(r)

Spec == Init /\ [][Next]_vars

--------------------------------------------------------------------------------
\* What follows for a user.

\* The effects of the requests of u that ask for op, each by its number.
Done(u, op) ==
    UNION {{r} \X (1..effects[r]) :
              r \in {r \in Requests : asked[r] # Unasked /\ asked[r].op = op /\ asked[r].user = u}}

\* Whatever was added to a list that was never cleared is in it, but for one
\* item per effect of a removal.
NothingLost ==
    \A u \in Users :
        Done(u, "clear") = {} =>
            Cardinality(Done(u, "add")) <= Len(list[u]) + Cardinality(Done(u, "remove"))

\* Whatever is in a list was added to it, by a request of its user for that
\* item, as often as it is there.
NothingForged ==
    \A u \in Users : \A i \in DOMAIN list[u] :
        Cardinality({j \in DOMAIN list[u] : list[u][j] = list[u][i]})
            <= Cardinality({d \in Done(u, "add") : asked[d[1]].item = list[u][i]})
================================================================================
