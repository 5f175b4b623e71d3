--------------------------------- MODULE Cart ----------------------------------
(***************************************************************************)
(* The shopping cart: AddToCart, GetCart, RemoveFromCart and ClearCart of   *)
(* internal/handlers/handlers.go over internal/cache/redis_cache.go.       *)
(*                                                                         *)
(* A cart is one Redis list per user.  Redis runs one command at a time,   *)
(* and removing an item takes two: LSET overwrites the slot with a marker, *)
(* LREM deletes the first marker of the list.  Requests of the same user   *)
(* come between the two.  When no answer to a command arrives in time the  *)
(* client library sends it again, or gives up and reports an error; what   *)
(* was sent before may still be on its way, and take effect then or later. *)
(***************************************************************************)
EXTENDS Integers, SequencesExt, FiniteSets

CONSTANTS
    Requests,    \* the HTTP requests: each is received at most once
    Users,       \* subjects of the bearer tokens
    Items,       \* cart items as JSON
    NoItem,      \* a body that does not decode to an item
    Marker,      \* "__TO_DELETE__", which is not JSON
    Inputs,      \* [Requests -> set of what the client may ask in that request]
    NoRequest,   \* what was asked by a request not received yet
    MaxResends,  \* how often the client library repeats a command
    MaxFaults    \* bound on lost commands and crashes

AddInputs    == [op : {"add"}, user : Users, item : Items \cup {NoItem}]
GetInputs    == [op : {"get"}, user : Users, limit : Int, offset : Int]
RemoveInputs == [op : {"remove"}, user : Users, index : Int]
ClearInputs  == [op : {"clear"}, user : Users]

AnyInput == AddInputs \cup GetInputs \cup RemoveInputs \cup ClearInputs

ASSUME CartInputsAssumption == Inputs \in [Requests -> SUBSET AnyInput]

ASSUME CartConstantsAssumption ==
    /\ Marker \notin Items
    /\ NoItem \notin Items
    /\ NoRequest \notin AnyInput
    /\ MaxResends \in Nat
    /\ MaxFaults \in Nat

VARIABLES
    cart,      \* the Redis list of each user, head first
    req,       \* what each request asked for
    pc,        \* the command each request is at
    sent,      \* how often that command was repeated
    late,      \* commands nobody waits for that Redis may still run
    applied,   \* how often LPUSH, LSET or DEL of a request took effect
    swept,     \* requests whose LREM was run
    resp,      \* HTTP status sent; 0 while there is none
    faults     \* lost commands and crashes so far

vars == <<cart, req, pc, sent, late, applied, swept, resp, faults>>

Commands == {"lpush", "lrange", "lset", "lrem", "del"}

Init ==
    /\ cart = [u \in Users |-> << >>]
    /\ req = [r \in Requests |-> NoRequest]
    /\ pc = [r \in Requests |-> "idle"]
    /\ sent = [r \in Requests |-> 0]
    /\ late = {}
    /\ applied = [r \in Requests |-> 0]
    /\ swept = {}
    /\ resp = [r \in Requests |-> 0]
    /\ faults = 0

--------------------------------------------------------------------------------
\* What Redis does to a list.

\* Mutant: RPUSH for LPUSH.
PushedLast(list, item) == Append(list, item)

Pushed(list, item) == <<item>> \o list

InRange(list, index) == 0 <= index /\ index < Len(list)

\* Mutant: the oldest item has the index 0.
MarkedFromTail(list, index) ==
    IF InRange(list, index) THEN ReplaceAt(list, Len(list) - index, Marker) ELSE list

Marked(list, index) ==
    IF InRange(list, index) THEN ReplaceAt(list, index + 1, Marker) ELSE list

\* Mutant: LREM looks for something else than LSET wrote.
SweptNothing(list) == list

\* Mutant: LPOP for LREM.
SweptHead(list) == IF list = << >> THEN list ELSE Tail(list)

Swept(list) == RemoveFirst(list, Marker)

MarkersIn(list) == {i \in DOMAIN list : list[i] = Marker}

\* The list of u after Redis ran `command` for r, whose user is u.
Result(r, command, list) ==
    CASE command = "lpush" -> Pushed(list, req[r].item)
      [] command = "lset"  -> Marked(list, req[r].index)
      [] command = "lrem"  -> Swept(list)
      [] command = "del"   -> << >>
      [] OTHER             -> list

Changes(r, command) ==
    \/ command \in {"lpush", "del"}
    \/ command = "lset" /\ InRange(cart[req[r].user], req[r].index)

\* Mutant: the key does not name the user.
RunOnOneKey(r, command) ==
    /\ cart' = [u \in Users |-> Result(r, command, cart[u])]
    /\ applied' = IF Changes(r, command) THEN [applied EXCEPT ![r] = @ + 1] ELSE applied
    /\ swept' = IF command = "lrem" THEN swept \cup {r} ELSE swept

\* Redis runs a command for r.
Run(r, command) ==
    /\ cart' = [cart EXCEPT ![req[r].user] = Result(r, command, @)]
    /\ applied' = IF Changes(r, command) THEN [applied EXCEPT ![r] = @ + 1] ELSE applied
    /\ swept' = IF command = "lrem" THEN swept \cup {r} ELSE swept

redis == <<cart, late, applied, swept>>

--------------------------------------------------------------------------------
\* Requests.

Answer(r, status) == pc' = [pc EXCEPT ![r] = "done"] /\ resp' = [resp EXCEPT ![r] = status]
Goto(r, command)  == pc' = [pc EXCEPT ![r] = command] /\ UNCHANGED resp

Receive(r, op) ==
    /\ pc[r] = "idle"
    /\ \E in \in {in \in Inputs[r] : in.op = op} : req' = [req EXCEPT ![r] = in]
    /\ UNCHANGED <<redis, sent, faults>>

AddToCart(r) ==
    /\ Receive(r, "add")
    /\ IF req'[r].item = NoItem THEN Answer(r, 400) ELSE Goto(r, "lpush")

GetCart(r) == Receive(r, "get") /\ Goto(r, "lrange")

RemoveFromCart(r) ==
    /\ Receive(r, "remove")
    /\ IF req'[r].index < 0 THEN Answer(r, 400) ELSE Goto(r, "lset")

ClearCart(r) == Receive(r, "clear") /\ Goto(r, "del")

\* parsePaginationParams: what does not parse, or is out of bounds, is ignored.
Limit(in)  == IF in.limit \in 1..1000 THEN in.limit ELSE 50
Offset(in) == IF in.offset >= 0 THEN in.offset ELSE 0

\* LRANGE offset, offset + limit - 1.
Page(list, in) == SubSeq(list, Offset(in) + 1, Min({Offset(in) + Limit(in), Len(list)}))

\* Mutant: an empty page is an error.
DecodesSome(page) == page # << >> /\ MarkersIn(page) = {}

\* json.Unmarshal into a CartItem: every item is JSON, the marker is not.
Decodes(page) == MarkersIn(page) = {}

\* Mutant: RemoveItemByIndex tries LSET again when the index is out of range.
AfterLSetAgain(r) ==
    IF InRange(cart[req[r].user], req[r].index) THEN Goto(r, "lrem") ELSE Goto(r, "lset")

\* LSET of a slot that is not there is an error, which RemoveFromCart reports.
AfterLSet(r) ==
    IF InRange(cart[req[r].user], req[r].index) THEN Goto(r, "lrem") ELSE Answer(r, 500)

\* Redis runs the command r waits for, and the answer arrives.
Executes(r, command) ==
    /\ pc[r] = command
    /\ Run(r, command)
    /\ sent' = [sent EXCEPT ![r] = 0]
    /\ UNCHANGED <<req, late, faults>>

LPush(r)  == Executes(r, "lpush") /\ Answer(r, 201)
LRange(r) ==
    /\ Executes(r, "lrange")
    /\ Answer(r, IF Decodes(Page(cart[req[r].user], req[r])) THEN 200 ELSE 500)
LSet(r)   == Executes(r, "lset") /\ AfterLSet(r)
LRem(r)   == Executes(r, "lrem") /\ Answer(r, 200)
Del(r)    == Executes(r, "del") /\ Answer(r, 200)

Step(r) == LPush(r) \/ LRange(r) \/ LSet(r) \/ LRem(r) \/ Del(r)

--------------------------------------------------------------------------------
\* Failures.

Sending(r) == [request |-> r, command |-> pc[r], attempt |-> sent[r]]
Working(r) == pc[r] \in Commands

Fault == faults < MaxFaults /\ faults' = faults + 1

\* Mutant: one repetition more than MaxRetries.
MayResendMore(r) == sent[r] <= MaxResends

MayResend(r) == sent[r] < MaxResends

\* No answer arrives: the command or the answer is lost, or late.
Resend(r) ==
    /\ Working(r)
    /\ MayResend(r)
    /\ Fault
    /\ late' = late \cup {Sending(r)}
    /\ sent' = [sent EXCEPT ![r] = @ + 1]
    /\ UNCHANGED <<cart, req, pc, applied, swept, resp>>

\* The same, and the client library returns the error.
GiveUp(r) ==
    /\ Working(r)
    /\ Fault
    /\ late' = late \cup {Sending(r)}
    /\ Answer(r, 500)
    /\ UNCHANGED <<cart, req, sent, applied, swept>>

\* Redis runs a command nobody waits for any more.
Late(m) ==
    /\ late' = late \ {m}
    /\ Run(m.request, m.command)
    /\ UNCHANGED <<req, pc, sent, resp, faults>>

\* The server process dies and is started again; the lists are Redis's.
Crash ==
    /\ \E r \in Requests : Working(r)
    /\ Fault
    /\ late' = late \cup {Sending(r) : r \in {r \in Requests : Working(r)}}
    /\ pc' = [r \in Requests |-> IF Working(r) THEN "dead" ELSE pc[r]]
    /\ UNCHANGED <<cart, req, sent, applied, swept, resp>>

\* Nobody waits for an answer: the server waits for requests.
Quiet ==
    /\ \A r \in Requests : ~Working(r)
    /\ UNCHANGED vars

Next ==
    \/ \E r \in Requests :
          \/ AddToCart(r)
          \/ GetCart(r)
          \/ RemoveFromCart(r)
          \/ ClearCart(r)
          \/ Step(r)
          \/ Resend(r)
          \/ GiveUp(r)
    \/ \E m \in late : Late(m)
    \/ Crash
    \/ Quiet

Spec == Init /\ [][Next]_vars

\* Redis runs what a request waits for.  What is late may never run.
FairSpec == Spec /\ \A r \in Requests : WF_vars(Step(r))

--------------------------------------------------------------------------------
\* Properties.

\* The type invariant; no command is repeated more often than the client
\* library allows, and LREM runs only for a removal whose LSET took effect.
TypeOK ==
    /\ cart \in [Users -> Seq(Items \cup {Marker})]
    /\ req \in [Requests -> AnyInput \cup {NoRequest}]
    /\ pc \in [Requests -> Commands \cup {"idle", "done", "dead"}]
    /\ sent \in [Requests -> 0..MaxResends]
    /\ late \subseteq [request : Requests, command : Commands, attempt : 0..MaxResends]
    /\ applied \in [Requests -> Nat]
    /\ swept \subseteq Requests
    /\ resp \in [Requests -> {0, 200, 201, 400, 500}]
    /\ faults \in 0..MaxFaults
    /\ \A r \in Requests : pc[r] = "lrem" \/ r \in swept => applied[r] > 0

RemovalsOf(u) ==
    {r \in Requests : req[r] # NoRequest /\ req[r].op = "remove" /\ req[r].user = u}

\* The effective LSETs on the cart of u that no LREM has answered yet; the
\* LREM of a removal answers for one of its LSETs.
Owed(u) ==
    UNION {{r} \X ((1..applied[r]) \ (IF r \in swept THEN {1} ELSE {})) : r \in RemovalsOf(u)}

Markers(u) == MarkersIn(cart[u])

\* Every marker in a cart is owed by a removal that is between its LSET and its
\* LREM, was broken off there, or had its LSET run twice: whatever LREM takes
\* whose marker, none is left over by removals that went through undisturbed
\* (redis_cache.go:52-57).
MarkersOwed ==
    \A u \in Users : Cardinality(Markers(u)) <= Cardinality(Owed(u))

\* GetCart fails, when Redis answers, only while a removal of the same user is
\* under way or was broken off (handlers.go:553).
UnreadableOnlyWhileRemoving ==
    [][\A r \in Requests :
          pc[r] = "lrange" /\ resp'[r] = 500 /\ faults' = faults => Owed(req[r].user) # {}]_vars

\* An LSET took effect and no LREM will answer for it: its removal ended or died
\* before that, or had its LSET run twice.
BrokenOff(u) == \E e \in Owed(u) : e[2] > 1 \/ pc[e[1]] \in {"done", "dead"}

\* A cart with a marker in it gets rid of it, unless a removal was broken off:
\* concurrent removals of one user sweep each other's markers, but all of them,
\* and one that is refused for its index leaves none (redis_cache.go:57).
MarkersGo ==
    \A u \in Users :
        Markers(u) # {} ~> Markers(u) = {} \/ BrokenOff(u)

\* Every request that was received is answered, or its process died.
EveryCartRequestEnds ==
    \A r \in Requests : pc[r] # "idle" ~> pc[r] \in {"done", "dead"}

\* The comment on RemoveItemByIndex (redis_cache.go:48), and 200 OK: an
\* acknowledged removal took its item out.  In a cart that was never cleared
\* what is left is what was added without what was removed.
AcknowledgedRemovalsRemove ==
    \A u \in Users :
        LET mine(op, status) == {r \in Requests : /\ req[r] # NoRequest
                                                  /\ req[r].op = op /\ req[r].user = u
                                                  /\ resp[r] = status}
        IN  /\ Owed(u) = {}
            /\ mine("clear", 200) = {}
            => Len(cart[u]) = Cardinality(mine("add", 201)) - Cardinality(mine("remove", 200))

\* README.md:147, "GET /cart - retrieve user's cart items": it does, as long as
\* Redis answers.
CartIsRetrieved ==
    \A r \in Requests :
        req[r] # NoRequest /\ req[r].op = "get" /\ pc[r] = "done" => resp[r] = 200

--------------------------------------------------------------------------------
\* The store these commands implement.

\* The items among the first i places of a list, counted; and the items of a
\* list without its markers, in order: the k-th is where the count reaches k.
ItemsUpTo(l, i) == Cardinality({j \in 1..i : l[j] # Marker})
ItemPlace(l, k) == CHOOSE i \in DOMAIN l : l[i] # Marker /\ ItemsUpTo(l, i) = k
Visible(l)      == [k \in 1..ItemsUpTo(l, Len(l)) |-> l[ItemPlace(l, k)]]

Store == INSTANCE CartStore WITH
    Wishes   <- UNION {Inputs[r] : r \in Requests},
    Unasked  <- NoRequest,
    Sendings <- MaxResends + 1,
    list     <- [u \in Users |-> Visible(cart[u])],
    asked    <- req,
    effects  <- applied,
    acked    <- {r \in Requests : resp[r] \in {200, 201}}

\* Seen without its markers a cart changes by its user's requests only, as each
\* of them may; no removal takes out two items, an item comes in no more often
\* than its command was sent, and LREM takes out nothing that can be seen.
ImplementsCartStore == Store!Spec

\* The true part of what an acknowledged removal promises: an item that was added
\* and is not seen any more was taken out by a removal, or the cart was cleared;
\* a removal may take out none, but never two, and its LREM no item (compare
\* AcknowledgedRemovalsRemove, redis_cache.go:48-57).
NothingLost == Store!NothingLost

\* A cart shows what its own user put in, and an item twice only if LPUSH ran
\* twice: for two requests, or for one whose answer was lost (redis_cache.go:30-36).
NothingForged == Store!NothingForged

\* "Removes item at index" (redis_cache.go:48), as far as it goes: the LSET of a
\* removal takes out the item its user sees at that place, when no removal of the same
\* user is under way or was broken off.
RemovalTakesItsItem ==
    [][\A r \in Requests :
          LET u     == req[r].user
              place == req[r].index + 1
          IN  pc[r] = "lset" /\ pc'[r] = "lrem" /\ Owed(u) = {} =>
                 /\ place \in DOMAIN Visible(cart[u])
                 /\ Visible(cart'[u]) = RemoveAt(Visible(cart[u]), place)]_vars
================================================================================
