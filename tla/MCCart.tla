--------------------------------- MODULE MCCart --------------------------------
(***************************************************************************)
(* Small instances of Cart: Ann adds items, removes by index, reads and    *)
(* clears in requests that overlap; Bob has a cart of his own.             *)
(***************************************************************************)
EXTENDS Cart

CONSTANTS r1, r2, r3, r4, Ann, Bob, book, song

Put(u, item)          == [op |-> "add", user |-> u, item |-> item]
Get(u, limit, offset) == [op |-> "get", user |-> u, limit |-> limit, offset |-> offset]
Drop(u, index)        == [op |-> "remove", user |-> u, index |-> index]
Empty(u)              == [op |-> "clear", user |-> u]

\* Two additions, or one and a removal; a removal at either end, out of range
\* or malformed; a removal, a clearing or a page of either user's cart.
Overlapping ==
    [r \in Requests |->
        CASE r = r1 -> {Put(Ann, book)}
          [] r = r2 -> {Put(Ann, song), Put(Bob, song), Put(Ann, NoItem), Drop(Ann, 0)}
          [] r = r3 -> {Drop(Ann, 0), Drop(Ann, 1), Drop(Ann, -1)}
          [] OTHER  -> {Drop(Ann, 0), Drop(Bob, 0), Empty(Ann), Get(Ann, 0, -1)}]

\* Two items, and two removals of the first.
SameIndex ==
    [r \in Requests |->
        CASE r = r1 -> {Put(Ann, book)}
          [] r = r2 -> {Put(Ann, song)}
          [] OTHER  -> {Drop(Ann, 0)}]

\* Two items, and a page of the cart while the first is removed.
ReadWhileRemoving ==
    [r \in Requests |->
        CASE r = r1 -> {Put(Ann, book)}
          [] r = r2 -> {Put(Ann, song)}
          [] r = r3 -> {Drop(Ann, 0)}
          [] OTHER  -> {Get(Ann, 50, 0)}]

\* What a user sees of a list is the list without its markers: Visible, which
\* counts places, says what filtering says.
ASSUME VisibleIsFiltering ==
    \A l \in SeqOf({book, song, Marker}, 5) : Visible(l) = SelectSeq(l, LAMBDA x : x # Marker)
================================================================================
