--------------------------- MODULE SurveyReadsProofs ---------------------------
(***************************************************************************)
(* Proofs of what readers are shown while surveys come and go, for any     *)
(* number of readers, surveys, submissions, and any page size.             *)
(*                                                                         *)
(* The argument: an id is spent once, so that what a read found is there   *)
(* still, or its survey is gone for good (Known, Gone).  A listing shows   *)
(* its rows in the order they were found (Listing); a survey that stays    *)
(* has as many questions shown and to come as it has (Retrieval); and what *)
(* a client that pages did not get yet is behind its offset, since what    *)
(* arrives before it only moves it further back (Paging).                  *)
(***************************************************************************)
EXTENDS SurveyReads, TLAPS, FiniteSetTheorems

\* The survey is gone, and its id will not be used again.
Gone(id) == id \in spent /\ ~Live(id)

\* A submission that was accepted: it is there, or its survey is gone.
Known(x) ==
    /\ x \in Submissions
    /\ x.id \in spent
    /\ x.id \in DOMAIN stamp
    /\ \/ x \in accepted
       \/ Gone(x.survey) /\ \A y \in accepted : y.id # x.id

StoreOK ==
    /\ IsFiniteSet(live)
    /\ \A s \in live : s.id \in spent
    /\ \A x \in accepted :
          /\ x.id \in spent
          /\ \E s \in live : s.id = x.survey /\ Store!Answered(x.answers, s.questions)
    /\ \A x, y \in accepted : x.id = y.id => x = y

\* The queries of each handler.
Queries(op) ==
    CASE op = "surveys"     -> {"surveys"}
      [] op = "survey"      -> {"survey", "questions", "choices"}
      [] op = "submissions" -> {"submissions", "details"}
      [] op = "mine"        -> {"mine", "details"}
      [] op = "catalog"     -> {"exists", "page", "details"}
      [] op = "answers"     -> {"exists", "page", "joined"}

IsList(s) == s \in Seq(Range(s))

\* What each client has is what its handler has so far.
Staged(r) ==
    /\ IsList(rows[r]) /\ IsList(shown[r])
    /\ pc[r] \in {"idle", "done"} \/ pc[r] \in Queries(req[r].op)
    /\ pc[r] = "idle" => shown[r] = << >> /\ offset[r] = 0
    /\ pc[r] \notin {"choices", "details", "joined", "done"} => rows[r] = << >>
    /\ pc[r] \in {"questions", "survey", "submissions", "mine"} => shown[r] = << >>
    /\ resp[r] = 200 => rows[r] = << >>
    /\ \A x \in first[r] : Known(x)

Asks(r, ops) == pc[r] # "idle" /\ req[r].op \in ops

MaySee(in, x) ==
    /\ IF in.op = "mine" THEN x.user = in.id ELSE x.survey = in.id
    /\ x.user = in.user \/ in.user \in Admins

NotOlder(x, y) == stamp[x.id] >= stamp[y.id]

Sorted(s) == \A i, j \in DOMAIN s : i < j => NotOlder(s[i], s[j])

Listing(r) ==
    Asks(r, {"submissions", "mine"}) =>
        /\ req[r].op = "mine" /\ pc[r] # "done" => req[r].user \in Admins \/ req[r].user = req[r].id
        /\ \A x \in Range(rows[r]) : Known(x) /\ MaySee(req[r], x)
        /\ \A x \in Range(shown[r]) :
              /\ MaySee(req[r], x)
              /\ x.id \in DOMAIN stamp
              /\ Whole(x) \/ (Bare(x) /\ Gone(x.survey))
        /\ Sorted(rows[r]) /\ Sorted(shown[r])
        /\ \A x \in Range(shown[r]), y \in Range(rows[r]) : NotOlder(x, y)

\* The questions of a survey, and what is shown of them when their choices are gone.
QuestionsOf(id) == Published(id).questions
PartsOf(id)     == QuestionsOf(id) \cup {[q EXCEPT !.choices = {}] : q \in QuestionsOf(id)}

Retrieving(r) == Asks(r, {"survey"}) /\ (pc[r] \in {"questions", "choices"} \/ resp[r] = 200)
Retrieved(r) ==
    /\ \E s \in Surveys : s.id = req[r].id
    /\ req[r].id \in spent
    /\ Range(rows[r]) \subseteq QuestionsOf(req[r].id)
    /\ Range(shown[r]) \subseteq PartsOf(req[r].id)
    /\ Live(req[r].id) /\ pc[r] # "questions" =>
          /\ Range(shown[r]) \cup Range(rows[r]) = QuestionsOf(req[r].id)
          /\ Len(shown[r]) + Len(rows[r]) = Cardinality(QuestionsOf(req[r].id))
Retrieval(r) == Retrieving(r) => Retrieved(r)

\* What a client that pages asked about, and what there is of it.
About(in, x) == IF in.op = "catalog" THEN x.survey = in.id
                ELSE \E a \in x.answers : a.question = in.id
Found(in)    == {x \in accepted : About(in, x)}
Newer(in, x) == {y \in Found(in) : stamp[y.id] > stamp[x.id]}

\* No other has its time.
Alone(x) == \A y \in Submissions \ {x} : y.id \in DOMAIN stamp => stamp[y.id] # stamp[x.id]

Has(s, x) == \E y \in Range(s) : y.id = x.id

Paging(r) ==
    Asks(r, {"catalog", "answers"}) =>
        /\ Range(rows[r]) \subseteq Submissions
        /\ \A x \in first[r] :
              About(req[r], x) /\ Alone(x) /\ Live(x.survey) =>
                  \/ Has(shown[r], x)
                  \/ Has(rows[r], x)
                  \/ resp[r] # 200 /\ offset[r] <= Cardinality(Newer(req[r], x))

\* The type invariant, of the store and of one client.
StoreTyped ==
    /\ live \subseteq Surveys
    /\ accepted \subseteq Submissions
    /\ clock \in 0..MaxClock
    /\ stamp \in [DOMAIN stamp -> 0..clock]
    /\ {x.id : x \in accepted} \subseteq DOMAIN stamp

ReaderTyped(r) ==
    /\ pc[r] \in {"idle", "surveys", "survey", "questions", "choices", "submissions",
                  "mine", "exists", "page", "details", "joined", "done"}
    /\ pc[r] # "idle" => req[r] \in Inputs[r]
    /\ first[r] \subseteq Submissions
    /\ offset[r] \in 0..Cardinality(Submissions)
    /\ resp[r] \in {0, 200, 403, 404, 500}
    /\ resp[r] = 0 <=> pc[r] # "done"
    /\ pc[r] # "idle" /\ req[r].op \in {"submissions", "mine"} =>
          Len(shown[r]) + Len(rows[r]) <= Cardinality(Submissions)

ReaderOK(r) == ReaderTyped(r) /\ Staged(r) /\ Listing(r) /\ Retrieval(r) /\ Paging(r)

Tables ==
    /\ DOMAIN req = Readers /\ DOMAIN pc = Readers /\ DOMAIN offset = Readers
    /\ DOMAIN rows = Readers /\ DOMAIN shown = Readers /\ DOMAIN first = Readers
    /\ DOMAIN resp = Readers

ReadInv ==
    /\ Tables
    /\ StoreTyped
    /\ StoreOK
    /\ \A r \in Readers : ReaderOK(r)

--------------------------------------------------------------------------------
\* Lists.

\* A sequence is a list of its elements.
LEMMA ListOf ==
    ASSUME NEW S, NEW s \in Seq(S)
    PROVE  s \in Seq(Range(s))
<1>1. s = [i \in 1..Len(s) |-> s[i]] /\ Len(s) \in Nat /\ DOMAIN s = 1..Len(s)
  OBVIOUS
<1>2. \A i \in 1..Len(s) : s[i] \in Range(s)
  BY <1>1, Zenon DEF Range
<1>3. s \in [1..Len(s) -> Range(s)]
  BY <1>1, <1>2
<1> QED
  BY <1>1, <1>3

\* An element more at the end of a list.
LEMMA AppendList ==
    ASSUME NEW s, IsList(s), NEW x
    PROVE  /\ IsList(Append(s, x))
           /\ Range(Append(s, x)) = Range(s) \cup {x}
           /\ Len(s) \in Nat
           /\ Len(Append(s, x)) = Len(s) + 1
           /\ DOMAIN s = 1..Len(s)
           /\ DOMAIN Append(s, x) = 1..(Len(s) + 1)
           /\ \A i \in 1..Len(s) : Append(s, x)[i] = s[i]
           /\ Append(s, x)[Len(s) + 1] = x
<1> DEFINE S == Range(s) \cup {x}
           t == Append(s, x)
<1>1. s \in Seq(S) /\ x \in S
  BY DEF IsList
<1>2. /\ t \in Seq(S)
      /\ Len(s) \in Nat
      /\ Len(t) = Len(s) + 1
      /\ DOMAIN s = 1..Len(s)
      /\ DOMAIN t = 1..(Len(s) + 1)
      /\ \A i \in 1..Len(s) : t[i] = s[i]
      /\ t[Len(s) + 1] = x
  BY <1>1
<1>3. Range(t) = S
  BY <1>2 DEF Range
<1>4. t \in Seq(Range(t))
  BY <1>2, <1>3
<1> QED
  BY <1>2, <1>3, <1>4 DEF IsList

\* A list without its first element.
LEMMA TailList ==
    ASSUME NEW s, IsList(s), s # << >>
    PROVE  /\ IsList(Tail(s))
           /\ Head(s) = s[1]
           /\ Head(s) \in Range(s)
           /\ Range(s) = {Head(s)} \cup Range(Tail(s))
           /\ Len(s) \in Nat \ {0}
           /\ Len(Tail(s)) = Len(s) - 1
           /\ DOMAIN s = 1..Len(s)
           /\ DOMAIN Tail(s) = 1..(Len(s) - 1)
           /\ \A i \in 1..(Len(s) - 1) : Tail(s)[i] = s[i + 1]
<1> DEFINE S == Range(s)
           t == Tail(s)
<1>1. s \in Seq(S)
  BY DEF IsList
<1>2. /\ t \in Seq(S)
      /\ Head(s) = s[1]
      /\ Len(s) \in Nat \ {0}
      /\ Len(t) = Len(s) - 1
      /\ DOMAIN s = 1..Len(s)
      /\ DOMAIN t = 1..(Len(s) - 1)
      /\ \A i \in 1..(Len(s) - 1) : t[i] = s[i + 1]
  BY <1>1
<1>3. Range(s) = {Head(s)} \cup Range(t)
  <2>1. ASSUME NEW i \in DOMAIN s
        PROVE  s[i] \in {Head(s)} \cup Range(t)
    <3>1. CASE i = 1
      BY <3>1, <1>2
    <3>2. CASE i # 1
      <4>1. i - 1 \in DOMAIN t /\ t[i - 1] = s[i]
        BY <3>2, <2>1, <1>2
      <4> QED
        BY <4>1 DEF Range
    <3> QED
      BY <3>1, <3>2
  <2>2. ASSUME NEW i \in DOMAIN t
        PROVE  t[i] \in Range(s)
    <3>1. i + 1 \in DOMAIN s /\ t[i] = s[i + 1]
      BY <2>2, <1>2
    <3> QED
      BY <3>1 DEF Range
  <2>3. 1 \in DOMAIN s
    BY <1>2
  <2> QED
    BY <2>1, <2>2, <2>3, <1>2 DEF Range
<1>4. t \in Seq(Range(t))
  BY <1>2, ListOf
<1> QED
  BY <1>2, <1>3, <1>4 DEF IsList

\* The empty list.
LEMMA EmptyList == IsList(<< >>) /\ Range(<< >>) = {} /\ Len(<< >>) = 0
<1>1. DOMAIN << >> = {} /\ << >> \in Seq({}) /\ Len(<< >>) = 0
  OBVIOUS
<1> QED
  BY <1>1 DEF IsList, Range

\* Rows in any order are a list of them all, each once.
LEMMA OrderList ==
    ASSUME NEW S, IsFiniteSet(S), NEW s \in AnyOrder(S)
    PROVE  /\ IsList(s)
           /\ Range(s) = S
           /\ Cardinality(S) \in Nat
           /\ Len(s) = Cardinality(S)
           /\ DOMAIN s = 1..Len(s)
           /\ \A i, j \in DOMAIN s : s[i] = s[j] => i = j
<1> DEFINE n == Cardinality(S)
<1>1. n \in Nat
  BY FS_CardinalityType
<1>2. s \in [1..n -> S] /\ IsInjective(s)
  BY DEF AnyOrder
<1>3. s \in Injection(1..n, S)
  BY <1>2 DEF Injection
<1>4. IsFiniteSet(1..n) /\ Cardinality(1..n) = n
  BY <1>1, FS_Interval
<1>5. s \in Surjection(1..n, S)
  BY <1>3, <1>4, FS_Injection
<1>6. Range(s) = S
  BY <1>2, <1>5 DEF Surjection, Range
<1>7. s \in Seq(S) /\ Len(s) = n /\ DOMAIN s = 1..n
  BY <1>1, <1>2
<1> QED
  BY <1>1, <1>2, <1>6, <1>7 DEF IsList, IsInjective

\* The smaller of two numbers.
LEMMA MinOfTwo ==
    ASSUME NEW a \in Nat, NEW b \in Nat
    PROVE  Min({a, b}) = IF a <= b THEN a ELSE b
<1> DEFINE m == IF a <= b THEN a ELSE b
<1>1. m \in {a, b} /\ \A y \in {a, b} : m <= y
  OBVIOUS
<1>2. ASSUME NEW x \in {a, b}, \A y \in {a, b} : x <= y
      PROVE  x = m
  BY <1>2
<1> QED
  BY <1>1, <1>2, Zenon DEF Min

\* A page has the rows from its offset on, if there are any.
LEMMA SubSeqIs ==
    ASSUME NEW S, NEW s \in Seq(S), NEW o \in Nat, NEW m \in Nat, m <= Len(s),
           NEW n \in Nat, n = IF o < m THEN m - o ELSE 0
    PROVE  /\ SubSeq(s, o + 1, m) \in Seq(S)
           /\ Len(SubSeq(s, o + 1, m)) = n
           /\ \A k \in 1..n : SubSeq(s, o + 1, m)[k] = s[o + k]
<1>1. Len(s) \in Nat /\ \A i \in 1..Len(s) : s[i] \in S
  OBVIOUS
<1>2. \A k \in 1..n : o + k \in 1..Len(s) /\ k + (o + 1) - 1 = o + k
  BY <1>1
<1>3. SubSeq(s, o + 1, m) \in Seq(S)
  <2>1. \A i \in (o + 1)..m : s[i] \in S
    BY <1>1
  <2> QED
    BY <2>1, <1>1
<1>4. Len(SubSeq(s, o + 1, m)) = n
  BY <1>1
<1>5. \A k \in 1..n : SubSeq(s, o + 1, m)[k] = s[o + k]
  BY <1>1, <1>2, <1>3, <1>4
<1> QED
  BY <1>3, <1>4, <1>5

\* A page, of at most l rows from the offset o on: what it does not hold, and is not
\* before it, is behind it.
LEMMA PageOf ==
    ASSUME NEW s, IsList(s), NEW o \in Nat, NEW l \in Nat \ {0}
    PROVE  LET pg == SubSeq(s, o + 1, Min({o + l, Len(s)}))
           IN  /\ IsList(pg)
               /\ Range(pg) \subseteq Range(s)
               /\ Len(pg) \in Nat
               /\ pg # << >> => o + Len(pg) <= Len(s)
               /\ \A p \in 1..Len(s) : o < p => pg # << >> /\ (s[p] \in Range(pg) \/ o + Len(pg) < p)
<1>1. s \in Seq(Range(s)) /\ Len(s) \in Nat
  BY DEF IsList
<1>2. PICK L \in Nat : L = Len(s)
  BY <1>1
<1>3. PICK m \in Nat : m = Min({o + l, L}) /\ m <= L /\ (m = L \/ m = o + l)
  <2>1. o + l \in Nat
    OBVIOUS
  <2>2. Min({o + l, L}) = IF o + l <= L THEN o + l ELSE L
    BY <2>1, <1>2, MinOfTwo
  <2> QED
    BY <2>1, <2>2, <1>2
<1>4. PICK n \in Nat : n = IF o < m THEN m - o ELSE 0
  BY <1>3
<1>5. PICK pg : pg = SubSeq(s, o + 1, m)
  OBVIOUS
<1>6. pg \in Seq(Range(s)) /\ Len(pg) = n /\ \A k \in 1..n : pg[k] = s[o + k]
  <2>1. m <= Len(s)
    BY <1>2, <1>3
  <2> QED
    BY <1>1, <2>1, <1>4, <1>5, SubSeqIs, SMTT(30)
<1>7. pg # << >> <=> n # 0
  <2>1. n # 0 => pg # << >>
    BY <1>6
  <2>2. n = 0 => pg = << >>
    BY <1>6
  <2> QED
    BY <2>1, <2>2
<1>8. DOMAIN pg = 1..n
  BY <1>6
<1>9. \A k \in 1..n : o + k \in 1..L
  BY <1>3, <1>4
<1>10. DOMAIN s = 1..L
  BY <1>1, <1>2
<1>11. Range(pg) \subseteq Range(s)
  BY <1>6, <1>8, <1>9, <1>10, Zenon DEF Range
<1>12. n # 0 => o + n <= L
  BY <1>3, <1>4
<1>13. ASSUME NEW p \in 1..L, o < p
       PROVE  n # 0 /\ (s[p] \in Range(pg) \/ o + n < p)
  <2>1. n # 0
    BY <1>3, <1>4, <1>13
  <2>2. CASE p <= m
    <3>1. p - o \in 1..n /\ o + (p - o) = p
      BY <2>2, <1>3, <1>4, <1>13
    <3>2. pg[p - o] = s[p] /\ p - o \in DOMAIN pg
      BY <3>1, <1>6, <1>8
    <3> QED
      BY <3>2, <2>1, Zenon DEF Range
  <2>3. CASE m < p
    <3>1. o + n < p
      BY <2>1, <2>3, <1>3, <1>4
    <3> QED
      BY <2>1, <3>1
  <2> QED
    BY <2>2, <2>3
<1>14. IsList(pg)
  BY <1>6, ListOf DEF IsList
<1>15. pg = SubSeq(s, o + 1, Min({o + l, Len(s)})) /\ Len(pg) = n
  BY <1>2, <1>3, <1>5, <1>6
<1> QED
  BY <1>2, <1>7, <1>11, <1>12, <1>13, <1>14, <1>15

\* In a list sorted by time a submission that shares its time with no other is
\* behind exactly those that are newer.
LEMMA Position ==
    ASSUME NEW F, IsFiniteSet(F), \A y \in F : stamp[y.id] \in Nat,
           NEW xs \in NewestFirst(F),
           NEW x \in F, \A y \in F \ {x} : stamp[y.id] # stamp[x.id]
    PROVE  \E p \in 1..Len(xs) :
               /\ xs[p] = x
               /\ Cardinality({y \in F : stamp[y.id] > stamp[x.id]}) = p - 1
<1> DEFINE N == {y \in F : stamp[y.id] > stamp[x.id]}
<1>1. /\ Range(xs) = F
      /\ Cardinality(F) \in Nat
      /\ Len(xs) = Cardinality(F)
      /\ DOMAIN xs = 1..Len(xs)
      /\ \A i, j \in DOMAIN xs : xs[i] = xs[j] => i = j
  BY OrderList DEF NewestFirst
<1>2. \A i, j \in DOMAIN xs : i < j => stamp[xs[i].id] >= stamp[xs[j].id]
  BY DEF NewestFirst
<1>3. PICK p \in 1..Len(xs) : xs[p] = x
  BY <1>1 DEF Range
<1> DEFINE f == [i \in 1..(p - 1) |-> xs[i]]
<1>4. \A i \in DOMAIN xs : xs[i] \in F
  BY <1>1 DEF Range
<1>5. \A i \in 1..(p - 1) : i \in DOMAIN xs /\ i < p /\ p \in DOMAIN xs
  BY <1>1, <1>3
<1>6. \A i \in 1..(p - 1) : xs[i] \in N
  <2> SUFFICES ASSUME NEW i \in 1..(p - 1) PROVE xs[i] \in N
    OBVIOUS
  <2>1. i \in DOMAIN xs /\ i < p /\ p \in DOMAIN xs
    BY <1>5
  <2>2. stamp[xs[i].id] >= stamp[x.id]
    BY <2>1, <1>2, <1>3
  <2>3. i # p
    BY <2>1, <1>1, <1>3
  <2>4. xs[i] # x
    BY <2>1, <2>3, <1>1, <1>3
  <2>5. xs[i] \in F /\ stamp[xs[i].id] # stamp[x.id]
    BY <2>1, <2>4, <1>4
  <2>6. stamp[xs[i].id] \in Nat /\ stamp[x.id] \in Nat
    BY <2>5
  <2> QED
    BY <2>2, <2>5, <2>6
<1>7. \A y \in N : \E i \in 1..(p - 1) : f[i] = y
  <2> SUFFICES ASSUME NEW y \in N PROVE \E i \in 1..(p - 1) : f[i] = y
    OBVIOUS
  <2>1. PICK i \in DOMAIN xs : xs[i] = y
    BY <1>1 DEF Range
  <2>2. stamp[y.id] > stamp[x.id] /\ stamp[y.id] \in Nat /\ stamp[x.id] \in Nat
    OBVIOUS
  <2>3. ~(p < i)
    <3>1. p < i => stamp[x.id] >= stamp[y.id]
      BY <2>1, <1>1, <1>2, <1>3
    <3> QED
      BY <3>1, <2>2
  <2>4. i # p
    BY <2>1, <2>2, <1>3
  <2>5. i \in 1..(p - 1)
    BY <2>1, <2>3, <2>4, <1>1, <1>3
  <2> QED
    BY <2>1, <2>5
<1>8. f \in Injection(1..(p - 1), N)
  <2>1. f \in [1..(p - 1) -> N]
    BY <1>6
  <2>2. \A i, j \in 1..(p - 1) : f[i] = f[j] => i = j
    BY <1>1, <1>5
  <2> QED
    BY <2>1, <2>2 DEF Injection, IsInjective
<1>9. f \in Surjection(1..(p - 1), N)
  BY <1>7, <1>8 DEF Surjection, Injection
<1>10. IsFiniteSet(1..(p - 1)) /\ Cardinality(1..(p - 1)) = p - 1
  <2>1. p - 1 \in Nat
    BY <1>1, <1>3
  <2>2. 1 \in Int /\ p - 1 \in Int
    BY <2>1
  <2>3. Cardinality(1..(p - 1)) = IF 1 > p - 1 THEN 0 ELSE (p - 1) - 1 + 1
    BY <2>2, FS_Interval
  <2> QED
    BY <2>1, <2>2, <2>3, FS_Interval
<1>11. Cardinality(N) = p - 1
  BY <1>8, <1>9, <1>10, FS_Surjection
<1> QED
  BY <1>3, <1>11

\* The first of the rows comes to what is shown, and the order stays.
LEMMA ShowNext ==
    ASSUME NEW s, IsList(s), Sorted(s),
           NEW t, IsList(t), Sorted(t), t # << >>,
           \A a \in Range(s), b \in Range(t) : NotOlder(a, b),
           NEW x, x.id = Head(t).id
    PROVE  /\ Sorted(Append(s, x))
           /\ Sorted(Tail(t))
           /\ \A a \in Range(Append(s, x)), b \in Range(Tail(t)) : NotOlder(a, b)
<1> DEFINE u == Append(s, x)
           v == Tail(t)
           h == Head(t)
<1>1. /\ Range(u) = Range(s) \cup {x}
      /\ Len(s) \in Nat
      /\ DOMAIN s = 1..Len(s)
      /\ DOMAIN u = 1..(Len(s) + 1)
      /\ \A i \in 1..Len(s) : u[i] = s[i]
      /\ u[Len(s) + 1] = x
  BY AppendList
<1>2. /\ h = t[1]
      /\ h \in Range(t)
      /\ Range(t) = {h} \cup Range(v)
      /\ Len(t) \in Nat \ {0}
      /\ DOMAIN t = 1..Len(t)
      /\ DOMAIN v = 1..(Len(t) - 1)
      /\ \A i \in 1..(Len(t) - 1) : v[i] = t[i + 1]
  BY TailList
<1> HIDE DEF u, v, h
<1>3. \A a : NotOlder(a, h) => NotOlder(a, x)
  BY DEF NotOlder, h
<1>4. \A b : NotOlder(h, b) => NotOlder(x, b)
  BY DEF NotOlder, h
<1>5. Sorted(u)
  <2> SUFFICES ASSUME NEW i \in DOMAIN u, NEW j \in DOMAIN u, i < j
               PROVE  NotOlder(u[i], u[j])
    BY DEF Sorted
  <2>1. i \in DOMAIN s /\ u[i] = s[i] /\ s[i] \in Range(s)
    <3>1. i \in DOMAIN s /\ u[i] = s[i]
      BY <1>1
    <3> QED
      BY <3>1 DEF Range
  <2>2. CASE j = Len(s) + 1
    <3>1. NotOlder(s[i], h)
      BY <2>1, <1>2
    <3> QED
      BY <3>1, <2>1, <2>2, <1>1, <1>3
  <2>3. CASE j # Len(s) + 1
    <3>1. j \in DOMAIN s /\ u[j] = s[j]
      BY <2>3, <1>1
    <3> QED
      BY <3>1, <2>1 DEF Sorted
  <2> QED
    BY <2>2, <2>3
<1>6. \A j \in DOMAIN v : j + 1 \in DOMAIN t /\ v[j] = t[j + 1] /\ 1 \in DOMAIN t /\ 1 < j + 1
  BY <1>2
<1>7. Sorted(v)
  <2> SUFFICES ASSUME NEW i \in DOMAIN v, NEW j \in DOMAIN v, i < j
               PROVE  NotOlder(v[i], v[j])
    BY DEF Sorted
  <2>1. i + 1 < j + 1
    BY <1>2
  <2> QED
    BY <2>1, <1>6 DEF Sorted
<1>8. ASSUME NEW a \in Range(u), NEW b \in Range(v)
      PROVE  NotOlder(a, b)
  <2>1. CASE a \in Range(s)
    BY <2>1, <1>2
  <2>2. CASE a = x
    <3>1. PICK j \in DOMAIN v : b = v[j]
      BY DEF Range
    <3>2. NotOlder(t[1], t[j + 1])
      BY <1>6 DEF Sorted
    <3>3. NotOlder(h, b)
      BY <3>1, <3>2, <1>2, <1>6
    <3> QED
      BY <3>3, <2>2, <1>4
  <2> QED
    BY <2>1, <2>2, <1>1
<1> QED
  BY <1>5, <1>7, <1>8 DEF u, v

--------------------------------------------------------------------------------
\* Writers.

\* What a writer's step never takes back.
Evolves ==
    /\ spent \subseteq spent'
    /\ \A id \in spent : Live(id)' => Live(id)
    /\ DOMAIN stamp \subseteq DOMAIN stamp'
    /\ \A id \in DOMAIN stamp : stamp'[id] = stamp[id]
    /\ \A x : Known(x) => Known(x)'
    /\ \A in, x : Known(x) /\ About(in, x) /\ Live(x.survey)' =>
                     Cardinality(Newer(in, x)) <= Cardinality(Newer(in, x)')

\* What stays found stays newer.
LEMMA NewerGrows ==
    ASSUME StoreTyped, StoreTyped', DOMAIN stamp \subseteq DOMAIN stamp',
           \A id \in DOMAIN stamp : stamp'[id] = stamp[id],
           NEW in, NEW x, x.id \in DOMAIN stamp, Found(in) \subseteq Found(in)'
    PROVE  Cardinality(Newer(in, x)) <= Cardinality(Newer(in, x)')
<1>1. Newer(in, x) \subseteq Newer(in, x)'
  <2> SUFFICES ASSUME NEW y \in Newer(in, x) PROVE y \in Newer(in, x)'
    OBVIOUS
  <2>1. y \in Found(in) /\ y \in Found(in)' /\ stamp[y.id] > stamp[x.id]
    BY DEF Newer
  <2>2. y.id \in DOMAIN stamp
    BY <2>1 DEF Found, StoreTyped
  <2>3. stamp'[y.id] > stamp'[x.id]
    BY <2>1, <2>2
  <2> QED
    BY <2>1, <2>3 DEF Newer
<1>2. Newer(in, x)' \subseteq Submissions
  BY DEF Newer, Found, StoreTyped
<1>3. IsFiniteSet(Newer(in, x)')
  BY <1>2, ReadStoreAssumption, FS_Subset
<1> QED
  BY <1>1, <1>3, FS_Subset

\* A submission whose survey is live is there.
LEMMA KnownIsThere ==
    ASSUME NEW x, Known(x), Live(x.survey)
    PROVE  x \in accepted
BY DEF Known, Gone

\* The survey of a submission that was accepted has a spent id.
LEMMA KnownSurvey ==
    ASSUME StoreOK, NEW x, Known(x)
    PROVE  x.survey \in spent
BY DEF StoreOK, Known, Gone

\* Time passes.
LEMMA TickEvolves ==
    ASSUME StoreTyped, StoreOK, Tick
    PROVE  StoreTyped' /\ StoreOK' /\ Evolves /\ UNCHANGED readers
<1> USE DEF Tick, store, readers
<1>1. StoreTyped'
  BY MaxClockAssumption DEF StoreTyped
<1>2. StoreOK'
  BY DEF StoreOK
<1>3. \A x : Known(x) => Known(x)'
  BY DEF Known, Gone, Live
<1>4. \A in : Found(in)' = Found(in)
  BY DEF Found
<1>5. \A in, x : Known(x) => Cardinality(Newer(in, x)) <= Cardinality(Newer(in, x)')
  BY <1>1, <1>4, NewerGrows DEF Known
<1> QED
  BY <1>1, <1>2, <1>3, <1>5 DEF Evolves, Live

\* A submission is prepared.
LEMMA PrepareEvolves ==
    ASSUME StoreTyped, StoreOK, NEW z \in Submissions, Prepare(z)
    PROVE  StoreTyped' /\ StoreOK' /\ Evolves /\ UNCHANGED readers
<1>1. /\ UNCHANGED <<store, clock, readers>>
      /\ DOMAIN stamp' = DOMAIN stamp \cup {z.id}
      /\ \A id \in DOMAIN stamp : stamp'[id] = stamp[id]
      /\ z.id \notin DOMAIN stamp
      /\ stamp'[z.id] = clock
      /\ stamp' = [id \in DOMAIN stamp' |-> stamp'[id]]
  BY DEF Prepare
<1>2. StoreTyped'
  <2>1. stamp' \in [DOMAIN stamp' -> 0..clock']
    BY <1>1, MaxClockAssumption DEF StoreTyped
  <2> QED
    BY <1>1, <2>1 DEF StoreTyped, store
<1>3. StoreOK'
  BY <1>1 DEF StoreOK, store
<1>4. \A x : Known(x) => Known(x)'
  BY <1>1 DEF Known, Gone, Live, store
<1>5. \A in : Found(in)' = Found(in)
  BY <1>1 DEF Found, store
<1>6. \A in, x : Known(x) => Cardinality(Newer(in, x)) <= Cardinality(Newer(in, x)')
  BY <1>1, <1>2, <1>5, NewerGrows DEF Known
<1> QED
  BY <1>1, <1>2, <1>3, <1>4, <1>6 DEF Evolves, Live, store

\* A survey is published, under an id of its own.
LEMMA PublishEvolves ==
    ASSUME StoreTyped, StoreOK, NEW s \in Surveys, Store!Publish(s), UNCHANGED <<clock, stamp, readers>>
    PROVE  StoreTyped' /\ StoreOK' /\ Evolves /\ UNCHANGED readers
<1>1. /\ s.id \notin spent
      /\ live' = live \cup {s}
      /\ spent' = spent \cup {s.id}
      /\ accepted' = accepted
      /\ clock' = clock /\ stamp' = stamp
  BY DEF Store!Publish
<1>2. StoreTyped'
  BY <1>1 DEF StoreTyped
<1>3. StoreOK'
  <2>1. IsFiniteSet(live')
    BY <1>1, FS_AddElement DEF StoreOK
  <2> QED
    BY <1>1, <2>1 DEF StoreOK
<1>4. \A id \in spent : Live(id)' => Live(id)
  BY <1>1 DEF Live
<1>5. \A x : Known(x) => Known(x)'
  BY <1>1, <1>4 DEF Known, Gone
<1>6. \A in : Found(in)' = Found(in)
  BY <1>1 DEF Found
<1>7. \A in, x : Known(x) => Cardinality(Newer(in, x)) <= Cardinality(Newer(in, x)')
  BY <1>1, <1>2, <1>6, NewerGrows DEF Known
<1> QED
  BY <1>1, <1>2, <1>3, <1>4, <1>5, <1>7 DEF Evolves

\* A submission is accepted, under an id of its own.
LEMMA SubmitEvolves ==
    ASSUME StoreTyped, StoreOK, NEW z \in Submissions, z.id \in DOMAIN stamp, Store!Submit(z),
           UNCHANGED <<clock, stamp, readers>>
    PROVE  StoreTyped' /\ StoreOK' /\ Evolves /\ UNCHANGED readers
<1>1. /\ z.id \notin spent
      /\ \E s \in live : s.id = z.survey /\ Store!Answered(z.answers, s.questions)
      /\ accepted' = accepted \cup {z}
      /\ spent' = spent \cup {z.id}
      /\ live' = live
      /\ clock' = clock /\ stamp' = stamp
  BY DEF Store!Submit
<1>2. StoreTyped'
  BY <1>1 DEF StoreTyped
<1>3. StoreOK'
  BY <1>1 DEF StoreOK
<1>4. \A id : Live(id)' <=> Live(id)
  BY <1>1 DEF Live
<1>5. \A x : Known(x) => Known(x)'
  BY <1>1, <1>4 DEF Known, Gone
<1>6. \A in : Found(in) \subseteq Found(in)'
  BY <1>1 DEF Found
<1>7. \A in, x : Known(x) => Cardinality(Newer(in, x)) <= Cardinality(Newer(in, x)')
  BY <1>1, <1>2, <1>6, NewerGrows DEF Known
<1> QED
  BY <1>1, <1>2, <1>3, <1>4, <1>5, <1>7 DEF Evolves

\* Submissions that answer one question are to one survey.
LEMMA OneSurveyAsks ==
    ASSUME StoreTyped, StoreOK, NEW in, NEW x \in accepted, NEW y \in accepted, About(in, x), About(in, y)
    PROVE  x.survey = y.survey
<1>1. CASE in.op = "catalog"
  BY <1>1 DEF About
<1>2. CASE in.op # "catalog"
  <2>1. ASSUME NEW z \in accepted, About(in, z)
        PROVE  \E s \in Surveys : s.id = z.survey /\ \E q \in s.questions : q.id = in.id
    <3>1. PICK s \in live : s.id = z.survey /\ Store!Answered(z.answers, s.questions)
      BY DEF StoreOK
    <3>2. PICK a \in z.answers : a.question = in.id
      BY <1>2, <2>1 DEF About
    <3>3. PICK q \in s.questions : Store!Fits(a, q)
      BY <3>1 DEF Store!Answered
    <3> QED
      BY <3>1, <3>2, <3>3 DEF Store!Fits, StoreTyped
  <2>2. PICK s \in Surveys : s.id = x.survey /\ \E q \in s.questions : q.id = in.id
    BY <2>1
  <2>3. PICK t \in Surveys : t.id = y.survey /\ \E q \in t.questions : q.id = in.id
    BY <2>1
  <2>4. s = t
    BY <2>2, <2>3, ReadStoreAssumption
  <2> QED
    BY <2>2, <2>3, <2>4
<1> QED
  BY <1>1, <1>2

\* A survey is retracted with what was submitted to it, and with nothing else.
LEMMA RetractEvolves ==
    ASSUME StoreTyped, StoreOK, NEW s \in live, NEW u, Store!Retract(s, u),
           UNCHANGED <<clock, stamp, readers>>
    PROVE  StoreTyped' /\ StoreOK' /\ Evolves /\ UNCHANGED readers
<1>1. /\ live' = live \ {s}
      /\ accepted' = {x \in accepted : x.survey # s.id}
      /\ spent' = spent
      /\ clock' = clock /\ stamp' = stamp
  BY DEF Store!Retract
<1>2. StoreTyped'
  BY <1>1 DEF StoreTyped
<1>3. StoreOK'
  <2>1. IsFiniteSet(live')
    BY <1>1, FS_RemoveElement DEF StoreOK
  <2>2. ASSUME NEW x \in accepted'
        PROVE  \E t \in live' : t.id = x.survey /\ Store!Answered(x.answers, t.questions)
    BY <1>1 DEF StoreOK
  <2> QED
    BY <1>1, <2>1, <2>2 DEF StoreOK
<1>4. \A id : Live(id)' => Live(id)
  BY <1>1 DEF Live
<1>5. ~Live(s.id)'
  BY <1>1, ReadStoreAssumption DEF Live, StoreTyped
<1>6. ASSUME NEW x, Known(x)
      PROVE  Known(x)'
  <2>1. CASE x \in accepted /\ x.survey # s.id
    BY <1>1, <1>6, <2>1 DEF Known
  <2>2. CASE x \in accepted /\ x.survey = s.id
    <3>1. Gone(x.survey)'
      BY <1>1, <1>5, <2>2 DEF Gone, StoreOK
    <3>2. \A y \in accepted' : y.id # x.id
      BY <1>1, <2>2 DEF StoreOK
    <3> QED
      BY <1>1, <1>6, <3>1, <3>2 DEF Known
  <2>3. CASE x \notin accepted
    BY <1>1, <1>4, <1>6, <2>3 DEF Known, Gone
  <2> QED
    BY <2>1, <2>2, <2>3
<1>7. ASSUME NEW in, NEW x, Known(x), About(in, x), Live(x.survey)'
      PROVE  Cardinality(Newer(in, x)) <= Cardinality(Newer(in, x)')
  <2>1. x \in accepted
    BY <1>4, <1>7, KnownIsThere
  <2>2. x.survey # s.id
    BY <1>5, <1>7
  <2>3. Found(in) \subseteq Found(in)'
    <3>1. ASSUME NEW y \in Found(in)
          PROVE  y \in Found(in)'
      <4>1. y \in accepted /\ About(in, y)
        BY DEF Found
      <4>2. y.survey = x.survey
        BY <2>1, <4>1, <1>7, OneSurveyAsks
      <4>3. y \in accepted' /\ About(in, y)
        BY <1>1, <2>2, <4>1, <4>2
      <4> QED
        BY <4>3 DEF Found, About
    <3> QED
      BY <3>1
  <2>4. x.id \in DOMAIN stamp
    BY <1>7 DEF Known
  <2> QED
    BY <1>1, <1>2, <2>3, <2>4, NewerGrows
<1> QED
  BY <1>1, <1>2, <1>3, <1>4, <1>6, <1>7 DEF Evolves

\* No writer's step takes back what a reader relies on.
LEMMA WritersEvolve ==
    ASSUME StoreTyped, StoreOK, Tick \/ (\E x \in Submissions : Prepare(x)) \/ Write
    PROVE  StoreTyped' /\ StoreOK' /\ Evolves /\ UNCHANGED readers
<1>1. CASE Tick
  BY <1>1, TickEvolves
<1>2. CASE \E x \in Submissions : Prepare(x)
  BY <1>2, PrepareEvolves
<1>3. CASE Write
  <2> USE <1>3
  <2>1. CASE \E s \in Surveys : Store!Publish(s)
    BY <2>1, PublishEvolves DEF Write
  <2>2. CASE \E x \in Submissions : x.id \in DOMAIN stamp /\ Store!Submit(x)
    BY <2>2, SubmitEvolves DEF Write
  <2>3. CASE \E s \in live, u \in Users : Store!Retract(s, u)
    BY <2>3, RetractEvolves DEF Write
  <2> QED
    BY <2>1, <2>2, <2>3 DEF Write
<1> QED
  BY <1>1, <1>2, <1>3

--------------------------------------------------------------------------------
\* Clients that do not move.

Same(r) ==
    /\ req'[r] = req[r] /\ pc'[r] = pc[r] /\ offset'[r] = offset[r]
    /\ rows'[r] = rows[r] /\ shown'[r] = shown[r] /\ first'[r] = first[r]
    /\ resp'[r] = resp[r]

\* There are finitely many newer submissions.
LEMMA NewerFinite ==
    ASSUME StoreTyped, NEW in, NEW x
    PROVE  Cardinality(Newer(in, x)) \in Nat
<1>1. Newer(in, x) \subseteq Submissions
  BY DEF Newer, Found, StoreTyped
<1> QED
  BY <1>1, ReadStoreAssumption, FS_Subset, FS_CardinalityType

\* The order of what is stamped stays.
LEMMA SortedStays ==
    ASSUME Evolves, NEW s, \A x \in Range(s) : x.id \in DOMAIN stamp, Sorted(s)
    PROVE  Sorted(s)'
BY DEF Evolves, Sorted, NotOlder, Range

\* While others move, what holds of a client stays.
LEMMA OthersKeep ==
    ASSUME StoreTyped, StoreTyped', StoreOK, Evolves, NEW r, Same(r), ReaderOK(r)
    PROVE  ReaderOK(r)'
<1>1. ReaderTyped(r)'
  <2>1. ReaderTyped(r)
    BY DEF ReaderOK
  <2>2. /\ pc'[r] \in {"idle", "surveys", "survey", "questions", "choices", "submissions",
                      "mine", "exists", "page", "details", "joined", "done"}
        /\ pc'[r] # "idle" => req'[r] \in Inputs[r]
        /\ first'[r] \subseteq Submissions
        /\ offset'[r] \in 0..Cardinality(Submissions)
    BY <2>1 DEF ReaderTyped, Same
  <2>3. /\ resp'[r] \in {0, 200, 403, 404, 500}
        /\ resp'[r] = 0 <=> pc'[r] # "done"
    BY <2>1 DEF ReaderTyped, Same
  <2>4. pc'[r] # "idle" /\ req'[r].op \in {"submissions", "mine"} =>
            Len(shown'[r]) + Len(rows'[r]) <= Cardinality(Submissions)
    <3>1. pc[r] # "idle" /\ req[r].op \in {"submissions", "mine"} =>
              Len(shown[r]) + Len(rows[r]) <= Cardinality(Submissions)
      BY <2>1, Zenon DEF ReaderTyped
    <3> QED
      BY <3>1, Zenon DEF Same
  <2> QED
    BY <2>2, <2>3, <2>4 DEF ReaderTyped
<1>2. Staged(r)'
  BY DEF ReaderOK, Staged, Same, Evolves
<1>3. Listing(r)'
  <2> SUFFICES ASSUME Asks(r, {"submissions", "mine"})' PROVE Listing(r)'
    BY DEF Listing
  <2>1. Asks(r, {"submissions", "mine"})
    BY DEF Asks, Same
  <2>2. /\ req[r].op = "mine" /\ pc[r] # "done" => req[r].user \in Admins \/ req[r].user = req[r].id
        /\ \A x \in Range(rows[r]) : Known(x) /\ MaySee(req[r], x)
        /\ \A x \in Range(shown[r]) :
              /\ MaySee(req[r], x)
              /\ x.id \in DOMAIN stamp
              /\ Whole(x) \/ (Bare(x) /\ Gone(x.survey))
        /\ Sorted(rows[r]) /\ Sorted(shown[r])
        /\ \A x \in Range(shown[r]), y \in Range(rows[r]) : NotOlder(x, y)
    BY <2>1 DEF ReaderOK, Listing
  <2>3. \A x \in Range(rows[r]) : Known(x)' /\ x.id \in DOMAIN stamp
    BY <2>2 DEF Evolves, Known
  <2>4. \A id : Gone(id) => Gone(id)'
    BY DEF Gone, Evolves
  <2>5. \A x \in Range(shown[r]) :
            x.id \in DOMAIN stamp' /\ (Whole(x) \/ (Bare(x) /\ Gone(x.survey)'))
    BY <2>2, <2>4 DEF Evolves
  <2>6. Sorted(rows[r])' /\ Sorted(shown[r])'
    <3>1. \A s : s = rows[r] \/ s = shown[r] => Sorted(s)'
      BY <2>2, <2>3, SortedStays
    <3> QED
      BY <3>1 DEF Same, Sorted, NotOlder
  <2>7. \A x \in Range(shown[r]), y \in Range(rows[r]) : NotOlder(x, y)'
    BY <2>2, <2>3 DEF Evolves, NotOlder
  <2> QED
    BY <2>2, <2>3, <2>5, <2>6, <2>7 DEF Same, Listing, MaySee, Whole, Bare
<1>4. Retrieval(r)'
  <2>1. \A id : QuestionsOf(id)' = QuestionsOf(id) /\ PartsOf(id)' = PartsOf(id)
    BY DEF QuestionsOf, PartsOf, Published
  <2>2. Retrieval(r)
    BY DEF ReaderOK
  <2> SUFFICES ASSUME Retrieving(r)' PROVE Retrieved(r)'
    BY DEF Retrieval
  <2>3. Retrieved(r)
    BY <2>2 DEF Retrieval, Retrieving, Asks, Same
  <2>4. Live(req[r].id)' => Live(req[r].id)
    BY <2>3 DEF Retrieved, Evolves, Same
  <2>5. req[r].id \in spent'
    BY <2>3 DEF Retrieved, Evolves
  <2> QED
    BY <2>1, <2>3, <2>4, <2>5 DEF Retrieved, Same
<1>5. Paging(r)'
  <2> SUFFICES ASSUME Asks(r, {"catalog", "answers"})' PROVE Paging(r)'
    BY DEF Paging
  <2>1. Asks(r, {"catalog", "answers"})
    BY DEF Asks, Same
  <2>2. Range(rows'[r]) \subseteq Submissions
    BY <2>1 DEF ReaderOK, Paging, Same
  <2>3. PICK in : in = req[r]
    OBVIOUS
  <2>4. ASSUME NEW x \in first[r], About(in, x), Alone(x)', Live(x.survey)'
        PROVE  \/ Has(shown[r], x)
               \/ Has(rows[r], x)
               \/ resp[r] # 200 /\ offset[r] <= Cardinality(Newer(in, x)')
    <3>1. Known(x)
      BY DEF ReaderOK, Staged
    <3>2. Live(x.survey)
      BY <2>4, <3>1, KnownSurvey DEF Evolves
    <3>3. Alone(x)
      BY <2>4, <3>1 DEF Alone, Evolves, Known
    <3>4. \/ Has(shown[r], x)
          \/ Has(rows[r], x)
          \/ resp[r] # 200 /\ offset[r] <= Cardinality(Newer(in, x))
      BY <2>1, <2>3, <2>4, <3>2, <3>3 DEF ReaderOK, Paging
    <3>5. Cardinality(Newer(in, x)) <= Cardinality(Newer(in, x)')
      BY <2>4, <3>1 DEF Evolves
    <3>6. /\ Cardinality(Newer(in, x)) \in Nat
          /\ offset[r] \in Nat
      BY NewerFinite, ReadStoreAssumption, FS_CardinalityType DEF ReaderOK, ReaderTyped
    <3>7. Cardinality(Newer(in, x)') \in Nat
      <4>1. Newer(in, x)' \subseteq Submissions
        BY DEF Newer, Found, StoreTyped
      <4> QED
        BY <4>1, ReadStoreAssumption, FS_Subset, FS_CardinalityType
    <3> QED
      BY <3>4, <3>5, <3>6, <3>7
  <2>5. \A x : Newer(req[r], x)' = Newer(in, x)'
    BY <2>3 DEF Same, Newer, Found, About
  <2>6. /\ req'[r] = in /\ first'[r] = first[r] /\ offset'[r] = offset[r]
        /\ rows'[r] = rows[r] /\ shown'[r] = shown[r] /\ resp'[r] = resp[r]
    BY <2>3 DEF Same
  <2>7. \A x \in first'[r] :
            About(in, x) /\ Alone(x)' /\ Live(x.survey)' =>
                \/ Has(shown'[r], x)
                \/ Has(rows'[r], x)
                \/ resp'[r] # 200 /\ offset'[r] <= Cardinality(Newer(in, x)')
    BY <2>4, <2>6
  <2> QED
    BY <2>2, <2>5, <2>6, <2>7 DEF Paging, About, Has
<1> QED
  BY <1>1, <1>2, <1>3, <1>4, <1>5 DEF ReaderOK

\* A reader writes nothing.
LEMMA NothingWritten ==
    ASSUME StoreTyped, StoreOK, UNCHANGED writers
    PROVE  /\ StoreTyped' /\ StoreOK' /\ Evolves
           /\ \A x : (Known(x)' <=> Known(x)) /\ (Alone(x)' <=> Alone(x))
           /\ \A id : (Gone(id)' <=> Gone(id)) /\ (Live(id)' <=> Live(id))
           /\ \A x, y : NotOlder(x, y)' <=> NotOlder(x, y)
           /\ \A s : Sorted(s)' <=> Sorted(s)
           /\ \A in, x : Newer(in, x)' = Newer(in, x)
<1> USE DEF writers
<1>1. StoreTyped'
  BY DEF StoreTyped
<1>2. StoreOK'
  BY DEF StoreOK
<1>3. \A id : (Gone(id)' <=> Gone(id)) /\ (Live(id)' <=> Live(id))
  BY DEF Gone, Live
<1>4. \A x : (Known(x)' <=> Known(x)) /\ (Alone(x)' <=> Alone(x))
  BY <1>3 DEF Known, Alone
<1>5. \A x, y : NotOlder(x, y)' <=> NotOlder(x, y)
  BY DEF NotOlder
<1>6. \A s : Sorted(s)' <=> Sorted(s)
  BY <1>5 DEF Sorted
<1>7. \A in, x : Newer(in, x)' = Newer(in, x)
  BY DEF Newer, Found
<1>8. \A in, x : Cardinality(Newer(in, x)) <= Cardinality(Newer(in, x)')
  BY <1>7, NewerFinite
<1>9. Evolves
  BY <1>3, <1>4, <1>8 DEF Evolves
<1> QED
  BY <1>1, <1>2, <1>3, <1>4, <1>5, <1>6, <1>7, <1>9

\* What a client asked for, by the query it is at.
LEMMA StageIs ==
    ASSUME NEW r \in Readers, ReaderTyped(r), Staged(r), pc[r] # "idle"
    PROVE  /\ req[r].op \in {"surveys", "survey", "submissions", "mine", "catalog", "answers"}
           /\ pc[r] = "surveys" => req[r].op = "surveys"
           /\ pc[r] \in {"survey", "questions", "choices"} => req[r].op = "survey"
           /\ pc[r] = "submissions" => req[r].op = "submissions"
           /\ pc[r] = "mine" => req[r].op = "mine"
           /\ pc[r] \in {"exists", "page"} => req[r].op \in {"catalog", "answers"}
           /\ pc[r] = "details" => req[r].op \in {"submissions", "mine", "catalog"}
           /\ pc[r] = "joined" => req[r].op = "answers"
<1>1. req[r].op \in {"surveys", "survey", "submissions", "mine", "catalog", "answers"}
  BY ReadInputsAssumption DEF ReaderTyped
<1>2. pc[r] # "done" => pc[r] \in Queries(req[r].op)
  BY DEF Staged
<1> QED
  BY <1>1, <1>2 DEF Queries

--------------------------------------------------------------------------------
\* The steps of a client.

\* The request is open until its handler is done.
LEMMA NoReplyYet ==
    ASSUME NEW r, ReaderTyped(r), pc[r] # "done"
    PROVE  resp[r] = 0
<1>1. resp[r] = 0 <=> pc[r] # "done"
  BY Zenon DEF ReaderTyped
<1> QED
  BY <1>1

\* What was published does not change.
LEMMA PublishedStays == \A id : QuestionsOf(id)' = QuestionsOf(id) /\ PartsOf(id)' = PartsOf(id)
BY DEF QuestionsOf, PartsOf, Published

\* A request comes in.
LEMMA AskKeeps ==
    ASSUME ReadInv, NEW r \in Readers, Ask(r)
    PROVE  ReaderOK(r)'
<1>1. PICK in \in Inputs[r] :
          /\ req' = [req EXCEPT ![r] = in]
          /\ IF in.op = "mine" /\ in.user \notin Admins /\ in.user # in.id
             THEN Answer(r, 403)
             ELSE Goto(r, Start(in))
  BY DEF Ask
<1>2. /\ req'[r] = in
      /\ first'[r] = accepted
      /\ offset'[r] = 0 /\ rows'[r] = << >> /\ shown'[r] = << >>
  BY <1>1 DEF Ask, ReadInv, Tables, ReaderOK, Staged
<1>3. \/ pc'[r] = "done" /\ resp'[r] = 403
      \/ /\ pc'[r] = Start(in) /\ resp'[r] = 0
         /\ in.op = "mine" => in.user \in Admins \/ in.user = in.id
  BY <1>1 DEF Answer, Goto, Ask, ReadInv, Tables, ReaderOK, ReaderTyped
<1>4. in.op \in {"surveys", "survey", "submissions", "mine", "catalog", "answers"}
  BY ReadInputsAssumption
<1>5. /\ Start(in) \in {"surveys", "survey", "submissions", "mine", "exists"}
      /\ Start(in) \in Queries(in.op)
  BY <1>4 DEF Start, Queries
<1>6. UNCHANGED writers
  BY DEF Ask
<1>7. \A x \in accepted : Known(x)'
  <2>1. \A x \in accepted : Known(x)
    BY DEF ReadInv, StoreTyped, StoreOK, Known
  <2> QED
    BY <1>6, <2>1, NothingWritten DEF ReadInv
<1>8. ReaderTyped(r)'
  <2>1. Cardinality(Submissions) \in Nat
    BY ReadStoreAssumption, FS_CardinalityType
  <2>2. /\ offset'[r] \in 0..Cardinality(Submissions)
        /\ Len(shown'[r]) + Len(rows'[r]) <= Cardinality(Submissions)
    BY <1>2, <2>1, EmptyList
  <2>3. accepted \subseteq Submissions
    BY DEF ReadInv, StoreTyped
  <2> QED
    BY <1>2, <1>3, <1>5, <2>2, <2>3 DEF ReaderTyped
<1>9. Staged(r)'
  BY <1>2, <1>3, <1>5, <1>7, EmptyList DEF Staged
<1>10. Listing(r)'
  <2>1. Sorted(<< >>)'
    BY DEF Sorted
  <2> QED
    BY <1>2, <1>3, <2>1, EmptyList DEF Listing, Sorted
<1>11. Retrieval(r)'
  BY <1>2, <1>3, <1>5 DEF Retrieval, Retrieving
<1>12. Paging(r)'
  <2>1. \A x : Cardinality(Newer(in, x)') \in Nat
    BY <1>6, NothingWritten, NewerFinite DEF ReadInv
  <2> QED
    BY <1>2, <1>3, <2>1, EmptyList DEF Paging, Newer, Found
<1> QED
  BY <1>8, <1>9, <1>10, <1>11, <1>12 DEF ReaderOK

\* ListSurveys: nothing is promised of the list but that it is one.
LEMMA ListSurveysKeeps ==
    ASSUME ReadInv, NEW r \in Readers, ListSurveys(r)
    PROVE  ReaderOK(r)'
<1>1. PICK s \in AnyOrder(live) : shown' = [shown EXCEPT ![r] = s]
  BY DEF ListSurveys
<1>2. /\ pc[r] = "surveys" /\ pc'[r] = "done" /\ resp'[r] = 200
      /\ req'[r] = req[r] /\ offset'[r] = offset[r] /\ first'[r] = first[r]
      /\ rows'[r] = rows[r] /\ shown'[r] = s
  BY <1>1 DEF ListSurveys, Answer, ReadInv, Tables
<1>3. req[r].op = "surveys"
  BY <1>2, StageIs DEF ReadInv, ReaderOK
<1>4. IsList(s)
  BY OrderList DEF ReadInv, StoreOK
<1>5. rows[r] = << >>
  BY <1>2 DEF ReadInv, ReaderOK, Staged
<1>6. \A x \in first[r] : Known(x)'
  BY NothingWritten DEF ReadInv, ReaderOK, Staged, ListSurveys
<1>7. Staged(r)'
  BY <1>2, <1>4, <1>5, <1>6, EmptyList DEF Staged
<1>8. ReaderTyped(r)'
  <2>1. ReaderTyped(r)
    BY DEF ReadInv, ReaderOK
  <2> QED
    BY <1>2, <1>3, <2>1 DEF ReaderTyped
<1> QED
  BY <1>2, <1>3, <1>7, <1>8 DEF ReaderOK, Listing, Retrieval, Retrieving, Paging, Asks

\* RetrieveSurvey finds the survey or answers 404.
LEMMA RetrieveSurveyKeeps ==
    ASSUME ReadInv, NEW r \in Readers, RetrieveSurvey(r)
    PROVE  ReaderOK(r)'
<1>1. /\ pc[r] = "survey"
      /\ req'[r] = req[r] /\ offset'[r] = offset[r] /\ first'[r] = first[r]
      /\ rows'[r] = rows[r] /\ shown'[r] = shown[r]
      /\ \/ /\ pc'[r] = "questions" /\ resp'[r] = resp[r]
            /\ \E s \in live : s.id = req[r].id
         \/ pc'[r] = "done" /\ resp'[r] = 404
  BY DEF RetrieveSurvey, Goto, Answer, ReadInv, Tables
<1>2. req[r].op = "survey"
  BY <1>1, StageIs DEF ReadInv, ReaderOK
<1>3. rows[r] = << >> /\ shown[r] = << >>
  BY <1>1 DEF ReadInv, ReaderOK, Staged
<1>4. \A x \in first[r] : Known(x)'
  BY NothingWritten DEF ReadInv, ReaderOK, Staged, RetrieveSurvey
<1>5. ReaderTyped(r) /\ resp[r] = 0
  BY <1>1, NoReplyYet DEF ReadInv, ReaderOK
<1>6. Staged(r)'
  BY <1>1, <1>2, <1>3, <1>4, <1>5, EmptyList DEF Staged, Queries
<1>7. ReaderTyped(r)'
  BY <1>1, <1>2, <1>5 DEF ReaderTyped
<1>8. Retrieval(r)'
  <2>1. CASE pc'[r] = "done"
    BY <1>1, <2>1 DEF Retrieval, Retrieving
  <2>2. CASE pc'[r] = "questions"
    <3>1. PICK s \in live : s.id = req[r].id
      BY <1>1, <2>2
    <3>2. s \in Surveys /\ s.id \in spent'
      BY DEF ReadInv, StoreTyped, StoreOK, RetrieveSurvey, writers, store
    <3> QED
      BY <1>1, <1>3, <2>2, <3>1, <3>2, EmptyList DEF Retrieval, Retrieving, Retrieved
  <2> QED
    BY <1>1, <2>1, <2>2
<1> QED
  BY <1>1, <1>2, <1>6, <1>7, <1>8 DEF ReaderOK, Listing, Paging, Asks

\* The published survey of an id is the one that has it.
LEMMA PublishedIs ==
    ASSUME NEW s \in Surveys
    PROVE  Published(s.id) = s
BY ReadStoreAssumption DEF Published

\* RetrieveSurvey reads all questions, or none.
LEMMA RetrieveQuestionsKeeps ==
    ASSUME ReadInv, NEW r \in Readers, RetrieveQuestions(r)
    PROVE  ReaderOK(r)'
<1> DEFINE U == UNION {s.questions : s \in {s \in live : s.id = req[r].id}}
<1>1. PICK qs \in AnyOrder(U) : rows' = [rows EXCEPT ![r] = qs]
  BY DEF RetrieveQuestions
<1>2. /\ pc[r] = "questions" /\ pc'[r] = "choices" /\ resp'[r] = resp[r]
      /\ req'[r] = req[r] /\ offset'[r] = offset[r] /\ first'[r] = first[r]
      /\ rows'[r] = qs /\ shown'[r] = shown[r]
  BY <1>1 DEF RetrieveQuestions, Goto, ReadInv, Tables
<1>3. req[r].op = "survey"
  BY <1>2, StageIs DEF ReadInv, ReaderOK
<1>4. shown[r] = << >>
  BY <1>2 DEF ReadInv, ReaderOK, Staged
<1>5. UNCHANGED writers
  BY DEF RetrieveQuestions
<1>6. \A x \in first[r] : Known(x)'
  BY <1>5, NothingWritten DEF ReadInv, ReaderOK, Staged
<1>7. ReaderTyped(r) /\ resp[r] = 0
  BY <1>2, NoReplyYet DEF ReadInv, ReaderOK
<1>8. /\ \E s \in Surveys : s.id = req[r].id
      /\ req[r].id \in spent
  BY <1>2, <1>3 DEF ReadInv, ReaderOK, Retrieval, Retrieving, Retrieved, Asks
<1>9. PICK s \in Surveys : s.id = req[r].id
  BY <1>8
<1>10. QuestionsOf(req[r].id) = s.questions
  BY <1>9, PublishedIs DEF QuestionsOf
<1>11. U = IF Live(req[r].id) THEN s.questions ELSE {}
  <2>1. \A t \in live : t.id = req[r].id => t = s
    BY <1>9, ReadStoreAssumption DEF ReadInv, StoreTyped
  <2>2. Live(req[r].id) => s \in live
    BY <2>1 DEF Live
  <2>3. CASE Live(req[r].id)
    <3>1. {t \in live : t.id = req[r].id} = {s}
      BY <1>9, <2>1, <2>2, <2>3
    <3> QED
      BY <2>3, <3>1
  <2>4. CASE ~Live(req[r].id)
    <3>1. {t \in live : t.id = req[r].id} = {}
      BY <2>4 DEF Live
    <3> QED
      BY <2>4, <3>1
  <2> QED
    BY <2>3, <2>4
<1>12. IsFiniteSet(U)
  BY <1>11, ReadStoreAssumption, FS_EmptySet
<1>13. /\ IsList(qs)
       /\ Range(qs) = U
       /\ Cardinality(U) \in Nat
       /\ Len(qs) = Cardinality(U)
  BY <1>12, OrderList
<1> HIDE DEF U
<1>14. Staged(r)'
  BY <1>2, <1>3, <1>4, <1>6, <1>7, <1>13, EmptyList DEF Staged, Queries
<1>15. ReaderTyped(r)'
  BY <1>2, <1>3, <1>7 DEF ReaderTyped
<1>16. Retrieval(r)'
  <2>1. /\ Range(qs) \subseteq QuestionsOf(req[r].id)
        /\ Live(req[r].id) => Range(qs) = QuestionsOf(req[r].id)
                                /\ Len(qs) = Cardinality(QuestionsOf(req[r].id))
    BY <1>10, <1>11, <1>13
  <2>2. Live(req[r].id)' <=> Live(req[r].id)
    BY <1>2, <1>5 DEF Live, writers, store
  <2>3. spent' = spent
    BY <1>5 DEF writers, store
  <2>4. Range(<< >>) = {} /\ Len(<< >>) = 0
    BY EmptyList
  <2>5. PICK n \in Nat : n = Len(qs)
    BY <1>13
  <2> QED
    BY <1>2, <1>4, <1>8, <2>1, <2>2, <2>3, <2>4, <2>5, PublishedStays DEF Retrieval, Retrieving, Retrieved
<1> QED
  BY <1>2, <1>3, <1>14, <1>15, <1>16 DEF ReaderOK, Listing, Paging, Asks

\* The choices of a question: all, or none when its survey is gone.
LEMMA ChoicesAre ==
    ASSUME StoreTyped, NEW s \in Surveys, NEW q \in s.questions
    PROVE  /\ Live(s.id) => QuestionChoices(q.id) = q.choices
           /\ ~Live(s.id) => QuestionChoices(q.id) = {}
<1> DEFINE Q == {p \in UNION {t.questions : t \in live} : p.id = q.id}
<1>1. \A t \in live : \A p \in t.questions : p.id = q.id => t = s /\ p = q
  BY ReadStoreAssumption DEF StoreTyped
<1>2. CASE Live(s.id)
  <2>1. PICK t \in live : t.id = s.id
    BY <1>2 DEF Live
  <2>2. t = s
    BY <2>1, ReadStoreAssumption DEF StoreTyped
  <2>3. q \in UNION {u.questions : u \in live}
    BY <2>1, <2>2
  <2>4. Q = {q}
    BY <1>1, <2>3
  <2> QED
    BY <1>2, <2>4 DEF QuestionChoices
<1>3. CASE ~Live(s.id)
  <2>1. Q = {}
    BY <1>1, <1>3 DEF Live
  <2> QED
    BY <1>3, <2>1 DEF QuestionChoices
<1> QED
  BY <1>2, <1>3

\* RetrieveSurvey reads the choices of the next question.
LEMMA RetrieveChoicesKeeps ==
    ASSUME ReadInv, NEW r \in Readers, RetrieveChoices(r)
    PROVE  ReaderOK(r)'
<1> DEFINE h == Head(rows[r])
           x == [h EXCEPT !.choices = QuestionChoices(h.id)]
<1>1. /\ pc[r] = "choices" /\ pc'[r] = pc[r] /\ resp'[r] = resp[r]
      /\ req'[r] = req[r] /\ offset'[r] = offset[r] /\ first'[r] = first[r]
      /\ rows[r] # << >>
      /\ rows'[r] = Tail(rows[r]) /\ shown'[r] = Append(shown[r], x)
  BY DEF RetrieveChoices, Complete, ReadInv, Tables
<1>2. req[r].op = "survey"
  BY <1>1, StageIs DEF ReadInv, ReaderOK
<1>3. UNCHANGED writers
  BY DEF RetrieveChoices
<1>4. \A y \in first[r] : Known(y)'
  BY <1>3, NothingWritten DEF ReadInv, ReaderOK, Staged
<1>5. ReaderTyped(r) /\ resp[r] = 0
  BY <1>1, NoReplyYet DEF ReadInv, ReaderOK
<1>6. IsList(rows[r]) /\ IsList(shown[r])
  BY DEF ReadInv, ReaderOK, Staged
<1>7. /\ IsList(Tail(rows[r]))
      /\ h \in Range(rows[r])
      /\ Range(rows[r]) = {h} \cup Range(Tail(rows[r]))
      /\ Len(rows[r]) \in Nat
      /\ Len(Tail(rows[r])) = Len(rows[r]) - 1
  BY <1>1, <1>6, TailList
<1>8. /\ IsList(Append(shown[r], x))
      /\ Range(Append(shown[r], x)) = Range(shown[r]) \cup {x}
      /\ Len(shown[r]) \in Nat
      /\ Len(Append(shown[r], x)) = Len(shown[r]) + 1
  BY <1>6, AppendList
<1> HIDE DEF x, h
<1>9. Staged(r)'
  BY <1>1, <1>2, <1>4, <1>5, <1>7, <1>8 DEF Staged, Queries
<1>10. ReaderTyped(r)'
  BY <1>1, <1>2, <1>5 DEF ReaderTyped
<1>11. Retrieval(r)'
  <2>1. /\ \E s \in Surveys : s.id = req[r].id
        /\ req[r].id \in spent
        /\ Range(rows[r]) \subseteq QuestionsOf(req[r].id)
        /\ Range(shown[r]) \subseteq PartsOf(req[r].id)
        /\ Live(req[r].id) =>
              /\ Range(shown[r]) \cup Range(rows[r]) = QuestionsOf(req[r].id)
              /\ Len(shown[r]) + Len(rows[r]) = Cardinality(QuestionsOf(req[r].id))
    BY <1>1, <1>2 DEF ReadInv, ReaderOK, Retrieval, Retrieving, Retrieved, Asks
  <2>2. PICK s \in Surveys : s.id = req[r].id
    BY <2>1
  <2>3. QuestionsOf(req[r].id) = s.questions
    BY <2>2, PublishedIs DEF QuestionsOf
  <2>4. h \in s.questions
    BY <1>7, <2>1, <2>3
  <2>5. h = [id |-> h.id, type |-> h.type, mandatory |-> h.mandatory, choices |-> h.choices]
    BY <2>4, ReadStoreAssumption
  <2>6. Live(req[r].id) => x = h
    <3>1. Live(req[r].id) => QuestionChoices(h.id) = h.choices
      BY <2>2, <2>4, ChoicesAre DEF ReadInv
    <3> QED
      BY <2>5, <3>1 DEF x
  <2>7. ~Live(req[r].id) => x \in PartsOf(req[r].id)
    <3>1. ~Live(req[r].id) => QuestionChoices(h.id) = {}
      BY <2>2, <2>4, ChoicesAre DEF ReadInv
    <3> QED
      BY <2>3, <2>4, <3>1 DEF x, PartsOf
  <2>8. x \in PartsOf(req[r].id)
    BY <2>3, <2>4, <2>6, <2>7 DEF PartsOf
  <2>9. Live(req[r].id) =>
            Range(Append(shown[r], x)) \cup Range(Tail(rows[r])) = QuestionsOf(req[r].id)
    BY <1>7, <1>8, <2>1, <2>6
  <2>10. Live(req[r].id) =>
            Len(Append(shown[r], x)) + Len(Tail(rows[r])) = Cardinality(QuestionsOf(req[r].id))
    <3>1. PICK a \in Nat, b \in Nat : a = Len(shown[r]) /\ b = Len(rows[r])
      BY <1>7, <1>8
    <3>2. (a + 1) + (b - 1) = a + b
      OBVIOUS
    <3> QED
      BY <1>7, <1>8, <2>1, <3>1, <3>2
  <2>11. Live(req[r].id)' <=> Live(req[r].id)
    BY <1>1, <1>3 DEF Live, writers, store
  <2>12. spent' = spent
    BY <1>3 DEF writers, store
  <2>13. /\ Range(rows'[r]) \subseteq QuestionsOf(req[r].id)
         /\ Range(shown'[r]) \subseteq PartsOf(req[r].id)
    BY <1>1, <1>7, <1>8, <2>1, <2>8
  <2>14. Live(req[r].id) =>
            /\ Range(shown'[r]) \cup Range(rows'[r]) = QuestionsOf(req[r].id)
            /\ Len(shown'[r]) + Len(rows'[r]) = Cardinality(QuestionsOf(req[r].id))
    BY <1>1, <2>9, <2>10
  <2>15. /\ QuestionsOf(req[r].id)' = QuestionsOf(req[r].id)
         /\ PartsOf(req[r].id)' = PartsOf(req[r].id)
    BY <1>1, PublishedStays
  <2>16. Retrieved(r)'
    BY <1>1, <2>1, <2>11, <2>12, <2>13, <2>14, <2>15 DEF Retrieved
  <2> QED
    BY <2>16 DEF Retrieval
<1> QED
  BY <1>1, <1>2, <1>9, <1>10, <1>11 DEF ReaderOK, Listing, Paging, Asks

\* The rows of a list of submissions: known, and in order.
LEMMA RowsFound ==
    ASSUME StoreTyped, StoreOK, NEW F \in SUBSET accepted, NEW xs \in NewestFirst(F)
    PROVE  /\ IsFiniteSet(F)
           /\ IsList(xs)
           /\ Range(xs) = F
           /\ Sorted(xs)
           /\ Len(xs) = Cardinality(F)
           /\ Cardinality(F) \in Nat
           /\ Cardinality(F) <= Cardinality(Submissions)
           /\ Cardinality(Submissions) \in Nat
           /\ \A x \in Range(xs) : x \in Submissions /\ Known(x)
<1>1. F \subseteq Submissions
  BY DEF StoreTyped
<1>2. IsFiniteSet(F) /\ Cardinality(F) <= Cardinality(Submissions) /\ Cardinality(Submissions) \in Nat
  BY <1>1, ReadStoreAssumption, FS_Subset, FS_CardinalityType
<1>3. xs \in AnyOrder(F) /\ Sorted(xs)
  BY DEF NewestFirst, Sorted, NotOlder
<1>4. IsList(xs) /\ Range(xs) = F /\ Len(xs) = Cardinality(F) /\ Cardinality(F) \in Nat
  BY <1>2, <1>3, OrderList
<1>5. \A x \in F : x \in Submissions /\ Known(x)
  BY <1>1 DEF StoreTyped, StoreOK, Known
<1> QED
  BY <1>2, <1>3, <1>4, <1>5

\* The submissions of a survey, or of a user, are read.
LEMMA ListSubmissionsKeeps ==
    ASSUME ReadInv, NEW r \in Readers, ListSubmissions(r)
    PROVE  ReaderOK(r)'
<1> DEFINE F == IF pc[r] = "mine" THEN UserSubmissions(req[r]) ELSE SurveySubmissions(req[r])
<1>1. PICK xs \in NewestFirst(F) : rows' = [rows EXCEPT ![r] = xs]
  BY DEF ListSubmissions
<1>2. /\ pc[r] \in {"submissions", "mine"} /\ pc'[r] = "details" /\ resp'[r] = resp[r]
      /\ req'[r] = req[r] /\ offset'[r] = offset[r] /\ first'[r] = first[r]
      /\ rows'[r] = xs /\ shown'[r] = shown[r]
  BY <1>1 DEF ListSubmissions, Goto, ReadInv, Tables
<1>3. req[r].op = pc[r]
  BY <1>2, StageIs DEF ReadInv, ReaderOK
<1>4. shown[r] = << >>
  BY <1>2 DEF ReadInv, ReaderOK, Staged
<1>5. UNCHANGED writers
  BY DEF ListSubmissions
<1>6. \A x \in first[r] : Known(x)'
  BY <1>5, NothingWritten DEF ReadInv, ReaderOK, Staged
<1>7. ReaderTyped(r) /\ resp[r] = 0
  BY <1>2, NoReplyYet DEF ReadInv, ReaderOK
<1>8. F \in SUBSET accepted
  BY DEF UserSubmissions, SurveySubmissions
<1>9. \A x \in F : MaySee(req[r], x)
  <2>1. CASE pc[r] = "mine"
    <3>1. req[r].user \in Admins \/ req[r].user = req[r].id
      BY <1>3, <2>1 DEF ReadInv, ReaderOK, Listing, Asks
    <3> QED
      BY <1>3, <2>1, <3>1 DEF MaySee, UserSubmissions
  <2>2. CASE pc[r] # "mine"
    BY <1>2, <1>3, <2>2 DEF MaySee, SurveySubmissions
  <2> QED
    BY <2>1, <2>2
<1> HIDE DEF F
<1>10. /\ IsList(xs) /\ Range(xs) = F /\ Sorted(xs)
       /\ Len(xs) = Cardinality(F)
       /\ Cardinality(F) \in Nat
       /\ Cardinality(F) <= Cardinality(Submissions)
       /\ \A x \in Range(xs) : Known(x)
  BY <1>8, RowsFound DEF ReadInv
<1>11. Staged(r)'
  BY <1>2, <1>3, <1>4, <1>6, <1>7, <1>10, EmptyList DEF Staged, Queries
<1>12. ReaderTyped(r)'
  <2>1. Len(shown'[r]) + Len(rows'[r]) <= Cardinality(Submissions)
    BY <1>2, <1>4, <1>10, EmptyList
  <2> QED
    BY <1>2, <1>7, <2>1 DEF ReaderTyped
<1>13. Listing(r)'
  <2>1. \A x : Known(x)' <=> Known(x)
    BY <1>5, NothingWritten DEF ReadInv
  <2>2. \A s : Sorted(s)' <=> Sorted(s)
    BY <1>5, NothingWritten DEF ReadInv
  <2>3. Sorted(<< >>)
    BY DEF Sorted
  <2>4. Sorted(rows[r])' /\ Sorted(shown[r])'
    BY <1>2, <1>4, <1>10, <2>2, <2>3
  <2>5. req[r].op = "mine" => req[r].user \in Admins \/ req[r].user = req[r].id
    BY <1>2, <1>3 DEF ReadInv, ReaderOK, Listing, Asks
  <2>6. \A x \in Range(rows'[r]) : Known(x)' /\ MaySee(req'[r], x)
    BY <1>2, <1>9, <1>10, <2>1
  <2>7. Range(shown'[r]) = {}
    BY <1>2, <1>4, EmptyList
  <2> QED
    BY <1>2, <2>4, <2>5, <2>6, <2>7 DEF Listing, MaySee
<1> QED
  BY <1>2, <1>3, <1>11, <1>12, <1>13 DEF ReaderOK, Retrieval, Retrieving, Paging, Asks

\* The catalog looks whether what it was asked for exists.
LEMMA ExistsKeeps ==
    ASSUME ReadInv, NEW r \in Readers, Exists(r)
    PROVE  ReaderOK(r)'
<1>1. /\ pc[r] = "exists"
      /\ req'[r] = req[r] /\ offset'[r] = offset[r] /\ first'[r] = first[r]
      /\ rows'[r] = rows[r] /\ shown'[r] = shown[r]
      /\ \/ pc'[r] = "page" /\ resp'[r] = resp[r]
         \/ pc'[r] = "done" /\ resp'[r] = 404
  BY DEF Exists, Goto, Answer, ReadInv, Tables
<1>2. req[r].op \in {"catalog", "answers"}
  BY <1>1, StageIs DEF ReadInv, ReaderOK
<1>3. UNCHANGED writers
  BY DEF Exists
<1>4. \A x \in first[r] : Known(x)'
  BY <1>3, NothingWritten DEF ReadInv, ReaderOK, Staged
<1>5. ReaderTyped(r) /\ resp[r] = 0
  BY <1>1, NoReplyYet DEF ReadInv, ReaderOK
<1>6. Staged(r)'
  <2>1. rows[r] = << >> /\ IsList(rows[r]) /\ IsList(shown[r])
    BY <1>1 DEF ReadInv, ReaderOK, Staged
  <2> QED
    BY <1>1, <1>2, <1>4, <1>5, <2>1 DEF Staged, Queries
<1>7. ReaderTyped(r)'
  <2>1. req'[r].op \notin {"submissions", "mine"}
    BY <1>1, <1>2
  <2>2. pc[r] # "idle" /\ pc'[r] \in {"page", "done"}
    BY <1>1
  <2>3. /\ req[r] \in Inputs[r]
        /\ first[r] \subseteq Submissions
        /\ offset[r] \in 0..Cardinality(Submissions)
    BY <1>5, <2>2 DEF ReaderTyped
  <2>4. /\ resp'[r] \in {0, 404}
        /\ resp'[r] = 0 <=> pc'[r] # "done"
    BY <1>1, <1>5
  <2> QED
    BY <1>1, <2>1, <2>2, <2>3, <2>4, ZenonT(60) DEF ReaderTyped
<1>8. Paging(r)'
  <2>1. Paging(r) /\ Asks(r, {"catalog", "answers"})
    BY <1>1, <1>2 DEF ReadInv, ReaderOK, Asks
  <2>2. PICK in : in = req[r]
    OBVIOUS
  <2>3. \A x : (Alone(x)' <=> Alone(x)) /\ (Live(x.survey)' <=> Live(x.survey)) /\ Newer(in, x)' = Newer(in, x)
    BY <1>3, NothingWritten DEF ReadInv
  <2>4. resp'[r] # 200
    BY <1>1, <1>5
  <2> QED
    BY <1>1, <2>1, <2>2, <2>3, <2>4 DEF Paging, Has, About
<1> QED
  BY <1>1, <1>2, <1>6, <1>7, <1>8 DEF ReaderOK, Retrieval, Retrieving, Listing, Asks

\* The first row is completed: what was shown or to come is so still.
LEMMA NextHas ==
    ASSUME NEW s, IsList(s), NEW t, IsList(t), t # << >>,
           NEW x, x.id = Head(t).id, NEW y, Has(s, y) \/ Has(t, y)
    PROVE  Has(Append(s, x), y) \/ Has(Tail(t), y)
<1>1. Range(Append(s, x)) = Range(s) \cup {x}
  BY AppendList
<1>2. Range(t) = {Head(t)} \cup Range(Tail(t))
  BY TailList
<1> QED
  BY <1>1, <1>2 DEF Has

\* A page of the catalog is read: what is not in it is behind it.
LEMMA ReadPageKeeps ==
    ASSUME ReadInv, NEW r \in Readers, ReadPage(r)
    PROVE  ReaderOK(r)'
<1>1. pc[r] = "page" /\ req[r].op \in {"catalog", "answers"}
  BY StageIs DEF ReadPage, ReadInv, ReaderOK
<1> DEFINE F == Found(req[r])
<1>2. F = IF req[r].op = "catalog" THEN CatalogSubmissions(req[r])
          ELSE AnsweringSubmissions(req[r].id)
  BY DEF Found, About, CatalogSubmissions, AnsweringSubmissions
<1>3. PICK xs \in NewestFirst(F) :
          LET page == Page(xs, r)
          IN  IF page = << >>
              THEN Answer(r, 200) /\ UNCHANGED <<offset, rows>>
              ELSE /\ rows' = [rows EXCEPT ![r] = page]
                   /\ offset' = [offset EXCEPT ![r] = NextOffset(r, page)]
                   /\ Goto(r, IF req[r].op = "catalog" THEN "details" ELSE "joined")
  BY <1>2 DEF ReadPage
<1> DEFINE page == Page(xs, r)
           next == IF req[r].op = "catalog" THEN "details" ELSE "joined"
<1>4. /\ req'[r] = req[r] /\ first'[r] = first[r] /\ shown'[r] = shown[r]
      /\ \/ /\ page = << >>
            /\ pc'[r] = "done" /\ resp'[r] = 200
            /\ rows'[r] = rows[r] /\ offset'[r] = offset[r]
         \/ /\ page # << >>
            /\ pc'[r] = next /\ resp'[r] = resp[r]
            /\ rows'[r] = page /\ offset'[r] = offset[r] + Len(page)
  BY <1>3 DEF ReadPage, Answer, Goto, NextOffset, ReadInv, Tables
<1>5. UNCHANGED writers
  BY DEF ReadPage
<1>6. \A x \in first[r] : Known(x) /\ Known(x)'
  BY <1>5, NothingWritten DEF ReadInv, ReaderOK, Staged
<1>7. ReaderTyped(r) /\ resp[r] = 0
  BY <1>1, NoReplyYet DEF ReadInv, ReaderOK
<1>8. rows[r] = << >> /\ IsList(shown[r])
  BY <1>1 DEF ReadInv, ReaderOK, Staged
<1>9. F \in SUBSET accepted
  BY DEF Found
<1> HIDE DEF F
<1>10. /\ IsFiniteSet(F)
       /\ IsList(xs) /\ Range(xs) = F
       /\ Len(xs) = Cardinality(F)
       /\ Cardinality(F) \in Nat
       /\ Cardinality(F) <= Cardinality(Submissions)
       /\ Cardinality(Submissions) \in Nat
       /\ \A x \in Range(xs) : x \in Submissions
  BY <1>9, RowsFound DEF ReadInv
<1>11. offset[r] \in Nat
  BY <1>7, <1>10 DEF ReaderTyped
<1>12. Limit(req[r]) \in Nat \ {0}
  <2>1. \A n : n \in 1..1000 => n \in Nat \ {0}
    OBVIOUS
  <2>2. 50 \in Nat \ {0}
    OBVIOUS
  <2>3. CASE req[r].limit \in 1..1000
    BY <2>1, <2>3 DEF Limit
  <2>4. CASE req[r].limit \notin 1..1000
    BY <2>2, <2>4 DEF Limit
  <2> QED
    BY <2>3, <2>4
<1>13. /\ IsList(page)
       /\ Range(page) \subseteq Range(xs)
       /\ Len(page) \in Nat
       /\ page # << >> => offset[r] + Len(page) <= Len(xs)
       /\ \A p \in 1..Len(xs) : offset[r] < p =>
              page # << >> /\ (xs[p] \in Range(page) \/ offset[r] + Len(page) < p)
  BY <1>10, <1>11, <1>12, PageOf DEF Page
<1> HIDE DEF page
<1>14. next \in {"details", "joined"} /\ next \in Queries(req[r].op)
  BY <1>1 DEF Queries
<1> HIDE DEF next
<1>15. Staged(r)'
  BY <1>1, <1>4, <1>6, <1>7, <1>8, <1>13, <1>14, EmptyList DEF Staged
<1>16. ReaderTyped(r)'
  <2>1. req'[r].op \notin {"submissions", "mine"} /\ pc'[r] \in {"details", "joined", "done"}
    BY <1>1, <1>4, <1>14
  <2>2. req[r] \in Inputs[r] /\ first[r] \subseteq Submissions
    BY <1>1, <1>7 DEF ReaderTyped
  <2>3. offset'[r] \in 0..Cardinality(Submissions)
    <3>1. CASE page = << >>
      BY <1>4, <1>7, <3>1 DEF ReaderTyped
    <3>2. CASE page # << >>
      BY <1>4, <1>10, <1>11, <1>13, <3>2
    <3> QED
      BY <3>1, <3>2
  <2>4. /\ resp'[r] \in {0, 200}
        /\ resp'[r] = 0 <=> pc'[r] # "done"
    BY <1>4, <1>7, <1>14
  <2> QED
    BY <1>4, <2>1, <2>2, <2>3, <2>4, ZenonT(60) DEF ReaderTyped
<1>17. Paging(r)'
  <2>1. Paging(r) /\ Asks(r, {"catalog", "answers"})
    BY <1>1 DEF ReadInv, ReaderOK, Asks
  <2>2. PICK in : in = req[r]
    OBVIOUS
  <2>3. \A x : (Alone(x)' <=> Alone(x)) /\ (Live(x.survey)' <=> Live(x.survey)) /\ Newer(in, x)' = Newer(in, x)
    BY <1>5, NothingWritten DEF ReadInv
  <2>4. Range(rows'[r]) \subseteq Submissions
    BY <1>4, <1>8, <1>10, <1>13, EmptyList
  <2>5. ASSUME NEW x \in first[r], About(in, x), Alone(x), Live(x.survey)
        PROVE  \/ Has(shown'[r], x)
               \/ Has(rows'[r], x)
               \/ resp'[r] # 200 /\ offset'[r] <= Cardinality(Newer(in, x))
    <3>1. \/ Has(shown[r], x)
          \/ offset[r] <= Cardinality(Newer(in, x))
      BY <1>8, <2>1, <2>2, <2>5, EmptyList DEF Paging, Has
    <3>2. CASE Has(shown[r], x)
      BY <1>4, <3>2
    <3>3. CASE offset[r] <= Cardinality(Newer(in, x))
      <4>1. x \in accepted
        BY <1>6, <2>5, KnownIsThere
      <4>2. x \in F
        BY <2>2, <2>5, <4>1 DEF Found, F
      <4>3. \A y \in F : y \in Submissions /\ y.id \in DOMAIN stamp /\ stamp[y.id] \in Nat
        BY <1>9, MaxClockAssumption DEF ReadInv, StoreTyped
      <4>4. \A y \in F \ {x} : stamp[y.id] # stamp[x.id]
        BY <2>5, <4>3 DEF Alone
      <4>5. \E p \in 1..Len(xs) :
                /\ xs[p] = x
                /\ Cardinality({y \in F : stamp[y.id] > stamp[x.id]}) = p - 1
        BY <1>10, <4>2, <4>3, <4>4, Position
      <4>6. PICK p \in 1..Len(xs) : xs[p] = x /\ Cardinality(Newer(in, x)) = p - 1
        BY <2>2, <4>5 DEF Newer, F
      <4>7. offset[r] < p
        BY <1>10, <1>11, <3>3, <4>6
      <4>8. page # << >> /\ (x \in Range(page) \/ offset[r] + Len(page) < p)
        BY <1>13, <4>6, <4>7
      <4>9. CASE x \in Range(page)
        BY <1>4, <4>8, <4>9 DEF Has
      <4>10. CASE offset[r] + Len(page) < p
        <5>1. offset'[r] <= p - 1
          BY <1>4, <1>10, <1>11, <1>13, <4>8, <4>10
        <5>2. resp'[r] # 200
          BY <1>4, <1>7, <4>8
        <5> QED
          BY <4>6, <5>1, <5>2
      <4> QED
        BY <4>8, <4>9, <4>10
    <3> QED
      BY <3>1, <3>2, <3>3
  <2> QED
    BY <1>4, <2>2, <2>3, <2>4, <2>5 DEF Paging, Has, About
<1> QED
  BY <1>1, <1>4, <1>15, <1>16, <1>17 DEF ReaderOK, Retrieval, Retrieving, Listing, Asks

\* What a row of a submission becomes when its answers are read: the whole
\* submission, or a bare one when its survey is gone.
LEMMA AnswersAre ==
    ASSUME StoreTyped, StoreOK, NEW h, Known(h),
           NEW x, x = [h EXCEPT !.answers = SubmissionAnswers(h.id)]
    PROVE  /\ x.id = h.id /\ x.survey = h.survey /\ x.user = h.user
           /\ Whole(x) \/ (Bare(x) /\ Gone(x.survey))
<1>1. h \in Submissions /\ h = [id |-> h.id, survey |-> h.survey, user |-> h.user, answers |-> h.answers]
  BY ReadStoreAssumption DEF Known
<1>2. x = [id |-> h.id, survey |-> h.survey, user |-> h.user, answers |-> SubmissionAnswers(h.id)]
  BY <1>1
<1>3. CASE h \in accepted
  <2>1. {y \in accepted : y.id = h.id} = {h}
    BY <1>3 DEF StoreOK
  <2>2. SubmissionAnswers(h.id) = h.answers
    BY <2>1 DEF SubmissionAnswers
  <2>3. x = h
    BY <1>1, <1>2, <2>2
  <2> QED
    BY <1>1, <2>3 DEF Whole
<1>4. CASE h \notin accepted
  <2>1. Gone(h.survey) /\ \A y \in accepted : y.id # h.id
    BY <1>4 DEF Known
  <2>2. {y \in accepted : y.id = h.id} = {}
    BY <2>1
  <2>3. SubmissionAnswers(h.id) = {}
    BY <2>2 DEF SubmissionAnswers
  <2> QED
    BY <1>1, <1>2, <2>1, <2>3 DEF Bare
<1> QED
  BY <1>3, <1>4

\* Of a request whose list was found the next row is completed with its answers.
LEMMA ListAnswersKeeps ==
    ASSUME ReadInv, NEW r \in Readers, ListAnswers(r)
    PROVE  ReaderOK(r)'
<1> DEFINE h == Head(rows[r])
           x == [h EXCEPT !.answers = SubmissionAnswers(h.id)]
<1>1. /\ pc[r] = "details" /\ pc'[r] = pc[r] /\ resp'[r] = resp[r]
      /\ req'[r] = req[r] /\ offset'[r] = offset[r] /\ first'[r] = first[r]
      /\ rows[r] # << >>
      /\ rows'[r] = Tail(rows[r]) /\ shown'[r] = Append(shown[r], x)
  BY DEF ListAnswers, Complete, ReadInv, Tables
<1>2. req[r].op \in {"submissions", "mine", "catalog"}
  BY <1>1, StageIs DEF ReadInv, ReaderOK
<1>3. UNCHANGED writers
  BY DEF ListAnswers
<1>4. \A y \in first[r] : Known(y)'
  BY <1>3, NothingWritten DEF ReadInv, ReaderOK, Staged
<1>5. ReaderTyped(r) /\ resp[r] = 0
  BY <1>1, NoReplyYet DEF ReadInv, ReaderOK
<1>6. IsList(rows[r]) /\ IsList(shown[r])
  BY DEF ReadInv, ReaderOK, Staged
<1>7. /\ IsList(Tail(rows[r]))
      /\ h \in Range(rows[r])
      /\ Range(rows[r]) = {h} \cup Range(Tail(rows[r]))
      /\ Len(rows[r]) \in Nat
      /\ Len(Tail(rows[r])) = Len(rows[r]) - 1
  BY <1>1, <1>6, TailList
<1>8. /\ IsList(Append(shown[r], x))
      /\ Range(Append(shown[r], x)) = Range(shown[r]) \cup {x}
      /\ Len(shown[r]) \in Nat
      /\ Len(Append(shown[r], x)) = Len(shown[r]) + 1
  BY <1>6, AppendList
<1>9. x.id = h.id
  <2>1. h \in Submissions
    <3>1. CASE req[r].op = "catalog"
      BY <1>1, <1>7, <3>1 DEF ReadInv, ReaderOK, Paging, Asks
    <3>2. CASE req[r].op # "catalog"
      <4>1. Known(h)
        BY <1>1, <1>2, <1>7, <3>2 DEF ReadInv, ReaderOK, Listing, Asks
      <4> QED
        BY <4>1 DEF Known
    <3> QED
      BY <3>1, <3>2
  <2> QED
    BY <2>1, ReadStoreAssumption
<1>10. h = Head(rows[r]) /\ x = [h EXCEPT !.answers = SubmissionAnswers(h.id)]
  OBVIOUS
<1> HIDE DEF x, h
<1>11. Staged(r)'
  BY <1>1, <1>2, <1>4, <1>5, <1>7, <1>8 DEF Staged, Queries
<1>12. ReaderTyped(r)'
  <2>1. req[r].op \in {"submissions", "mine"} =>
            Len(shown'[r]) + Len(rows'[r]) <= Cardinality(Submissions)
    <3>1. req[r].op \in {"submissions", "mine"} =>
              Len(shown[r]) + Len(rows[r]) <= Cardinality(Submissions)
      BY <1>1, <1>5 DEF ReaderTyped
    <3>2. PICK a \in Nat, b \in Nat : a = Len(shown[r]) /\ b = Len(rows[r])
      BY <1>7, <1>8
    <3>3. (a + 1) + (b - 1) = a + b
      OBVIOUS
    <3> QED
      BY <1>1, <1>7, <1>8, <3>1, <3>2, <3>3
  <2>2. /\ req[r] \in Inputs[r]
        /\ first[r] \subseteq Submissions
        /\ offset[r] \in 0..Cardinality(Submissions)
    BY <1>1, <1>5 DEF ReaderTyped
  <2>3. /\ req'[r] \in Inputs[r]
        /\ first'[r] \subseteq Submissions
        /\ offset'[r] \in 0..Cardinality(Submissions)
        /\ pc'[r] = "details" /\ resp'[r] = 0
    BY <1>1, <1>5, <2>2
  <2>4. req'[r].op \in {"submissions", "mine"} =>
            Len(shown'[r]) + Len(rows'[r]) <= Cardinality(Submissions)
    BY <1>1, <2>1, Zenon
  <2> QED
    BY <2>3, <2>4 DEF ReaderTyped
<1>13. Listing(r)'
  <2> SUFFICES ASSUME Asks(r, {"submissions", "mine"})' PROVE Listing(r)'
    BY DEF Listing
  <2>1. /\ req[r].op = "mine" => req[r].user \in Admins \/ req[r].user = req[r].id
        /\ \A y \in Range(rows[r]) : Known(y) /\ MaySee(req[r], y)
        /\ \A y \in Range(shown[r]) :
              /\ MaySee(req[r], y)
              /\ y.id \in DOMAIN stamp
              /\ Whole(y) \/ (Bare(y) /\ Gone(y.survey))
        /\ Sorted(rows[r]) /\ Sorted(shown[r])
        /\ \A y \in Range(shown[r]), z \in Range(rows[r]) : NotOlder(y, z)
    BY <1>1 DEF ReadInv, ReaderOK, Listing, Asks
  <2>2. Known(h) /\ MaySee(req[r], h)
    BY <1>7, <2>1
  <2>3. /\ x.survey = h.survey /\ x.user = h.user
        /\ Whole(x) \/ (Bare(x) /\ Gone(x.survey))
    BY <1>10, <2>2, AnswersAre DEF ReadInv
  <2>4. MaySee(req[r], x)
    BY <2>2, <2>3 DEF MaySee
  <2>5. x.id \in DOMAIN stamp
    BY <1>9, <2>2 DEF Known
  <2>6. /\ Sorted(Append(shown[r], x)) /\ Sorted(Tail(rows[r]))
        /\ \A y \in Range(Append(shown[r], x)), z \in Range(Tail(rows[r])) : NotOlder(y, z)
    BY <1>1, <1>6, <1>9, <1>10, <2>1, ShowNext
  <2>7. /\ \A y : Known(y)' <=> Known(y)
        /\ \A id : Gone(id)' <=> Gone(id)
        /\ \A y, z : NotOlder(y, z)' <=> NotOlder(y, z)
        /\ \A s : Sorted(s)' <=> Sorted(s)
        /\ stamp' = stamp
    BY <1>3, NothingWritten DEF ReadInv, writers
  <2>8. \A y \in Range(rows'[r]) : Known(y)' /\ MaySee(req[r], y)
    BY <1>1, <1>7, <2>1, <2>7
  <2>9. \A y \in Range(shown'[r]) :
              /\ MaySee(req[r], y)
              /\ y.id \in DOMAIN stamp'
              /\ Whole(y) \/ (Bare(y) /\ Gone(y.survey)')
    BY <1>1, <1>8, <2>1, <2>3, <2>4, <2>5, <2>7
  <2>10. Sorted(rows[r])' /\ Sorted(shown[r])'
    BY <1>1, <2>6, <2>7
  <2>11. \A y \in Range(shown'[r]), z \in Range(rows'[r]) : NotOlder(y, z)'
    BY <1>1, <2>6, <2>7
  <2> QED
    BY <1>1, <2>1, <2>8, <2>9, <2>10, <2>11 DEF Listing, MaySee, Whole, Bare
<1>14. Paging(r)'
  <2> SUFFICES ASSUME Asks(r, {"catalog", "answers"})' PROVE Paging(r)'
    BY DEF Paging
  <2>1. Paging(r) /\ Asks(r, {"catalog", "answers"})
    BY <1>1 DEF ReadInv, ReaderOK, Asks
  <2>2. PICK in : in = req[r]
    OBVIOUS
  <2>3. \A y : (Alone(y)' <=> Alone(y)) /\ (Live(y.survey)' <=> Live(y.survey)) /\ Newer(in, y)' = Newer(in, y)
    BY <1>3, NothingWritten DEF ReadInv
  <2>4. Range(rows'[r]) \subseteq Submissions
    BY <1>1, <1>7, <2>1 DEF Paging
  <2>5. \A y : Has(shown[r], y) \/ Has(rows[r], y) => Has(shown'[r], y) \/ Has(rows'[r], y)
    <3> SUFFICES ASSUME NEW y, Has(shown[r], y) \/ Has(rows[r], y)
                 PROVE  Has(shown'[r], y) \/ Has(rows'[r], y)
      OBVIOUS
    <3>1. x.id = Head(rows[r]).id
      BY <1>9, <1>10, Zenon
    <3>2. Has(Append(shown[r], x), y) \/ Has(Tail(rows[r]), y)
      BY <1>1, <1>6, <3>1, NextHas
    <3> QED
      BY <1>1, <3>2, Zenon
  <2>6. \A y \in first[r] :
            About(in, y) /\ Alone(y) /\ Live(y.survey) =>
                \/ Has(shown'[r], y)
                \/ Has(rows'[r], y)
                \/ resp'[r] # 200 /\ offset'[r] <= Cardinality(Newer(in, y))
    BY <1>1, <2>1, <2>2, <2>5 DEF Paging
  <2> QED
    BY <1>1, <2>2, <2>3, <2>4, <2>6 DEF Paging, Has, About
<1> QED
  BY <1>1, <1>2, <1>11, <1>12, <1>13, <1>14 DEF ReaderOK, Retrieval, Retrieving, Asks

\* An answer of the catalog comes with the join.
LEMMA ShowAnswersKeeps ==
    ASSUME ReadInv, NEW r \in Readers, ShowAnswers(r)
    PROVE  ReaderOK(r)'
<1> DEFINE h == Head(rows[r])
           x == [h EXCEPT !.answers = {a \in @ : a.question = req[r].id}]
<1>1. /\ pc[r] = "joined" /\ pc'[r] = pc[r] /\ resp'[r] = resp[r]
      /\ req'[r] = req[r] /\ offset'[r] = offset[r] /\ first'[r] = first[r]
      /\ rows[r] # << >>
      /\ rows'[r] = Tail(rows[r]) /\ shown'[r] = Append(shown[r], x)
  BY DEF ShowAnswers, Complete, ReadInv, Tables
<1>2. req[r].op = "answers"
  BY <1>1, StageIs DEF ReadInv, ReaderOK
<1>3. UNCHANGED writers
  BY DEF ShowAnswers
<1>4. \A y \in first[r] : Known(y)'
  BY <1>3, NothingWritten DEF ReadInv, ReaderOK, Staged
<1>5. ReaderTyped(r) /\ resp[r] = 0
  BY <1>1, NoReplyYet DEF ReadInv, ReaderOK
<1>6. IsList(rows[r]) /\ IsList(shown[r])
  BY DEF ReadInv, ReaderOK, Staged
<1>7. /\ IsList(Tail(rows[r]))
      /\ h \in Range(rows[r])
      /\ Range(rows[r]) = {h} \cup Range(Tail(rows[r]))
  BY <1>1, <1>6, TailList
<1>8. IsList(Append(shown[r], x))
  BY <1>6, AppendList
<1>9. x.id = h.id
  <2>1. h \in Submissions
    BY <1>1, <1>2, <1>7 DEF ReadInv, ReaderOK, Paging, Asks
  <2> QED
    BY <2>1, ReadStoreAssumption
<1>10. h = Head(rows[r])
  OBVIOUS
<1> HIDE DEF x, h
<1>11. Staged(r)'
  BY <1>1, <1>2, <1>4, <1>5, <1>7, <1>8 DEF Staged, Queries
<1>12. ReaderTyped(r)'
  BY <1>1, <1>2, <1>5 DEF ReaderTyped
<1>13. Paging(r)'
  <2>1. Paging(r) /\ Asks(r, {"catalog", "answers"})
    BY <1>1, <1>2 DEF ReadInv, ReaderOK, Asks
  <2>2. PICK in : in = req[r]
    OBVIOUS
  <2>3. \A y : (Alone(y)' <=> Alone(y)) /\ (Live(y.survey)' <=> Live(y.survey)) /\ Newer(in, y)' = Newer(in, y)
    BY <1>3, NothingWritten DEF ReadInv
  <2>4. Range(rows'[r]) \subseteq Submissions
    BY <1>1, <1>7, <2>1 DEF Paging
  <2>5. \A y : Has(shown[r], y) \/ Has(rows[r], y) => Has(shown'[r], y) \/ Has(rows'[r], y)
    BY <1>1, <1>6, <1>9, <1>10, NextHas
  <2>6. \A y \in first[r] :
            About(in, y) /\ Alone(y) /\ Live(y.survey) =>
                \/ Has(shown'[r], y)
                \/ Has(rows'[r], y)
                \/ resp'[r] # 200 /\ offset'[r] <= Cardinality(Newer(in, y))
    BY <1>1, <2>1, <2>2, <2>5 DEF Paging
  <2> QED
    BY <1>1, <2>2, <2>3, <2>4, <2>6 DEF Paging, Has, About
<1> QED
  BY <1>1, <1>2, <1>11, <1>12, <1>13 DEF ReaderOK, Listing, Retrieval, Retrieving, Asks

\* The response goes out, when no row is left, or a query failed.
LEMMA EndKeeps ==
    ASSUME ReadInv, NEW r \in Readers, Respond(r) \/ QueryFails(r)
    PROVE  ReaderOK(r)'
<1>1. /\ pc[r] \notin {"idle", "done"}
      /\ req'[r] = req[r] /\ offset'[r] = offset[r] /\ first'[r] = first[r]
      /\ rows'[r] = rows[r] /\ shown'[r] = shown[r]
      /\ \/ /\ pc'[r] = "exists" /\ resp'[r] = resp[r] /\ rows[r] = << >>
            /\ req[r].op \in {"catalog", "answers"}
         \/ /\ pc'[r] = "done" /\ resp'[r] = 200 /\ rows[r] = << >>
            /\ req[r].op \notin {"catalog", "answers"}
            /\ pc[r] \in {"choices", "details", "joined"}
         \/ pc'[r] = "done" /\ resp'[r] = 500
  BY DEF Respond, QueryFails, Goto, Answer, ReadInv, Tables
<1>2. UNCHANGED writers
  BY DEF Respond, QueryFails
<1>3. \A y \in first[r] : Known(y)'
  BY <1>2, NothingWritten DEF ReadInv, ReaderOK, Staged
<1>4. ReaderTyped(r) /\ resp[r] = 0
  BY <1>1, NoReplyYet DEF ReadInv, ReaderOK
<1>5. Staged(r)'
  <2>1. IsList(rows[r]) /\ IsList(shown[r])
    BY DEF ReadInv, ReaderOK, Staged
  <2> QED
    BY <1>1, <1>3, <1>4, <2>1 DEF Staged, Queries
<1>6. ReaderTyped(r)'
  <2>1. /\ req[r] \in Inputs[r]
        /\ first[r] \subseteq Submissions
        /\ offset[r] \in 0..Cardinality(Submissions)
        /\ req[r].op \in {"submissions", "mine"} =>
              Len(shown[r]) + Len(rows[r]) <= Cardinality(Submissions)
    BY <1>1, <1>4 DEF ReaderTyped
  <2>2. /\ resp'[r] \in {0, 200, 500}
        /\ resp'[r] = 0 <=> pc'[r] # "done"
        /\ pc'[r] \in {"exists", "done"}
    BY <1>1, <1>4
  <2>3. /\ req'[r] \in Inputs[r]
        /\ first'[r] \subseteq Submissions
        /\ offset'[r] \in 0..Cardinality(Submissions)
    BY <1>1, <2>1
  <2>4. req'[r].op \in {"submissions", "mine"} =>
            Len(shown'[r]) + Len(rows'[r]) <= Cardinality(Submissions)
    BY <1>1, <2>1, Zenon
  <2> QED
    BY <2>2, <2>3, <2>4, ZenonT(60) DEF ReaderTyped
<1>7. Listing(r)'
  <2>1. /\ \A y : Known(y)' <=> Known(y)
        /\ \A id : Gone(id)' <=> Gone(id)
        /\ \A y, z : NotOlder(y, z)' <=> NotOlder(y, z)
        /\ \A s : Sorted(s)' <=> Sorted(s)
        /\ stamp' = stamp
    BY <1>2, NothingWritten DEF ReadInv, writers
  <2>2. Listing(r)
    BY DEF ReadInv, ReaderOK
  <2>3. Sorted(rows[r]) /\ Sorted(shown[r]) => Sorted(rows[r])' /\ Sorted(shown[r])'
    BY <1>1, <2>1
  <2> QED
    BY <1>1, <2>1, <2>2, <2>3 DEF Listing, MaySee, Whole, Bare, Asks
<1>8. Retrieval(r)'
  <2> SUFFICES ASSUME req'[r].op = "survey", pc'[r] \in {"questions", "choices"} \/ resp'[r] = 200
               PROVE  Retrieval(r)'
    BY DEF Retrieval, Retrieving, Asks
  <2>1. /\ pc'[r] = "done" /\ resp'[r] = 200
        /\ pc[r] \in {"choices", "details", "joined"}
        /\ req[r].op = "survey"
    BY <1>1, <1>4
  <2>2. pc[r] = "choices"
    BY <2>1, StageIs DEF ReadInv, ReaderOK
  <2>3. /\ \E s \in Surveys : s.id = req[r].id
        /\ req[r].id \in spent
        /\ Range(rows[r]) \subseteq QuestionsOf(req[r].id)
        /\ Range(shown[r]) \subseteq PartsOf(req[r].id)
        /\ Live(req[r].id) =>
              /\ Range(shown[r]) \cup Range(rows[r]) = QuestionsOf(req[r].id)
              /\ Len(shown[r]) + Len(rows[r]) = Cardinality(QuestionsOf(req[r].id))
    BY <2>1, <2>2 DEF ReadInv, ReaderOK, Retrieval, Retrieving, Retrieved, Asks
  <2>4. Live(req[r].id)' <=> Live(req[r].id)
    BY <1>1, <1>2 DEF Live, writers, store
  <2>5. spent' = spent
    BY <1>2 DEF writers, store
  <2> QED
    BY <1>1, <2>3, <2>4, <2>5, PublishedStays, ZenonT(60) DEF Retrieval, Retrieving, Retrieved
<1>9. Paging(r)'
  <2>1. Paging(r)
    BY DEF ReadInv, ReaderOK
  <2>2. PICK in : in = req[r]
    OBVIOUS
  <2>3. \A x : (Alone(x)' <=> Alone(x)) /\ (Live(x.survey)' <=> Live(x.survey)) /\ Newer(in, x)' = Newer(in, x)
    BY <1>2, NothingWritten DEF ReadInv
  <2>4. req[r].op \in {"catalog", "answers"} => resp'[r] # 200
    BY <1>1, <1>4
  <2> QED
    BY <1>1, <2>1, <2>2, <2>3, <2>4 DEF Paging, Has, About, Asks
<1> QED
  BY <1>5, <1>6, <1>7, <1>8, <1>9 DEF ReaderOK

\* A client's step touches nobody else.
LEMMA StepFrame ==
    ASSUME ReadInv, NEW r \in Readers, Ask(r) \/ Step(r) \/ QueryFails(r)
    PROVE  UNCHANGED writers /\ Tables' /\ \A q \in Readers \ {r} : Same(q)
<1> USE DEF ReadInv, Tables, Same, Goto, Answer
<1>1. CASE Ask(r)
  BY <1>1 DEF Ask
<1>2. CASE ListSurveys(r)
  BY <1>2 DEF ListSurveys
<1>3. CASE RetrieveSurvey(r)
  BY <1>3 DEF RetrieveSurvey
<1>4. CASE RetrieveQuestions(r)
  BY <1>4 DEF RetrieveQuestions
<1>5. CASE RetrieveChoices(r)
  BY <1>5 DEF RetrieveChoices, Complete
<1>6. CASE ListSubmissions(r)
  BY <1>6 DEF ListSubmissions
<1>7. CASE Exists(r)
  BY <1>7 DEF Exists
<1>8. CASE ReadPage(r)
  BY <1>8 DEF ReadPage
<1>9. CASE ListAnswers(r)
  BY <1>9 DEF ListAnswers, Complete
<1>10. CASE ShowAnswers(r)
  BY <1>10 DEF ShowAnswers, Complete
<1>11. CASE Respond(r)
  BY <1>11 DEF Respond
<1>12. CASE QueryFails(r)
  BY <1>12 DEF QueryFails
<1> QED
  BY <1>1, <1>2, <1>3, <1>4, <1>5, <1>6, <1>7, <1>8, <1>9, <1>10, <1>11, <1>12 DEF Step

\* A client's step keeps what holds of it.
LEMMA StepKeeps ==
    ASSUME ReadInv, NEW r \in Readers, Ask(r) \/ Step(r) \/ QueryFails(r)
    PROVE  ReaderOK(r)'
BY AskKeeps, ListSurveysKeeps, RetrieveSurveyKeeps, RetrieveQuestionsKeeps, RetrieveChoicesKeeps,
   ListSubmissionsKeeps, ExistsKeeps, ReadPageKeeps, ListAnswersKeeps, ShowAnswersKeeps, EndKeeps
   DEF Step

--------------------------------------------------------------------------------
\* Theorems.

\* Nobody has asked, and nothing was written.
LEMMA ReadInit == Init => ReadInv
<1> SUFFICES ASSUME Init PROVE ReadInv
  OBVIOUS
<1>1. Tables
  BY DEF Init, Tables
<1>2. StoreTyped
  <2>1. DOMAIN stamp = {} /\ stamp \in [DOMAIN stamp -> 0..clock]
    BY DEF Init
  <2> QED
    BY <2>1, MaxClockAssumption DEF Init, Store!Init, StoreTyped
<1>3. StoreOK
  BY FS_EmptySet DEF Init, Store!Init, StoreOK
<1>4. ASSUME NEW r \in Readers
      PROVE  ReaderOK(r)
  <2>1. /\ pc[r] = "idle" /\ offset[r] = 0 /\ rows[r] = << >> /\ shown[r] = << >>
        /\ first[r] = {} /\ resp[r] = 0
    BY DEF Init
  <2>2. Cardinality(Submissions) \in Nat
    BY ReadStoreAssumption, FS_CardinalityType
  <2>3. ReaderTyped(r)
    BY <2>1, <2>2 DEF ReaderTyped
  <2>4. Staged(r)
    BY <2>1, EmptyList DEF Staged
  <2>5. Listing(r) /\ Retrieval(r) /\ Paging(r)
    BY <2>1 DEF Listing, Retrieval, Retrieving, Paging, Asks
  <2> QED
    BY <2>3, <2>4, <2>5 DEF ReaderOK
<1> QED
  BY <1>1, <1>2, <1>3, <1>4 DEF ReadInv

\* Every step keeps the invariant.
LEMMA ReadNext == ReadInv /\ [Next]_vars => ReadInv'
<1> SUFFICES ASSUME ReadInv, [Next]_vars PROVE ReadInv'
  OBVIOUS
<1>1. CASE Tick \/ (\E x \in Submissions : Prepare(x)) \/ Write
  <2>1. StoreTyped' /\ StoreOK' /\ Evolves /\ UNCHANGED readers
    BY <1>1, WritersEvolve DEF ReadInv
  <2>2. \A r \in Readers : Same(r)
    BY <2>1 DEF readers, Same
  <2>3. \A r \in Readers : ReaderOK(r)'
    BY <2>1, <2>2, OthersKeep DEF ReadInv
  <2> QED
    BY <2>1, <2>3 DEF ReadInv, Tables, readers
<1>2. CASE \E r \in Readers : Ask(r) \/ Step(r) \/ QueryFails(r)
  <2>1. PICK r \in Readers : Ask(r) \/ Step(r) \/ QueryFails(r)
    BY <1>2
  <2>2. UNCHANGED writers /\ Tables' /\ \A q \in Readers \ {r} : Same(q)
    BY <2>1, StepFrame
  <2>3. StoreTyped' /\ StoreOK' /\ Evolves
    BY <2>2, NothingWritten DEF ReadInv
  <2>4. \A q \in Readers \ {r} : ReaderOK(q)'
    BY <2>2, <2>3, OthersKeep DEF ReadInv
  <2>5. ReaderOK(r)'
    BY <2>1, StepKeeps
  <2> QED
    BY <2>2, <2>3, <2>4, <2>5 DEF ReadInv
<1>3. CASE UNCHANGED vars
  <2>1. UNCHANGED writers /\ UNCHANGED readers
    BY <1>3 DEF vars
  <2>2. StoreTyped' /\ StoreOK' /\ Evolves
    BY <2>1, NothingWritten DEF ReadInv
  <2>3. \A r \in Readers : Same(r)
    BY <2>1 DEF readers, Same
  <2>4. \A r \in Readers : ReaderOK(r)'
    BY <2>2, <2>3, OthersKeep DEF ReadInv
  <2> QED
    BY <2>1, <2>2, <2>4 DEF ReadInv, Tables, readers
<1> QED
  BY <1>1, <1>2, <1>3 DEF Next, Quiet

\* The invariant holds of every behaviour.
THEOREM ReadInvariance == Spec => []ReadInv
BY ReadInit, ReadNext, PTL DEF Spec

\* What the store and the clients hold has its type, and no list holds more than
\* what was ever submitted (db.go:501-550).
THEOREM ReadsTypeCorrect == Spec => []TypeOK
<1>1. ReadInv => TypeOK
  <2> SUFFICES ASSUME ReadInv PROVE TypeOK
    OBVIOUS
  <2>1. StoreTyped /\ \A r \in Readers : ReaderTyped(r)
    BY DEF ReadInv, ReaderOK
  <2> QED
    BY <2>1, Zenon DEF StoreTyped, ReaderTyped, TypeOK
<1> QED
  BY <1>1, ReadInvariance, PTL

\* GetSingleSurvey shows the survey whole, or it was retracted during the read
\* (db.go:310-365).
THEOREM TornOnlyByRetraction == Spec => []SurveyTornOnlyByRetraction
<1>1. ReadInv => SurveyTornOnlyByRetraction
  <2> SUFFICES ASSUME ReadInv, NEW r \in Readers, Got(r, "survey")
               PROVE  LET all   == Published(req[r].id).questions
                          part  == all \cup {[q EXCEPT !.choices = {}] : q \in all}
                          whole == Range(shown[r]) = all /\ Len(shown[r]) = Cardinality(all)
                      IN  whole \/ (~Live(req[r].id) /\ Range(shown[r]) \subseteq part)
    BY DEF SurveyTornOnlyByRetraction
  <2>1. rows[r] = << >>
    BY DEF ReadInv, ReaderOK, Staged, Got
  <2>2. Range(rows[r]) = {} /\ Len(rows[r]) = 0
    BY <2>1, EmptyList
  <2>3. /\ Range(shown[r]) \subseteq PartsOf(req[r].id)
        /\ Live(req[r].id) =>
              /\ Range(shown[r]) \cup Range(rows[r]) = QuestionsOf(req[r].id)
              /\ Len(shown[r]) + Len(rows[r]) = Cardinality(QuestionsOf(req[r].id))
    BY DEF ReadInv, ReaderOK, Retrieval, Retrieving, Retrieved, Asks, Got
  <2>4. Len(shown[r]) \in Nat
    BY DEF ReadInv, ReaderOK, Staged, IsList
  <2>5. Live(req[r].id) => Len(shown[r]) = Cardinality(QuestionsOf(req[r].id))
    BY <2>2, <2>3, <2>4
  <2> QED
    BY <2>2, <2>3, <2>5 DEF PartsOf, QuestionsOf
<1> QED
  BY <1>1, ReadInvariance, PTL

\* A listing shows what the caller may see, newest first, and each submission whole
\* unless its survey was retracted (db.go:501-550, 600-644).
THEOREM ListingsAreTruthful == Spec => []ListingsTruthful
<1>1. ReadInv => ListingsTruthful
  <2> SUFFICES ASSUME ReadInv, NEW r \in Readers, Got(r, "submissions") \/ Got(r, "mine")
               PROVE  /\ \A x \in Range(shown[r]) :
                            /\ IF req[r].op = "mine" THEN x.user = req[r].id ELSE x.survey = req[r].id
                            /\ x.user = req[r].user \/ req[r].user \in Admins
                            /\ Whole(x) \/ (Bare(x) /\ ~Live(x.survey))
                      /\ \A i, j \in DOMAIN shown[r] :
                            i < j => stamp[shown[r][i].id] >= stamp[shown[r][j].id]
    BY DEF ListingsTruthful
  <2>1. /\ \A x \in Range(shown[r]) :
              /\ MaySee(req[r], x)
              /\ Whole(x) \/ (Bare(x) /\ Gone(x.survey))
        /\ Sorted(shown[r])
    BY DEF ReadInv, ReaderOK, Listing, Asks, Got
  <2> QED
    BY <2>1 DEF MaySee, Gone, Sorted, NotOlder
<1> QED
  BY <1>1, ReadInvariance, PTL

\* Who pages until a page is empty has seen all that was there at the start, whatever
\* arrives meanwhile (db.go:552-598, 646-697).
THEOREM PagesAreComplete == Spec => []PagesMissNothing
<1>1. ReadInv => PagesMissNothing
  <2> SUFFICES ASSUME ReadInv, NEW r \in Readers, Got(r, "catalog") \/ Got(r, "answers"),
                      NEW x \in first[r], About(req[r], x), Alone(x), Live(x.survey)
               PROVE  \E y \in Range(shown[r]) : y.id = x.id
    BY DEF PagesMissNothing, About, Alone
  <2>1. rows[r] = << >> /\ resp[r] = 200
    BY DEF ReadInv, ReaderOK, Staged, Got
  <2>2. ~Has(rows[r], x)
    BY <2>1, EmptyList DEF Has
  <2>3. Has(shown[r], x)
    BY <2>1, <2>2 DEF ReadInv, ReaderOK, Paging, Asks, Got
  <2> QED
    BY <2>3 DEF Has
<1> QED
  BY <1>1, ReadInvariance, PTL

================================================================================
