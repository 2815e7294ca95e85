------------------------ MODULE AccountTrading_proofs -----------------------
(***************************************************************************)
(* What holds for every command of AccountTrading, for any prices, lots,   *)
(* limits and keys.  A command that closes several positions is a function *)
(* of the positions already gone through; facts about it are proved by     *)
(* counting up through them.                                               *)
(***************************************************************************)
EXTENDS AccountTrading, FiniteSetTheorems, WellFoundedInduction, TLAPS

-----------------------------------------------------------------------------
(* Counting up.                                                            *)

\* A set that holds 0, and with every number up to n the next one, holds all.
LEMMA CountUp ==
  ASSUME NEW n \in Nat, NEW B, 0 \in B, \A p \in 1..n : p - 1 \in B => p \in B
  PROVE  \A p \in 0..n : p \in B
<1> DEFINE W == {p \in 0..n : p \notin B}
<1>1. SUFFICES ASSUME W # {} PROVE FALSE
  OBVIOUS
<1>2. IsWellFoundedOn(OpToRel(<, Nat), Nat)
  BY NatLessThanWellFounded
<1>3. W \subseteq Nat
  OBVIOUS
<1>4. PICK p \in W : \A q \in W : <<q, p>> \notin OpToRel(<, Nat)
  BY <1>1, <1>2, <1>3, WFMin
<1>5. \A q \in W : ~(q < p)
  BY <1>3, <1>4 DEF OpToRel
<1>6. p # 0 /\ p \in 1..n /\ p - 1 \in 0..n /\ p - 1 < p
  OBVIOUS
<1>7. p - 1 \in B
  BY <1>5, <1>6
<1> QED BY <1>6, <1>7
-----------------------------------------------------------------------------
(* Totals.                                                                 *)

SumsUp(g, f, n) == g = [i \in 0..n |-> IF i = 0 THEN 0 ELSE g[i - 1] + f[i]]

LEMMA SumsExist == ASSUME NEW n \in Nat, NEW f PROVE \E g : SumsUp(g, f, n)
<1> DEFINE B == {p \in 0..n : \E g : SumsUp(g, f, p)}
<1>1. 0 \in B
  <2> DEFINE g == [i \in 0..0 |-> 0]
  <2>1. g = [i \in 0..0 |-> IF i = 0 THEN 0 ELSE g[i - 1] + f[i]]
    OBVIOUS
  <2> HIDE DEF g
  <2> QED BY <2>1 DEF SumsUp
<1>2. ASSUME NEW p \in 1..n, p - 1 \in B PROVE p \in B
  <2>1. PICK g : SumsUp(g, f, p - 1)
    BY <1>2
  <2> DEFINE h == [i \in 0..p |-> IF i = p THEN g[p - 1] + f[p] ELSE g[i]]
  <2>2. ASSUME NEW i \in 0..p PROVE h[i] = IF i = 0 THEN 0 ELSE h[i - 1] + f[i]
    <3>1. CASE i = p
      BY <3>1
    <3>2. CASE i # p
      <4>1. i \in 0..(p - 1) /\ (i # 0 => i - 1 \in 0..p /\ i - 1 # p)
        BY <3>2
      <4>2. g[i] = IF i = 0 THEN 0 ELSE g[i - 1] + f[i]
        BY <2>1, <4>1 DEF SumsUp
      <4> QED BY <3>2, <4>1, <4>2
    <3> QED BY <3>1, <3>2
  <2>3. h = [i \in 0..p |-> h[i]]
    OBVIOUS
  <2> HIDE DEF h
  <2>4. SumsUp(h, f, p)
    BY <2>2, <2>3 DEF SumsUp
  <2> QED BY <2>4
<1> HIDE DEF B
<1>3. n \in B
  BY <1>1, <1>2, CountUp
<1> QED BY <1>3 DEF B

\* The partial sums of a list of integers.
LEMMA TotalSums ==
  ASSUME NEW f \in Seq(Int)
  PROVE  \E g : /\ g[0] = 0 /\ Total(f) = g[Len(f)]
                /\ \A i \in 0..Len(f) : g[i] \in Int
                /\ \A i \in 1..Len(f) : g[i] = g[i - 1] + f[i]
<1> DEFINE g == CHOOSE c : SumsUp(c, f, Len(f))
<1>1. Len(f) \in Nat
  OBVIOUS
<1>2. SumsUp(g, f, Len(f))
  BY <1>1, SumsExist
<1>3. Total(f) = g[Len(f)]
  BY DEF Total, SumsUp
<1> HIDE DEF g
<1>4. g[0] = 0 /\ \A i \in 1..Len(f) : g[i] = g[i - 1] + f[i]
  BY <1>1, <1>2 DEF SumsUp
<1> DEFINE B == {i \in 0..Len(f) : g[i] \in Int}
<1>5. 0 \in B
  BY <1>4
<1>6. ASSUME NEW p \in 1..Len(f), p - 1 \in B PROVE p \in B
  <2>1. f[p] \in Int /\ p \in 0..Len(f) /\ g[p - 1] \in Int
    BY <1>6
  <2> QED BY <1>4, <2>1
<1> HIDE DEF B
<1>7. \A p \in 0..Len(f) : p \in B
  BY <1>1, <1>5, <1>6, CountUp
<1> QED BY <1>3, <1>4, <1>7 DEF B

LEMMA TotalIsInt == ASSUME NEW f \in Seq(Int) PROVE Total(f) \in Int
BY TotalSums

LEMMA TotalOfNone == Total(<<>>) = 0
<1>1. <<>> \in Seq(Int) /\ Len(<<>>) = 0
  OBVIOUS
<1> QED BY <1>1, TotalSums

\* No term larger, the total is not larger.
LEMMA TotalIsMonotone ==
  ASSUME NEW f \in Seq(Int), NEW h \in Seq(Int), Len(h) = Len(f),
         \A i \in 1..Len(f) : f[i] <= h[i]
  PROVE  Total(f) <= Total(h)
<1>0. Len(f) \in Nat /\ Len(f) \in 0..Len(f)
  OBVIOUS
<1>1. PICK g : /\ g[0] = 0 /\ Total(f) = g[Len(f)]
               /\ \A i \in 0..Len(f) : g[i] \in Int
               /\ \A i \in 1..Len(f) : g[i] = g[i - 1] + f[i]
  BY TotalSums
<1>2. PICK k : /\ k[0] = 0 /\ Total(h) = k[Len(f)]
               /\ \A i \in 0..Len(f) : k[i] \in Int
               /\ \A i \in 1..Len(f) : k[i] = k[i - 1] + h[i]
  BY TotalSums
<1> DEFINE B == {i \in 0..Len(f) : g[i] <= k[i]}
<1>3. 0 \in B
  BY <1>1, <1>2
<1>4. ASSUME NEW p \in 1..Len(f), p - 1 \in B PROVE p \in B
  <2>1. /\ g[p] = g[p - 1] + f[p] /\ k[p] = k[p - 1] + h[p]
        /\ g[p - 1] \in Int /\ k[p - 1] \in Int /\ f[p] \in Int /\ h[p] \in Int /\ p \in 0..Len(f)
    BY <1>1, <1>2
  <2> QED BY <1>4, <2>1
<1> HIDE DEF B
<1>5. Len(f) \in B
  BY <1>0, <1>3, <1>4, CountUp
<1> QED BY <1>1, <1>2, <1>5 DEF B

\* Changing one term changes the total by as much.
LEMMA TotalChangesWith ==
  ASSUME NEW f \in Seq(Int), NEW h \in Seq(Int), Len(h) = Len(f), NEW p \in 1..Len(f),
         \A i \in 1..Len(f) : i # p => h[i] = f[i]
  PROVE  Total(h) = Total(f) + h[p] - f[p]
<1>0. Len(f) \in Nat /\ Len(f) \in 0..Len(f)
  OBVIOUS
<1>1. PICK g : /\ g[0] = 0 /\ Total(f) = g[Len(f)]
               /\ \A i \in 0..Len(f) : g[i] \in Int
               /\ \A i \in 1..Len(f) : g[i] = g[i - 1] + f[i]
  BY TotalSums
<1>2. PICK k : /\ k[0] = 0 /\ Total(h) = k[Len(h)]
               /\ \A i \in 0..Len(h) : k[i] \in Int
               /\ \A i \in 1..Len(h) : k[i] = k[i - 1] + h[i]
  BY TotalSums
<1> DEFINE B == {i \in 0..Len(f) : k[i] = IF i < p THEN g[i] ELSE g[i] + h[p] - f[p]}
<1>3. 0 \in B
  BY <1>1, <1>2
<1>4. ASSUME NEW q \in 1..Len(f), q - 1 \in B PROVE q \in B
  <2>1. /\ g[q] = g[q - 1] + f[q] /\ k[q] = k[q - 1] + h[q]
        /\ g[q - 1] \in Int /\ k[q - 1] \in Int /\ f[q] \in Int /\ h[q] \in Int
        /\ f[p] \in Int /\ h[p] \in Int /\ q \in 0..Len(f)
    <3>1. q \in 0..Len(f) /\ q - 1 \in 0..Len(f)
      BY <1>0
    <3>2. f[q] \in Int /\ f[p] \in Int
      OBVIOUS
    <3>3. h[q] \in Int /\ h[p] \in Int /\ q \in 1..Len(h)
      OBVIOUS
    <3>4. g[q] = g[q - 1] + f[q] /\ g[q - 1] \in Int
      BY <1>1, <3>1
    <3>5. k[q] = k[q - 1] + h[q] /\ k[q - 1] \in Int
      BY <1>2, <3>1, <3>3
    <3> QED BY <3>1, <3>2, <3>3, <3>4, <3>5
  <2>2. /\ k[q - 1] = IF q - 1 < p THEN g[q - 1] ELSE g[q - 1] + h[p] - f[p]
        /\ p \in Int /\ q \in Int /\ q # p => h[q] = f[q]
    BY <1>0, <1>4
  <2>3. k[q] = IF q < p THEN g[q] ELSE g[q] + h[p] - f[p]
    <3>1. CASE q = p
      BY <2>1, <2>2, <3>1
    <3>2. CASE q < p
      BY <2>1, <2>2, <3>2
    <3>3. CASE q > p
      <4>1. ~(q - 1 < p) /\ ~(q < p) /\ h[q] = f[q]
        BY <2>2, <3>3
      <4>2. k[q - 1] = g[q - 1] + h[p] - f[p]
        BY <2>2, <4>1
      <4>3. k[q] = g[q] + h[p] - f[p]
        <5>1. /\ g[q - 1] \in Int /\ h[p] \in Int /\ f[p] \in Int /\ f[q] \in Int
              /\ g[q] = g[q - 1] + f[q]
          BY <2>1
        <5>2. k[q] = (g[q - 1] + h[p] - f[p]) + f[q]
          BY <2>1, <4>1, <4>2
        <5> QED BY ONLY <5>1, <5>2
      <4> QED BY <4>1, <4>3
    <3> QED BY <2>2, <3>1, <3>2, <3>3
  <2> QED BY <2>1, <2>3
<1> HIDE DEF B
<1>5. Len(f) \in B
  BY <1>0, <1>3, <1>4, CountUp
<1> QED BY <1>1, <1>2, <1>5 DEF B

\* A list with one term more.
LEMMA TotalAppends ==
  ASSUME NEW f \in Seq(Int), NEW h \in Seq(Int), Len(h) = Len(f) + 1,
         \A i \in 1..Len(f) : h[i] = f[i]
  PROVE  Total(h) = Total(f) + h[Len(h)]
<1>0. Len(f) \in Nat /\ Len(f) \in 0..Len(f)
  OBVIOUS
<1>1. PICK g : /\ g[0] = 0 /\ Total(f) = g[Len(f)]
               /\ \A i \in 0..Len(f) : g[i] \in Int
               /\ \A i \in 1..Len(f) : g[i] = g[i - 1] + f[i]
  BY TotalSums
<1>2. PICK k : /\ k[0] = 0 /\ Total(h) = k[Len(h)]
               /\ \A i \in 0..Len(h) : k[i] \in Int
               /\ \A i \in 1..Len(h) : k[i] = k[i - 1] + h[i]
  BY TotalSums
<1> DEFINE B == {i \in 0..Len(f) : k[i] = g[i]}
<1>3. 0 \in B
  BY <1>1, <1>2
<1>4. ASSUME NEW q \in 1..Len(f), q - 1 \in B PROVE q \in B
  BY <1>1, <1>2, <1>4
<1> HIDE DEF B
<1>5. Len(f) \in B
  BY <1>0, <1>3, <1>4, CountUp
<1>6. Len(h) \in 1..Len(h) /\ Len(h) - 1 = Len(f)
  OBVIOUS
<1> QED BY <1>1, <1>2, <1>5, <1>6 DEF B

-----------------------------------------------------------------------------
(* The book.                                                               *)

\* The days are integers, the last one is a day.
LEMMA DaysType == Days \subseteq Int /\ MaxDay \in Days
  BY DayAssumption, SMT DEF Days

LEMMA BalanceType == ASSUME NEW b \in Books PROVE Balance(b) \in Int
  BY DaysType DEF Balance, Books

\* The most recent row with a status is a day's row and has that status.
LEMMA LatestIsThat ==
  ASSUME NEW b, NEW st, HasLatest(b, st)
  PROVE  Latest(b, st) \in Days /\ b.rows[Latest(b, st)].st = st
  BY DEF HasLatest, Latest, IsLatest, DaysThat

\* A posting on a day changes the balance by its amount and writes no row.
LEMMA PostIs ==
  ASSUME NEW b \in Books, NEW day \in Days, NEW amount \in Int
  PROVE  /\ Post(b, day, amount) \in Books
         /\ Post(b, day, amount).rows = b.rows /\ Post(b, day, amount).status = b.status
         /\ Balance(Post(b, day, amount)) = Balance(b) + amount
  <1> DEFINE bal == [d \in Days |-> IF d >= day THEN b.bal[d] + amount ELSE b.bal[d]]
  <1>1. bal \in [Days -> Int]
    BY DaysType, SMT DEF Books
  <1>2. Post(b, day, amount) = [status |-> b.status, bal |-> bal, rows |-> b.rows]
    BY DEF Post, Books
  <1>3. MaxDay >= day
    BY DayAssumption, SMT DEF Days
  <1>4. bal[MaxDay] = b.bal[MaxDay] + amount
    BY <1>3, DaysType
  <1> HIDE DEF bal
  <1> QED BY <1>1, <1>2, <1>4 DEF Books, Balance

\* The floor and the highest balance that a new row starts on are integers.
LEMMA PreviousTypes ==
  ASSUME NEW b \in Books
  PROVE  PreviousFloor(b) \in Int /\ PreviousHighest(b) \in Int
  <1>1. CASE HasLatest(b, "finalized")
    <2>1. b.rows[Latest(b, "finalized")] \in Rows
      BY <1>1, LatestIsThat DEF Books
    <2> QED BY <1>1, <2>1 DEF PreviousFloor, PreviousHighest, Rows
  <1>2. CASE ~HasLatest(b, "finalized")
    BY <1>2, RulesAssumption, SMT DEF PreviousFloor, PreviousHighest, InitialMaximumLossFloor
  <1> QED BY <1>1, <1>2

\* ensureTodaySnapshot opens a day's row, if it has none.
LEMMA EnsureIs ==
  ASSUME NEW b \in Books, NEW day \in Days, NEW balance \in Int, NEW equity \in Int
  PROVE  LET c == EnsureTodaySnapshot(b, day, balance, equity)
         IN  /\ c \in Books /\ c.bal = b.bal /\ c.status = b.status
             /\ \A d \in Days : d # day => c.rows[d] = b.rows[d]
             /\ b.rows[day].st # "none" => c.rows[day] = b.rows[day]
             /\ b.rows[day].st = "none" => c.rows[day].st = "open"
  <1> DEFINE c == EnsureTodaySnapshot(b, day, balance, equity)
             row == NewRow(b, balance, equity)
  <1>1. row \in Rows /\ row.st = "open"
    <2> DEFINE first == ~HasLatest(b, "finalized")
               sod == IF first THEN Nominal ELSE balance
               ref == IF first THEN Nominal ELSE DailyReference(sod, equity)
    <2>1. sod \in Int /\ ref \in Int
      BY RulesAssumption, SMT DEF DailyReference, Larger
    <2>2. row = [st |-> "open", sod |-> sod, reference |-> ref,
                 floorBefore |-> PreviousFloor(b), eod |-> 0, floorAfter |-> 0, highest |-> 0]
      BY DEF NewRow
    <2> HIDE DEF sod, ref, row
    <2> QED BY <2>1, <2>2, PreviousTypes DEF Rows
  <1>2. CASE b.rows[day].st # "none"
    BY <1>2 DEF EnsureTodaySnapshot
  <1>3. CASE b.rows[day].st = "none"
    <2>1. c = [status |-> b.status, bal |-> b.bal, rows |-> [b.rows EXCEPT ![day] = row]]
      BY <1>3 DEF EnsureTodaySnapshot, Books
    <2> HIDE DEF row, c
    <2>2. c \in Books
      BY <1>1, <2>1 DEF Books
    <2>3. \A d \in Days : c.rows[d] = IF d = day THEN row ELSE b.rows[d]
      BY <2>1 DEF Books
    <2> QED BY <1>1, <1>3, <2>1, <2>2, <2>3 DEF c
  <1> QED BY <1>2, <1>3

\* A finalization writes the row of an elapsed day.
LEMMA FinalizeIs ==
  ASSUME NEW b \in Books, NEW day \in Days
  PROVE  LET c == FinalizeElapsedDay(b, day)
         IN  /\ c \in Books /\ c.bal = b.bal
             /\ c.status \in {b.status, "active"} /\ (b.status = "breached" => c.status = b.status)
             /\ \A d \in Days : ~(d < day) => c.rows[d] = b.rows[d]
  <1> DEFINE c == FinalizeElapsedDay(b, day)
  <1>1. CASE ~BoundaryElapsed(b, day)
    <2>1. c = b
      BY <1>1 DEF FinalizeElapsedDay
    <2> QED BY <2>1
  <1>2. CASE BoundaryElapsed(b, day)
    <2> DEFINE e == Latest(b, "open")
               row == FinalizedRow(b, e)
               highest == Larger(PreviousHighest(b), b.bal[e])
               after == NextMaximumLossFloor(b.rows[e].floorBefore, highest)
               status == IF b.status = "soft_locked" THEN "active" ELSE b.status
    <2>1. e \in Days /\ e < day
      BY <1>2, LatestIsThat DEF BoundaryElapsed
    <2>2. c = [status |-> status, bal |-> b.bal, rows |-> [b.rows EXCEPT ![e] = row]]
      BY <1>2 DEF FinalizeElapsedDay, Books
    <2>3. b.rows[e] \in Rows /\ b.bal[e] \in Int /\ b.rows[e].floorBefore \in Int
      BY <2>1 DEF Books, Rows
    <2>4. highest \in Int
      BY <2>3, PreviousTypes DEF Larger
    <2>5. after \in Int
      <3> HIDE DEF highest
      <3> QED BY <2>3, <2>4, RulesAssumption, SMT DEF NextMaximumLossFloor, Smaller, Larger
    <2>6. row = [b.rows[e] EXCEPT !.st = "finalized", !.eod = b.bal[e], !.highest = highest,
                   !.floorAfter = after]
      BY DEF FinalizedRow
    <2>7. status \in Statuses
      BY DEF Books, Statuses
    <2> HIDE DEF row, highest, after, e, status, c
    <2>8. row \in Rows
      BY <2>3, <2>4, <2>5, <2>6 DEF Rows
    <2>9. c \in Books
      BY <2>1, <2>2, <2>7, <2>8 DEF Books
    <2>10. \A d \in Days : c.rows[d] = IF d = e THEN row ELSE b.rows[d]
      BY <2>1, <2>2 DEF Books
    <2>11. c.bal = b.bal /\ (c.status \in {b.status, "active"} /\ (b.status = "breached" => c.status = b.status))
      BY <2>2 DEF status
    <2>12. \A d \in Days : ~(d < day) => c.rows[d] = b.rows[d]
      BY <2>1, <2>10
    <2> QED BY <2>9, <2>11, <2>12 DEF c
  <1> QED BY <1>1, <1>2

\* An account never has a row after the current day, nor that day finalized.
RowsUpTo(b, day) ==
  /\ b.rows[day].st # "finalized"
  /\ \A d \in Days : d > day => b.rows[d].st = "none"

\* The floor in force is then that of the current day's row.
LEMMA FloorOfToday ==
  ASSUME NEW b \in Books, NEW day \in Days, RowsUpTo(b, day), b.rows[day].st = "open"
  PROVE  FloorInForce(b) = b.rows[day].floorBefore
  <1> DEFINE days == {d \in Days : b.rows[d].st # "none"}
  <1>1. day \in days /\ \A d \in days : d <= day
    BY DaysType, SMT DEF RowsUpTo
  <1>2. \A x \in days : (\A y \in days : x >= y) => x = day
    BY <1>1, DaysType, SMT
  <1>3. \A y \in days : day >= y
    BY <1>1, DaysType, SMT
  <1>4. Max(days) = day
    BY <1>1, <1>2, <1>3 DEF Max
  <1> QED BY <1>1, <1>4 DEF FloorInForce

\* What an evaluation does to the book.
LEMMA EvaluatedIs ==
  ASSUME NEW b \in Books, NEW day \in Days, NEW u \in Int, NEW holding \in BOOLEAN
  PROVE  LET r == Evaluated(b, day, u, holding, "trade_order")
         IN  /\ r.book \in Books /\ r.book.bal = b.bal /\ r.breaches \in BOOLEAN
             /\ b.status = "breached" => r.book.status = "breached"
             /\ r.breaches <=> b.status # "breached" /\ r.book.status = "breached"
             /\ RowsUpTo(b, day) =>
                  /\ RowsUpTo(r.book, day)
                  /\ r.book.status # "breached" => Balance(b) + u > FloorInForce(r.book)
  <1> DEFINE f == FinalizeElapsedDay(b, day)
             c == CaughtUp(b, day, u)
             in == EngineInput(c, day, u, holding)
             to == RecommendedStatus(in)
             r == Evaluated(b, day, u, holding, "trade_order")
  <1>1. Balance(b) \in Int /\ Balance(b) + u \in Int
    BY BalanceType
  <1>2. /\ f \in Books /\ f.bal = b.bal
        /\ f.status \in {b.status, "active"} /\ (b.status = "breached" => f.status = b.status)
        /\ \A d \in Days : ~(d < day) => f.rows[d] = b.rows[d]
    BY FinalizeIs
  <1>3. /\ c \in Books /\ c.bal = f.bal /\ c.status = f.status
        /\ \A d \in Days : d # day => c.rows[d] = f.rows[d]
        /\ f.rows[day].st # "none" => c.rows[day] = f.rows[day]
        /\ f.rows[day].st = "none" => c.rows[day].st = "open"
    <2> HIDE DEF f
    <2> QED BY <1>1, <1>2, EnsureIs DEF CaughtUp, f
  <1>4. in.status = c.status /\ in.equity = Balance(c) + u /\ in.floor = c.rows[day].floorBefore
    BY DEF EngineInput
  <1> HIDE DEF f, c, in
  <1>5. to \in Statuses
    BY <1>3, <1>4 DEF RecommendedStatus, Books, Statuses
  <1>6. c.status = "breached" => to = "breached"
    BY <1>4 DEF RecommendedStatus, PassEligible
  <1>7. to # "breached" => ~MaximumLossBreached(in.equity, in.floor)
    BY DEF RecommendedStatus
  <1> HIDE DEF to
  <1>8. r.book = [c EXCEPT !.status = to] /\ r.breaches = (to = "breached" /\ c.status # "breached")
    BY DEF Evaluated, c, in, to
  <1> HIDE DEF r
  <1>9. r.book \in Books /\ r.book.bal = b.bal /\ r.book.rows = c.rows /\ r.book.status = to
    BY <1>2, <1>3, <1>5, <1>8 DEF Books
  <1>10. b.status = "breached" <=> c.status = "breached"
    BY <1>2, <1>3
  <1>11. ASSUME RowsUpTo(b, day)
         PROVE  /\ RowsUpTo(r.book, day)
                /\ r.book.status # "breached" => Balance(b) + u > FloorInForce(r.book)
    <2>1. \A d \in Days : d > day => r.book.rows[d].st = "none"
      <3>1. \A d \in Days : d > day => d # day /\ ~(d < day)
        BY DaysType, SMT
      <3> QED BY <1>2, <1>3, <1>9, <1>11, <3>1 DEF RowsUpTo
    <2>2. r.book.rows[day].st = "open"
      <3>1. ~(day < day)
        BY DaysType, SMT
      <3>2. f.rows[day] = b.rows[day] /\ b.rows[day].st # "finalized"
        BY <1>2, <1>11, <3>1 DEF RowsUpTo
      <3>3. b.rows[day].st \in {"none", "open", "finalized"}
        BY DEF Books, Rows
      <3> QED BY <1>3, <1>9, <3>2, <3>3
    <2>3. RowsUpTo(r.book, day)
      BY <2>1, <2>2 DEF RowsUpTo
    <2>4. FloorInForce(r.book) = c.rows[day].floorBefore
      BY <1>9, <2>2, <2>3, FloorOfToday
    <2>5. c.rows[day].floorBefore \in Int
      BY <1>3 DEF Books, Rows
    <2>6. in.equity = Balance(b) + u
      BY <1>2, <1>3, <1>4 DEF Balance
    <2>7. to # "breached" => Balance(b) + u > c.rows[day].floorBefore
      BY <1>1, <1>4, <1>7, <2>5, <2>6 DEF MaximumLossBreached
    <2> QED BY <1>9, <2>3, <2>4, <2>7
  <1> QED BY <1>6, <1>8, <1>9, <1>10, <1>11 DEF r

-----------------------------------------------------------------------------
(* The building blocks of a command.                                       *)

Errors == {"nothing", "version_conflict", "invalid_transition", "no_fill"}
Transactions == [acc: Accounts, version: Nat, status: Statuses,
                 breached: BOOLEAN, thrown: Errors]

\* A function on 1..n is a list.
LEMMA ListIs ==
  ASSUME NEW n \in Nat, NEW S, NEW f \in [1..n -> S]
  PROVE  f \in Seq(S) /\ Len(f) = n
  OBVIOUS

LEMMA AccountIs ==
  ASSUME NEW a \in Accounts
  PROVE  /\ a.book \in Books /\ a.version \in Nat /\ a.orders \in Seq(Orders)
         /\ a.positions \in Seq(Positions) /\ Len(a.positions) \in Nat
         /\ DOMAIN a.positions = 1..Len(a.positions)
         /\ \A p \in DOMAIN a.positions :
              /\ a.positions[p].symbol \in Symbols /\ a.positions[p].opened \in Nat
              /\ a.positions[p].open \in Nat /\ a.positions[p].entry \in Int
              /\ a.positions[p].pnl \in Int
  <1>1. /\ a.book \in Books /\ a.version \in Nat /\ a.orders \in Seq(Orders)
        /\ a.positions \in Seq(Positions)
    BY DEF Accounts
  <1>2. /\ Len(a.positions) \in Nat /\ DOMAIN a.positions = 1..Len(a.positions)
        /\ \A p \in DOMAIN a.positions : a.positions[p] \in Positions
    BY <1>1
  <1>3. ASSUME NEW x \in Positions
        PROVE  /\ x.symbol \in Symbols /\ x.opened \in Nat /\ x.open \in Nat
               /\ x.entry \in Int /\ x.pnl \in Int
    BY TradingAssumption DEF Positions
  <1> QED BY <1>1, <1>2, <1>3

LEMMA StartedIs ==
  ASSUME NEW a \in Accounts
  PROVE  /\ Started(a) \in Transactions /\ Started(a).acc = a
         /\ Started(a).version = a.version /\ Started(a).status = a.book.status
         /\ Started(a).breached = FALSE /\ Started(a).thrown = "nothing"
  BY AccountIs DEF Started, Transactions, Errors, Books

LEMMA ThrowIs ==
  ASSUME NEW t \in Transactions, NEW error \in Errors
  PROVE  /\ Throw(t, error) \in Transactions
         /\ Throw(t, error).acc = t.acc /\ Throw(t, error).thrown = error
  BY DEF Throw, Transactions

\* A transaction is what its fields are.
LEMMA SameTransaction ==
  ASSUME NEW t \in Transactions, NEW u \in Transactions,
         t.acc = u.acc, t.version = u.version, t.status = u.status,
         t.breached = u.breached, t.thrown = u.thrown
  PROVE  t = u
  BY DEF Transactions

\* A replay changes nothing but what it answers.
LEMMA ReplayIs ==
  ASSUME NEW t \in Transactions, NEW key
  PROVE  /\ Replay(t, key) \in Transactions
         /\ Replay(t, key).acc = t.acc /\ Replay(t, key).version = t.version
         /\ Replay(t, key).status = t.status
         /\ Replay(t, key).thrown \in {t.thrown, "no_fill"}
         /\ Replay(t, key).thrown = "no_fill" \/ ~Replay(t, key).breached
  <1>1. Throw(t, "no_fill") \in Transactions
    BY ThrowIs DEF Errors
  <1>2. [t EXCEPT !.breached = FALSE] \in Transactions
    BY DEF Transactions
  <1> QED BY <1>1, <1>2 DEF Replay, Throw, Transactions

OrderRow(t, key, kind, st) == [key |-> key, kind |-> kind, st |-> st, seq |-> t.version + 1]

OrderKinds == {"open", "close", "close_all", "modify"}
OrderResults == {"filled", "rejected", "account_not_active"}

LEMMA RecordIs ==
  ASSUME NEW t \in Transactions, NEW key \in Keys, NEW kind \in OrderKinds, NEW st \in OrderResults
  PROVE  LET u == Record(t, key, kind, st)
         IN  /\ u \in Transactions
             /\ u.acc.book = t.acc.book /\ u.acc.positions = t.acc.positions
             /\ u.acc.orders = Append(t.acc.orders, OrderRow(t, key, kind, st))
             /\ u.version = t.version + 1 /\ u.acc.version = t.version + 1
             /\ u.status = t.status /\ u.breached = t.breached /\ u.thrown = t.thrown
  <1> DEFINE u == Record(t, key, kind, st)
             row == OrderRow(t, key, kind, st)
             n == t.version + 1
             log == Append(t.acc.orders, row)
             a == [t.acc EXCEPT !.version = n, !.orders = log]
  <1>1. t.acc \in Accounts /\ t.version \in Nat
    BY DEF Transactions
  <1>2. n \in Nat /\ log \in Seq(Orders)
    <2>1. row \in Orders
      BY <1>1 DEF OrderRow, Orders, OrderKinds, OrderResults
    <2> HIDE DEF row
    <2> QED BY <1>1, <2>1, AccountIs
  <1>3. u = [t EXCEPT !.version = n, !.acc = a]
    BY <1>1 DEF Record, OrderRow, Transactions
  <1> HIDE DEF row, n, log
  <1>4. /\ a \in Accounts /\ a.book = t.acc.book /\ a.positions = t.acc.positions
        /\ a.version = n /\ a.orders = log
    BY <1>1, <1>2 DEF Accounts
  <1> HIDE DEF a, u
  <1>5. /\ u \in Transactions /\ u.acc = a /\ u.version = n
        /\ u.status = t.status /\ u.breached = t.breached /\ u.thrown = t.thrown
    BY <1>1, <1>2, <1>3, <1>4 DEF Transactions
  <1> QED BY <1>4, <1>5 DEF u, n, log, row

LEMMA UnrealizedType ==
  ASSUME quotes \in Quotes, NEW a \in Accounts
  PROVE  Unrealized(a) \in Int
  <1> DEFINE f == [p \in DOMAIN a.positions |-> UnrealizedOf(a, p)]
  <1>1. \A p \in DOMAIN a.positions : UnrealizedOf(a, p) \in Int
    <2> SUFFICES ASSUME NEW p \in DOMAIN a.positions PROVE UnrealizedOf(a, p) \in Int
      OBVIOUS
    <2>1. /\ a.positions[p].symbol \in Symbols /\ a.positions[p].entry \in Int
          /\ a.positions[p].open \in Int
      BY AccountIs
    <2>2. quotes[a.positions[p].symbol].price \in Int
      BY <2>1, TradingAssumption DEF Quotes
    <2> QED BY <2>1, <2>2 DEF UnrealizedOf
  <1>2. f \in Seq(Int)
    <2>1. f \in [1..Len(a.positions) -> Int] /\ Len(a.positions) \in Nat
      BY <1>1, AccountIs
    <2> HIDE DEF f
    <2> QED BY <2>1, ListIs
  <1> HIDE DEF f
  <1> QED BY <1>2, TotalIsInt DEF Unrealized, f

\* The evaluation that ends a command: it writes the book, or throws.
LEMMA EvaluateIs ==
  ASSUME quotes \in Quotes, today \in Days, NEW t \in Transactions, t.thrown = "nothing"
  PROVE  LET u == Evaluate(t)
         IN  /\ u \in Transactions
             /\ u.acc.positions = t.acc.positions /\ u.acc.orders = t.acc.orders
             /\ u.acc.version = t.acc.version /\ u.version = t.version /\ u.status = t.status
             /\ u.acc.book.bal = t.acc.book.bal
             /\ t.acc.book.status = "breached" => u.acc.book.status = "breached"
             /\ u.thrown = "nothing" =>
                  (u.breached <=> t.acc.book.status # "breached" /\ u.acc.book.status = "breached")
             /\ RowsUpTo(t.acc.book, today) =>
                  /\ RowsUpTo(u.acc.book, today)
                  /\ u.thrown = "nothing" /\ u.acc.book.status # "breached"
                       => Equity(u.acc) > FloorInForce(u.acc.book)
  <1> DEFINE u == Evaluate(t)
             holding == OpenPositions(t.acc) # {}
             r == Evaluated(t.acc.book, today, Unrealized(t.acc), holding, "trade_order")
  <1>1. t.acc \in Accounts /\ t.acc.book \in Books /\ Unrealized(t.acc) \in Int
    BY AccountIs, UnrealizedType DEF Transactions
  <1>2. /\ r.book \in Books /\ r.book.bal = t.acc.book.bal /\ r.breaches \in BOOLEAN
        /\ t.acc.book.status = "breached" => r.book.status = "breached"
        /\ r.breaches <=> t.acc.book.status # "breached" /\ r.book.status = "breached"
        /\ RowsUpTo(t.acc.book, today) =>
             /\ RowsUpTo(r.book, today)
             /\ r.book.status # "breached"
                  => Balance(t.acc.book) + Unrealized(t.acc) > FloorInForce(r.book)
    <2>1. holding \in BOOLEAN
      OBVIOUS
    <2> HIDE DEF holding
    <2> QED BY <1>1, <2>1, EvaluatedIs
  <1>3. u = IF ~r.commits THEN Throw(t, "invalid_transition")
            ELSE [t EXCEPT !.acc.book = r.book, !.breached = r.breaches]
    BY DEF Evaluate
  <1> HIDE DEF r, u
  <1>4. CASE ~r.commits
    <2>1. u = Throw(t, "invalid_transition")
      BY <1>3, <1>4
    <2>2. u \in Transactions /\ u = [t EXCEPT !.thrown = "invalid_transition"]
      BY <2>1, ThrowIs DEF Throw, Errors
    <2>3. /\ u.acc = t.acc /\ u.version = t.version /\ u.status = t.status
          /\ u.thrown = "invalid_transition"
      BY <2>2 DEF Transactions
    <2> QED BY <2>2, <2>3 DEF u
  <1>5. CASE r.commits
    <2> DEFINE a == [book |-> r.book, version |-> t.acc.version,
                     positions |-> t.acc.positions, orders |-> t.acc.orders]
    <2>1. a \in Accounts /\ a = [t.acc EXCEPT !.book = r.book]
      BY <1>1, <1>2 DEF Accounts
    <2>2. u = [t EXCEPT !.acc = a, !.breached = r.breaches]
      BY <1>3, <1>5, <2>1 DEF Transactions
    <2>3. a.positions = t.acc.positions /\ a.book = r.book /\ a.orders = t.acc.orders
          /\ a.version = t.acc.version
      OBVIOUS
    <2> HIDE DEF a
    <2>4. /\ u \in Transactions /\ u.acc = a /\ u.version = t.version /\ u.status = t.status
          /\ u.breached = r.breaches /\ u.thrown = "nothing"
      BY <1>2, <2>1, <2>2 DEF Transactions
    <2>5. Unrealized(a) = Unrealized(t.acc)
      BY <2>3 DEF Unrealized, UnrealizedOf
    <2>6. Equity(a) = Balance(t.acc.book) + Unrealized(t.acc)
      BY <1>2, <2>3, <2>5 DEF Equity, Balance
    <2> QED BY <1>2, <2>3, <2>4, <2>6 DEF u
  <1> QED BY <1>4, <1>5

-----------------------------------------------------------------------------
(* What closing a position keeps.                                          *)

\* What each position realized, less the commission of its lots.
Results(a) ==
  [p \in DOMAIN a.positions |->
     a.positions[p].pnl - Commission * (2 * a.positions[p].opened - a.positions[p].open)]
Matches(a) == Balance(a.book) = Nominal + Total(Results(a))

\* b is a with some lots closed, and nothing booked that was not realized.
Closes(a, b) ==
  /\ Len(b.positions) = Len(a.positions)
  /\ \A p \in DOMAIN a.positions :
       /\ b.positions[p].symbol = a.positions[p].symbol
       /\ b.positions[p].open <= a.positions[p].open
  /\ Matches(a) => Matches(b)

LEMMA ResultsType ==
  ASSUME NEW a \in Accounts
  PROVE  /\ Results(a) \in Seq(Int) /\ Len(Results(a)) = Len(a.positions)
         /\ \A p \in DOMAIN a.positions : Results(a)[p] =
              a.positions[p].pnl - Commission * (2 * a.positions[p].opened - a.positions[p].open)
  <1> DEFINE f == Results(a)
  <1>1. \A p \in DOMAIN a.positions :
          a.positions[p].pnl - Commission * (2 * a.positions[p].opened - a.positions[p].open) \in Int
    <2>1. \A r, o, l \in Int : r - Commission * (2 * o - l) \in Int
      BY TradingAssumption
    <2>2. \A p \in DOMAIN a.positions : /\ a.positions[p].pnl \in Int
                                       /\ a.positions[p].opened \in Int /\ a.positions[p].open \in Int
      BY AccountIs
    <2> QED BY <2>1, <2>2
  <1>2. f \in [1..Len(a.positions) -> Int] /\ Len(a.positions) \in Nat
    BY <1>1, AccountIs DEF Results
  <1>3. f \in Seq(Int) /\ Len(f) = Len(a.positions)
    <2> HIDE DEF f
    <2> QED BY <1>2, ListIs
  <1> QED BY <1>3 DEF Results

LEMMA ClosesReflexive ==
  ASSUME NEW a \in Accounts, NEW b, b.positions = a.positions, b.book.bal = a.book.bal
  PROVE  Closes(a, b)
  <1>1. \A p \in DOMAIN a.positions : a.positions[p].open <= a.positions[p].open
    BY AccountIs
  <1>2. Results(a) = Results(b) /\ Balance(b.book) = Balance(a.book)
    BY DEF Results, Balance
  <1> QED BY <1>1, <1>2 DEF Closes, Matches

LEMMA ClosesTransitive ==
  ASSUME NEW a \in Accounts, NEW b \in Accounts, NEW c \in Accounts, Closes(a, b), Closes(b, c)
  PROVE  Closes(a, c)
  <1>1. DOMAIN b.positions = DOMAIN a.positions
    BY AccountIs DEF Closes
  <1>2. ASSUME NEW p \in DOMAIN a.positions PROVE c.positions[p].open <= a.positions[p].open
    <2>1. /\ c.positions[p].open <= b.positions[p].open /\ b.positions[p].open <= a.positions[p].open
      BY <1>1 DEF Closes
    <2>2. p \in DOMAIN c.positions
      BY AccountIs, <1>1 DEF Closes
    <2>3. a.positions[p].open \in Int /\ b.positions[p].open \in Int /\ c.positions[p].open \in Int
      BY <1>1, <2>2, AccountIs
    <2> QED BY <2>1, <2>3
  <1> QED BY <1>1, <1>2 DEF Closes

\* A fill moves one position and posts what it realized.
LEMMA RealizeIs ==
  ASSUME today \in Days, NEW a \in Accounts, NEW p \in DOMAIN a.positions,
         NEW closed \in Nat, closed <= a.positions[p].open, NEW pnl \in Int
  PROVE  LET b == Realize(a, p, closed, pnl)
         IN  /\ b \in Accounts /\ b.version = a.version /\ b.orders = a.orders
             /\ b.book.rows = a.book.rows /\ b.book.status = a.book.status
             /\ b.positions[p].open = a.positions[p].open - closed
             /\ Closes(a, b)
  <1> DEFINE b == Realize(a, p, closed, pnl)
             amount == pnl - Commission * closed
             x == a.positions[p]
             y == [x EXCEPT !.open = @ - closed, !.pnl = @ + pnl]
             moved == [a.positions EXCEPT ![p] = y]
             book == Post(a.book, today, amount)
  <1>1. /\ amount \in Int /\ x \in Positions /\ x.open \in Nat /\ x.pnl \in Int /\ x.opened \in Nat
        /\ a.book \in Books /\ a.positions \in Seq(Positions)
        /\ Len(a.positions) \in Nat /\ p \in 1..Len(a.positions)
    BY AccountIs, TradingAssumption
  <1>2. /\ book \in Books /\ book.rows = a.book.rows /\ book.status = a.book.status
        /\ Balance(book) = Balance(a.book) + amount
    <2> HIDE DEF amount
    <2> QED BY <1>1, PostIs
  <1>3. /\ y \in Positions /\ y.symbol = x.symbol /\ y.opened = x.opened
        /\ y.open = x.open - closed /\ y.pnl = x.pnl + pnl
    <2>1. x.open - closed \in Nat /\ x.pnl + pnl \in Int
      BY <1>1
    <2> HIDE DEF x
    <2> QED BY <1>1, <2>1 DEF Positions
  <1>4. b = [a EXCEPT !.positions = moved, !.book = book]
    <2> HIDE DEF amount
    <2> QED BY <1>1 DEF Realize, Accounts, Positions, amount
  <1> HIDE DEF y, book, amount
  <1>5. /\ moved \in Seq(Positions) /\ Len(moved) = Len(a.positions) /\ DOMAIN moved = 1..Len(a.positions)
        /\ moved[p] = y /\ \A q \in 1..Len(a.positions) : q # p => moved[q] = a.positions[q]
    BY <1>1, <1>3
  <1> HIDE DEF moved, b
  <1>6. /\ b \in Accounts /\ b.positions = moved /\ b.book = book
        /\ b.version = a.version /\ b.orders = a.orders
    BY <1>2, <1>4, <1>5 DEF Accounts
  <1>7. \A q \in DOMAIN a.positions : /\ b.positions[q].symbol = a.positions[q].symbol
                                      /\ b.positions[q].open <= a.positions[q].open
    <2> SUFFICES ASSUME NEW q \in 1..Len(a.positions)
                 PROVE  /\ b.positions[q].symbol = a.positions[q].symbol
                        /\ b.positions[q].open <= a.positions[q].open
      BY AccountIs
    <2>1. a.positions[q].open \in Nat
      BY AccountIs
    <2>2. CASE q = p
      BY <1>1, <1>3, <1>5, <1>6, <2>1, <2>2
    <2>3. CASE q # p
      BY <1>5, <1>6, <2>1, <2>3
    <2> QED BY <2>2, <2>3
  <1>8. Total(Results(b)) = Total(Results(a)) + amount
    <2> DEFINE f == Results(a)
               h == Results(b)
    <2>1. /\ f \in Seq(Int) /\ h \in Seq(Int) /\ Len(h) = Len(f) /\ p \in 1..Len(f)
      <3>1. f \in Seq(Int) /\ Len(f) = Len(a.positions)
        BY ResultsType
      <3>2. h \in Seq(Int) /\ Len(h) = Len(b.positions)
        BY <1>6, ResultsType
      <3> HIDE DEF f, h
      <3> QED BY <1>1, <1>5, <1>6, <3>1, <3>2
    <2>2. \A q \in 1..Len(f) : q # p => h[q] = f[q]
      <3>1. SUFFICES ASSUME NEW q \in 1..Len(a.positions), q # p
                     PROVE  h[q] = f[q]
        BY ResultsType
      <3>2. f[q] = a.positions[q].pnl
                   - Commission * (2 * a.positions[q].opened - a.positions[q].open)
        BY ResultsType
      <3>3. q \in 1..Len(b.positions)
        BY <1>5, <1>6
      <3>4. h[q] = b.positions[q].pnl
                   - Commission * (2 * b.positions[q].opened - b.positions[q].open)
        <4>1. q \in DOMAIN b.positions
          BY <1>6, <3>3, AccountIs
        <4> QED BY <1>6, <4>1, ResultsType
      <3>5. b.positions[q] = a.positions[q]
        BY <1>5, <1>6, <3>1
      <3> HIDE DEF f, h
      <3> QED BY <3>2, <3>4, <3>5
    <2>3. f[p] = x.pnl - Commission * (2 * x.opened - x.open)
      BY ResultsType
    <2>4. h[p] = y.pnl - Commission * (2 * y.opened - y.open)
      BY <1>1, <1>5, <1>6, AccountIs, ResultsType
    <2> HIDE DEF f, h, x
    <2>5. h[p] = f[p] + amount
      <3>1. \A o, l \in Int : Commission * (2 * o - (l - closed)) = Commission * (2 * o - l) + Commission * closed
        BY TradingAssumption
      <3>2. Commission * (2 * x.opened - x.open) \in Int /\ Commission * closed \in Int
        BY <1>1, TradingAssumption
      <3>3. h[p] = (x.pnl + pnl) - (Commission * (2 * x.opened - x.open) + Commission * closed)
        <4>1. h[p] = (x.pnl + pnl) - Commission * (2 * x.opened - (x.open - closed))
          BY <1>3, <2>4
        <4>2. x.opened \in Int /\ x.open \in Int
          BY <1>1
        <4> QED BY <3>1, <4>1, <4>2
      <3> QED BY <1>1, <2>3, <3>2, <3>3 DEF amount
    <2>6. Total(h) = Total(f) + h[p] - f[p]
      BY <2>1, <2>2, TotalChangesWith
    <2>7. Total(f) \in Int /\ f[p] \in Int
      BY <2>1, TotalIsInt
    <2>8. Total(h) = Total(f) + amount
      BY <1>1, <2>5, <2>6, <2>7
    <2> QED BY <2>8 DEF f, h
  <1>9. Matches(a) => Matches(b)
    <2>1. Total(Results(a)) \in Int /\ Nominal \in Int
      BY ResultsType, TotalIsInt, RulesAssumption
    <2> QED BY <1>1, <1>2, <1>6, <1>8, <2>1 DEF Matches
  <1>10. Closes(a, b)
    BY <1>5, <1>6, <1>7, <1>9 DEF Closes
  <1> QED BY <1>2, <1>3, <1>5, <1>6, <1>10 DEF b

-----------------------------------------------------------------------------
(* One close.                                                              *)

\* What the transaction u of an account at t keeps, whatever it does.
Goes(t, u) ==
  /\ u \in Transactions /\ u.status = t.status
  /\ Closes(t.acc, u.acc)
  /\ t.acc.book.status = "breached" => u.acc.book.status = "breached"
  /\ RowsUpTo(t.acc.book, today) => RowsUpTo(u.acc.book, today)

\* The account stands above its floor.
Standing(a) ==
  RowsUpTo(a.book, today) /\ a.book.status # "breached" => Equity(a) > FloorInForce(a.book)

\* The three ways a close of p ends: nothing written, refused, filled.
WritesNothing(t, u, key) ==
  /\ u.acc = t.acc /\ u.version = t.version
  /\ u.thrown = "nothing" => Placed(t.acc, key) /\ ~u.breached
Refuses(t, u, key, p, lots) ==
  /\ ~Placed(t.acc, key) /\ VersionHolds(t) /\ ~CloseAllowed(t, p, lots)
  /\ u.acc.book = t.acc.book /\ u.acc.positions = t.acc.positions
  /\ u.version = t.version + 1 /\ u.acc.version = t.version + 1
  /\ \E st \in {"rejected", "account_not_active"} :
       u.acc.orders = Append(t.acc.orders, OrderRow(t, key, "close", st))
  /\ u.thrown = "nothing" /\ ~u.breached
Fills(t, u, key, p, lots) ==
  /\ ~Placed(t.acc, key) /\ VersionHolds(t) /\ CloseAllowed(t, p, lots)
  /\ lots = 0 => u.acc.positions[p].open = 0
  /\ u.version = t.version + 1 /\ u.acc.version = t.version + 1
  /\ u.acc.orders = Append(t.acc.orders, OrderRow(t, key, "close", "filled"))
  /\ u.thrown = "nothing" =>
       /\ u.breached <=> t.acc.book.status # "breached" /\ u.acc.book.status = "breached"
       /\ RowsUpTo(t.acc.book, today) => Standing(u.acc)

LEMMA FillCloseIs ==
  ASSUME quotes \in Quotes, today \in Days, NEW t \in Transactions, t.thrown = "nothing",
         NEW key \in Keys, NEW p, NEW lots \in Nat,
         ~Placed(t.acc, key), VersionHolds(t), CloseAllowed(t, p, lots)
  PROVE  LET u == FillClose(t, key, p, lots)
         IN  Goes(t, u) /\ Fills(t, u, key, p, lots)
  <1> DEFINE position == t.acc.positions[p]
             closed == IF lots = 0 THEN position.open ELSE lots
             pnl == (quotes[position.symbol].price - position.entry) * closed
             filled == Record(t, key, "close", "filled")
             after == Realize(filled.acc, p, closed, pnl)
             v == [filled EXCEPT !.acc = after]
             u == FillClose(t, key, p, lots)
  <1>1. /\ t.acc \in Accounts /\ p \in DOMAIN t.acc.positions
        /\ lots < position.open /\ position.open \in Nat
        /\ position.symbol \in Symbols /\ position.entry \in Int
    BY AccountIs DEF Transactions, CloseAllowed, OpenPositions
  <1>2. closed \in Nat /\ closed <= position.open /\ pnl \in Int
    <2>1. closed \in Nat /\ closed <= position.open
      BY <1>1
    <2>2. quotes[position.symbol].price \in Int
      BY <1>1, TradingAssumption DEF Quotes
    <2> HIDE DEF closed, position
    <2> QED BY <1>1, <2>1, <2>2
  <1>3. /\ filled \in Transactions /\ filled.acc \in Accounts
        /\ filled.acc.book = t.acc.book /\ filled.acc.positions = t.acc.positions
        /\ filled.acc.orders = Append(t.acc.orders, OrderRow(t, key, "close", "filled"))
        /\ filled.version = t.version + 1 /\ filled.acc.version = t.version + 1
        /\ filled.status = t.status /\ filled.thrown = "nothing"
    <2>1. "close" \in OrderKinds /\ "filled" \in OrderResults
      BY DEF OrderKinds, OrderResults
    <2>2. /\ filled \in Transactions
          /\ filled.acc.book = t.acc.book /\ filled.acc.positions = t.acc.positions
          /\ filled.acc.orders = Append(t.acc.orders, OrderRow(t, key, "close", "filled"))
          /\ filled.version = t.version + 1 /\ filled.acc.version = t.version + 1
          /\ filled.status = t.status /\ filled.thrown = t.thrown
      BY <2>1, RecordIs
    <2> HIDE DEF filled
    <2> QED BY <2>2 DEF Transactions
  <1>4. u = Evaluate(v)
    BY DEF FillClose
  <1>lots. lots = 0 => closed = position.open
    OBVIOUS
  <1> HIDE DEF closed, pnl, filled, u
  <1>5. /\ after \in Accounts /\ after.version = filled.acc.version
        /\ after.orders = filled.acc.orders
        /\ after.book.rows = t.acc.book.rows /\ after.book.status = t.acc.book.status
        /\ after.positions[p].open = position.open - closed
        /\ Closes(filled.acc, after)
    <2> DEFINE a == filled.acc
    <2>1. a \in Accounts /\ p \in DOMAIN a.positions /\ closed <= a.positions[p].open
      BY <1>1, <1>2, <1>3
    <2>2. /\ a.book = t.acc.book /\ a.positions[p].open = position.open
      BY <1>3
    <2> HIDE DEF a
    <2>3. LET b == Realize(a, p, closed, pnl)
          IN  /\ b \in Accounts /\ b.version = a.version /\ b.orders = a.orders
              /\ b.book.rows = a.book.rows /\ b.book.status = a.book.status
              /\ b.positions[p].open = a.positions[p].open - closed
              /\ Closes(a, b)
      BY <1>2, <2>1, RealizeIs
    <2> QED BY <2>2, <2>3 DEF a
  <1> HIDE DEF after
  <1>6. /\ v \in Transactions /\ v.acc = after /\ v.version = t.version + 1
        /\ v.status = t.status /\ v.thrown = "nothing"
    BY <1>3, <1>5 DEF Transactions
  <1> HIDE DEF v
  <1>7. /\ u \in Transactions
        /\ u.acc.positions = after.positions /\ u.acc.orders = after.orders
        /\ u.acc.version = after.version /\ u.version = t.version + 1 /\ u.status = t.status
        /\ u.acc.book.bal = after.book.bal
        /\ after.book.status = "breached" => u.acc.book.status = "breached"
        /\ u.thrown = "nothing" =>
             (u.breached <=> after.book.status # "breached" /\ u.acc.book.status = "breached")
        /\ RowsUpTo(after.book, today) =>
             /\ RowsUpTo(u.acc.book, today)
             /\ u.thrown = "nothing" /\ u.acc.book.status # "breached"
                  => Equity(u.acc) > FloorInForce(u.acc.book)
    BY <1>4, <1>6, EvaluateIs
  <1>8. RowsUpTo(t.acc.book, today) => RowsUpTo(after.book, today)
    BY <1>5 DEF RowsUpTo
  <1>9. Closes(t.acc, u.acc)
    <2>1. u.acc \in Accounts
      BY <1>7 DEF Transactions
    <2>2. Closes(t.acc, filled.acc) /\ Closes(after, u.acc)
      BY <1>1, <1>3, <1>5, <1>7, ClosesReflexive
    <2> QED BY <1>1, <1>3, <1>5, <2>1, <2>2, ClosesTransitive
  <1>10. lots = 0 => u.acc.positions[p].open = 0
    <2> HIDE DEF position
    <2> QED BY <1>lots, <1>1, <1>5, <1>7
  <1>11. Goes(t, u)
    BY <1>5, <1>7, <1>8, <1>9 DEF Goes
  <1>12. Fills(t, u, key, p, lots)
    BY <1>3, <1>5, <1>7, <1>8, <1>10 DEF Fills, Standing
  <1> QED BY <1>11, <1>12 DEF u

LEMMA CloseOneIs ==
  ASSUME quotes \in Quotes, today \in Days, NEW t \in Transactions, t.thrown = "nothing",
         NEW key \in Keys, NEW p, NEW lots \in Nat
  PROVE  LET u == CloseOne(t, key, p, lots)
         IN  /\ Goes(t, u)
             /\ \/ WritesNothing(t, u, key)
                \/ Refuses(t, u, key, p, lots)
                \/ Fills(t, u, key, p, lots)
  <1> DEFINE u == CloseOne(t, key, p, lots)
  <1>0. t.acc \in Accounts /\ t.version \in Nat
    BY DEF Transactions
  <1>1. CASE Placed(t.acc, key)
    <2>1. u = Replay(t, key)
      BY <1>1 DEF CloseOne
    <2> HIDE DEF u
    <2>2. /\ u \in Transactions /\ u.acc = t.acc /\ u.version = t.version /\ u.status = t.status
          /\ u.thrown = "no_fill" \/ ~u.breached
      BY <2>1, ReplayIs
    <2>3. Goes(t, u)
      BY <1>0, <2>2, ClosesReflexive DEF Goes
    <2>4. WritesNothing(t, u, key)
      BY <1>1, <2>2 DEF WritesNothing
    <2> QED BY <2>3, <2>4 DEF u
  <1>2. CASE ~Placed(t.acc, key) /\ ~VersionHolds(t)
    <2>1. u = Throw(t, "version_conflict")
      BY <1>2 DEF CloseOne
    <2>2. u.version = t.version /\ u.status = t.status
      BY <2>1 DEF Throw, Transactions
    <2>3. /\ u \in Transactions /\ u.acc = t.acc /\ u.thrown = "version_conflict"
      <3>1. "version_conflict" \in Errors
        BY DEF Errors
      <3> HIDE DEF u
      <3> QED BY <2>1, <3>1, ThrowIs
    <2> HIDE DEF u
    <2>4. Goes(t, u)
      BY <1>0, <2>2, <2>3, ClosesReflexive DEF Goes
    <2>5. WritesNothing(t, u, key)
      BY <2>2, <2>3 DEF WritesNothing
    <2> QED BY <2>4, <2>5 DEF u
  <1>3. CASE ~Placed(t.acc, key) /\ VersionHolds(t) /\ ~CloseAllowed(t, p, lots)
    <2> DEFINE st == RejectedAs(t, p, ClosableStatuses)
               r == Record(t, key, "close", st)
    <2>1. u = [r EXCEPT !.breached = FALSE]
      BY <1>3 DEF CloseOne
    <2>2. st \in {"rejected", "account_not_active"}
      BY DEF RejectedAs
    <2> HIDE DEF st
    <2>3. /\ r \in Transactions
          /\ r.acc.book = t.acc.book /\ r.acc.positions = t.acc.positions
          /\ r.acc.orders = Append(t.acc.orders, OrderRow(t, key, "close", st))
          /\ r.version = t.version + 1 /\ r.acc.version = t.version + 1
          /\ r.status = t.status /\ r.thrown = "nothing"
      <3>1. st \in OrderResults
        BY <2>2 DEF OrderResults
      <3>2. "close" \in OrderKinds
        BY DEF OrderKinds
      <3>3. LET w == Record(t, key, "close", st)
            IN  /\ w \in Transactions
                /\ w.acc.book = t.acc.book /\ w.acc.positions = t.acc.positions
                /\ w.acc.orders = Append(t.acc.orders, OrderRow(t, key, "close", st))
                /\ w.version = t.version + 1 /\ w.acc.version = t.version + 1
                /\ w.status = t.status /\ w.breached = t.breached /\ w.thrown = t.thrown
        BY ONLY t \in Transactions, key \in Keys, <3>1, <3>2, RecordIs
      <3> QED BY <3>3
    <2> HIDE DEF r, u
    <2>4. /\ u \in Transactions /\ u.acc = r.acc /\ u.version = r.version
          /\ u.status = r.status /\ u.thrown = r.thrown /\ ~u.breached
      BY <2>1, <2>3 DEF Transactions
    <2>5. Goes(t, u)
      BY <1>0, <2>3, <2>4, ClosesReflexive DEF Goes
    <2>6. Refuses(t, u, key, p, lots)
      BY <1>3, <2>2, <2>3, <2>4 DEF Refuses
    <2> QED BY <2>5, <2>6 DEF u
  <1>4. CASE ~Placed(t.acc, key) /\ VersionHolds(t) /\ CloseAllowed(t, p, lots)
    <2>1. u = FillClose(t, key, p, lots)
      BY <1>4 DEF CloseOne
    <2> QED BY <1>4, <2>1, FillCloseIs
  <1> QED BY <1>1, <1>2, <1>3, <1>4

-----------------------------------------------------------------------------
(* The orders.                                                             *)

Taken(log, n) == Decided!Taken(log, n)
Distinct(log) == Decided!Distinct(log)

\* The orders of an account since log was all there was.
Ordered(log, a) ==
  /\ Len(log) <= Len(a.orders) /\ \A i \in 1..Len(log) : a.orders[i] = log[i]
  /\ Distinct(a.orders)
  /\ a.version = Taken(a.orders, Len(a.orders))
  /\ \A i \in (Len(log) + 1)..Len(a.orders) :
       a.orders[i].kind # "close_all" => a.orders[i].seq = Taken(a.orders, i)

LEMMA TakenIs ==
  ASSUME NEW log, NEW n \in Nat
  PROVE  /\ Taken(log, n) \in Nat
         /\ Taken(log, n + 1) = Taken(log, n) + (IF log[n + 1].kind = "close_all" THEN 0 ELSE 1)
  <1> DEFINE S == {i \in 1..n : log[i].kind # "close_all"}
             T == {i \in 1..(n + 1) : log[i].kind # "close_all"}
  <1>0. Taken(log, n) = Cardinality(S) /\ Taken(log, n + 1) = Cardinality(T)
    <2>1. \A Q : Decided!Cardinality(Q) = Cardinality(Q)
      BY Zenon DEF Decided!Cardinality, Cardinality, Decided!IsFiniteSet, IsFiniteSet
    <2> QED BY <2>1 DEF Taken, Decided!Taken
  <1>1. IsFiniteSet(1..n)
    BY FS_Interval
  <1>2. IsFiniteSet(S) /\ Cardinality(S) \in Nat
    BY <1>1, FS_Subset, FS_CardinalityType
  <1>3. n + 1 \notin S /\ 1..(n + 1) = (1..n) \cup {n + 1}
    OBVIOUS
  <1>4. CASE log[n + 1].kind = "close_all"
    <2>1. T = S
      BY <1>3, <1>4
    <2> HIDE DEF S, T
    <2> QED BY <1>0, <1>2, <1>4, <2>1
  <1>5. CASE log[n + 1].kind # "close_all"
    <2>1. T = S \cup {n + 1}
      BY <1>3, <1>5
    <2>2. Cardinality(T) = Cardinality(S) + 1
      BY <1>2, <1>3, <2>1, FS_AddElement
    <2> HIDE DEF S, T
    <2> QED BY <1>0, <1>2, <1>5, <2>2
  <1> QED BY <1>4, <1>5

\* It depends on the first orders only.
LEMMA TakenIsLocal ==
  ASSUME NEW log, NEW longer, NEW n \in Nat, \A i \in 1..n : longer[i].kind = log[i].kind
  PROVE  Taken(longer, n) = Taken(log, n)
  <1>1. {i \in 1..n : longer[i].kind # "close_all"} = {i \in 1..n : log[i].kind # "close_all"}
    OBVIOUS
  <1> QED BY <1>1 DEF Taken, Decided!Taken

\* One order more, under a key of its own.
LEMMA OrderedAppends ==
  ASSUME NEW log, Len(log) \in Nat, NEW a \in Accounts, NEW b, NEW row, Ordered(log, a),
         b.orders = Append(a.orders, row), ~Placed(a, row.key),
         \/ row.kind # "close_all" /\ b.version = a.version + 1 /\ row.seq = b.version
         \/ row.kind = "close_all" /\ b.version = a.version
  PROVE  Ordered(log, b)
  <1> DEFINE n == Len(a.orders)
             new == b.orders
  <1>1. a.orders \in Seq(Orders) /\ n \in Nat /\ DOMAIN a.orders = 1..n
    BY AccountIs
  <1>2. /\ Len(new) = n + 1 /\ DOMAIN new = 1..(n + 1) /\ new[n + 1] = row
        /\ \A i \in 1..n : new[i] = a.orders[i]
    BY <1>1
  <1> HIDE DEF new, n
  <1>3. Distinct(new)
    <2>1. \A i \in 1..n : a.orders[i].key # row.key
      BY <1>1 DEF Placed
    <2>2. \A i, j \in 1..n : a.orders[i].key = a.orders[j].key => i = j
      BY <1>1 DEF Ordered, Distinct, Decided!Distinct
    <2> SUFFICES ASSUME NEW i \in 1..(n + 1), NEW j \in 1..(n + 1), new[i].key = new[j].key
                 PROVE  i = j
      BY <1>2 DEF Distinct, Decided!Distinct
    <2>3. CASE i \in 1..n /\ j \in 1..n
      BY <1>2, <2>2, <2>3
    <2>4. CASE i = n + 1 \/ j = n + 1
      BY <1>1, <1>2, <2>1, <2>4
    <2> QED BY <1>1, <2>3, <2>4
  <1>4. \A m \in 0..n : Taken(new, m) = Taken(a.orders, m)
    <2> SUFFICES ASSUME NEW m \in 0..n PROVE Taken(new, m) = Taken(a.orders, m)
      OBVIOUS
    <2>1. m \in Nat /\ \A i \in 1..m : new[i].kind = a.orders[i].kind
      BY <1>1, <1>2
    <2> QED BY <2>1, TakenIsLocal
  <1>5. Taken(new, n + 1) = Taken(a.orders, n) + (IF row.kind = "close_all" THEN 0 ELSE 1)
    <2>1. Taken(new, n + 1) = Taken(new, n) + (IF new[n + 1].kind = "close_all" THEN 0 ELSE 1)
      BY <1>1, TakenIs
    <2>2. n \in 0..n
      BY <1>1
    <2> QED BY <1>2, <1>4, <2>1, <2>2
  <1>6. a.version = Taken(a.orders, n) /\ Taken(a.orders, n) \in Nat
    BY <1>1, TakenIs DEF Ordered, n
  <1>7. b.version = Taken(new, n + 1)
    BY <1>5, <1>6
  <1>8. \A i \in (Len(log) + 1)..(n + 1) : new[i].kind # "close_all" => new[i].seq = Taken(new, i)
    <2> SUFFICES ASSUME NEW i \in (Len(log) + 1)..(n + 1), new[i].kind # "close_all"
                 PROVE  new[i].seq = Taken(new, i)
      OBVIOUS
    <2>1. CASE i = n + 1
      BY <1>2, <1>7, <2>1
    <2>2. CASE i # n + 1
      <3>1. i \in (Len(log) + 1)..n /\ i \in 1..n /\ i \in 0..n
        BY <1>1, <2>2
      <3>2. a.orders[i].seq = Taken(a.orders, i)
        BY <1>2, <3>1 DEF Ordered, n
      <3> QED BY <1>2, <1>4, <3>1, <3>2
    <2> QED BY <2>1, <2>2
  <1>9. Len(log) <= n + 1 /\ \A i \in 1..Len(log) : new[i] = log[i]
    <2>1. Len(log) <= n /\ \A i \in 1..Len(log) : a.orders[i] = log[i]
      BY DEF Ordered, n
    <2> QED BY <1>1, <1>2, <2>1
  <1> QED BY <1>2, <1>3, <1>7, <1>8, <1>9 DEF Ordered, new

\* A close keeps the orders in order, whatever log they started from.
LEMMA CloseOneOrders ==
  ASSUME NEW log, Len(log) \in Nat, NEW t \in Transactions, NEW u \in Transactions,
         NEW key \in Keys, NEW p, NEW lots,
         \/ WritesNothing(t, u, key) \/ Refuses(t, u, key, p, lots) \/ Fills(t, u, key, p, lots),
         Ordered(log, t.acc)
  PROVE  Ordered(log, u.acc)
  <1>0. t.acc \in Accounts /\ t.version \in Nat
    BY DEF Transactions
  <1>1. CASE WritesNothing(t, u, key)
    BY <1>1 DEF WritesNothing
  <1>2. CASE Refuses(t, u, key, p, lots) \/ Fills(t, u, key, p, lots)
    <2>1. PICK st : u.acc.orders = Append(t.acc.orders, OrderRow(t, key, "close", st))
      BY <1>2 DEF Refuses, Fills
    <2>2. ~Placed(t.acc, key) /\ t.version = t.acc.version /\ u.acc.version = t.version + 1
      BY <1>2 DEF Refuses, Fills, VersionHolds
    <2> DEFINE row == OrderRow(t, key, "close", st)
    <2>3. row.kind # "close_all" /\ row.key = key /\ row.seq = t.version + 1
      BY DEF OrderRow
    <2> HIDE DEF row
    <2> QED BY <1>0, <2>1, <2>2, <2>3, OrderedAppends DEF row
  <1> QED BY <1>1, <1>2

-----------------------------------------------------------------------------
(* The commands that close several positions.                              *)

\* The forced closes of a breach, position by position.
ForcedUp(g, t, n) ==
  g = [p \in 0..n |-> IF p = 0 THEN Started(t.acc)
                       ELSE IF p \in OpenPositions(t.acc) THEN CloseOne(g[p - 1], <<0, p>>, p, 0) ELSE g[p - 1]]

LEMMA ForcedExists == ASSUME NEW n \in Nat, NEW t PROVE \E g : ForcedUp(g, t, n)
<1> DEFINE B == {m \in 0..n : \E g : ForcedUp(g, t, m)}
<1>1. 0 \in B
  <2> DEFINE g == [p \in 0..0 |-> Started(t.acc)]
  <2>1. g = [p \in 0..0 |-> IF p = 0 THEN Started(t.acc)
                             ELSE IF p \in OpenPositions(t.acc) THEN CloseOne(g[p - 1], <<0, p>>, p, 0) ELSE g[p - 1]]
    OBVIOUS
  <2> HIDE DEF g
  <2> QED BY <2>1 DEF ForcedUp
<1>2. ASSUME NEW m \in 1..n, m - 1 \in B PROVE m \in B
  <2>1. PICK g : ForcedUp(g, t, m - 1)
    BY <1>2
  <2> DEFINE last == IF m \in OpenPositions(t.acc) THEN CloseOne(g[m - 1], <<0, m>>, m, 0) ELSE g[m - 1]
             h == [p \in 0..m |-> IF p = m THEN last ELSE g[p]]
  <2>2. ASSUME NEW p \in 0..m
        PROVE  h[p] = IF p = 0 THEN Started(t.acc)
                      ELSE IF p \in OpenPositions(t.acc) THEN CloseOne(h[p - 1], <<0, p>>, p, 0) ELSE h[p - 1]
    <3>1. CASE p = m
      <4>1. p # 0 /\ p - 1 \in 0..m /\ p - 1 # m /\ h[p] = last
        BY <3>1
      <4>2. h[p - 1] = g[p - 1]
        BY <4>1
      <4> HIDE DEF h
      <4> QED BY <3>1, <4>1, <4>2
    <3>2. CASE p # m
      <4>1. p \in 0..(m - 1) /\ (p # 0 => p - 1 \in 0..m /\ p - 1 # m)
        BY <3>2
      <4>2. g[p] = IF p = 0 THEN Started(t.acc)
                   ELSE IF p \in OpenPositions(t.acc) THEN CloseOne(g[p - 1], <<0, p>>, p, 0) ELSE g[p - 1]
        BY <2>1, <4>1 DEF ForcedUp
      <4>3. h[p] = g[p] /\ (p # 0 => h[p - 1] = g[p - 1])
        BY <3>2, <4>1
      <4> HIDE DEF h
      <4> QED BY <4>2, <4>3
    <3> QED BY <3>1, <3>2
  <2>3. h = [p \in 0..m |-> h[p]]
    OBVIOUS
  <2> HIDE DEF h
  <2>4. ForcedUp(h, t, m)
    BY <2>2, <2>3 DEF ForcedUp
  <2> QED BY <2>4
<1> HIDE DEF B
<1>3. n \in B
  BY <1>1, <1>2, CountUp
<1> QED BY <1>3 DEF B

LEMMA ForcedUnfolds ==
  ASSUME NEW t, Len(t.acc.positions) \in Nat
  PROVE  \E g : /\ ForceClosed(t) = g[Len(t.acc.positions)] /\ g[0] = Started(t.acc)
                /\ \A p \in 1..Len(t.acc.positions) :
                     g[p] = IF p \in OpenPositions(t.acc) THEN CloseOne(g[p - 1], <<0, p>>, p, 0) ELSE g[p - 1]
<1> DEFINE g == CHOOSE c : ForcedUp(c, t, Len(t.acc.positions))
<1>1. ForcedUp(g, t, Len(t.acc.positions))
  BY ForcedExists
<1>2. ForceClosed(t) = g[Len(t.acc.positions)]
  BY DEF ForceClosed, ForcedUp
<1> HIDE DEF g
<1>3. g[0] = Started(t.acc) /\ \A p \in 1..Len(t.acc.positions) :
        g[p] = IF p \in OpenPositions(t.acc) THEN CloseOne(g[p - 1], <<0, p>>, p, 0) ELSE g[p - 1]
  BY <1>1 DEF ForcedUp
<1> QED BY <1>2, <1>3

\* The children of a Close All, position by position.
ChildrenUp(g, a, k, n) ==
  g = [p \in 0..n |-> IF p = 0 THEN MasterPlaced(a, k)
                       ELSE IF p \in OpenPositions(a) THEN ClosePositionLocked(g[p - 1], <<k, p>>, p, 0) ELSE g[p - 1]]

LEMMA ChildrenExists == ASSUME NEW n \in Nat, NEW a, NEW k PROVE \E g : ChildrenUp(g, a, k, n)
<1> DEFINE B == {m \in 0..n : \E g : ChildrenUp(g, a, k, m)}
<1>1. 0 \in B
  <2> DEFINE g == [p \in 0..0 |-> MasterPlaced(a, k)]
  <2>1. g = [p \in 0..0 |-> IF p = 0 THEN MasterPlaced(a, k)
                             ELSE IF p \in OpenPositions(a) THEN ClosePositionLocked(g[p - 1], <<k, p>>, p, 0) ELSE g[p - 1]]
    OBVIOUS
  <2> HIDE DEF g
  <2> QED BY <2>1 DEF ChildrenUp
<1>2. ASSUME NEW m \in 1..n, m - 1 \in B PROVE m \in B
  <2>1. PICK g : ChildrenUp(g, a, k, m - 1)
    BY <1>2
  <2> DEFINE last == IF m \in OpenPositions(a) THEN ClosePositionLocked(g[m - 1], <<k, m>>, m, 0) ELSE g[m - 1]
             h == [p \in 0..m |-> IF p = m THEN last ELSE g[p]]
  <2>2. ASSUME NEW p \in 0..m
        PROVE  h[p] = IF p = 0 THEN MasterPlaced(a, k)
                      ELSE IF p \in OpenPositions(a) THEN ClosePositionLocked(h[p - 1], <<k, p>>, p, 0) ELSE h[p - 1]
    <3>1. CASE p = m
      <4>1. p # 0 /\ p - 1 \in 0..m /\ p - 1 # m /\ h[p] = last
        BY <3>1
      <4>2. h[p - 1] = g[p - 1]
        BY <4>1
      <4> HIDE DEF h
      <4> QED BY <3>1, <4>1, <4>2
    <3>2. CASE p # m
      <4>1. p \in 0..(m - 1) /\ (p # 0 => p - 1 \in 0..m /\ p - 1 # m)
        BY <3>2
      <4>2. g[p] = IF p = 0 THEN MasterPlaced(a, k)
                   ELSE IF p \in OpenPositions(a) THEN ClosePositionLocked(g[p - 1], <<k, p>>, p, 0) ELSE g[p - 1]
        BY <2>1, <4>1 DEF ChildrenUp
      <4>3. h[p] = g[p] /\ (p # 0 => h[p - 1] = g[p - 1])
        BY <3>2, <4>1
      <4> HIDE DEF h
      <4> QED BY <4>2, <4>3
    <3> QED BY <3>1, <3>2
  <2>3. h = [p \in 0..m |-> h[p]]
    OBVIOUS
  <2> HIDE DEF h
  <2>4. ChildrenUp(h, a, k, m)
    BY <2>2, <2>3 DEF ChildrenUp
  <2> QED BY <2>4
<1> HIDE DEF B
<1>3. n \in B
  BY <1>1, <1>2, CountUp
<1> QED BY <1>3 DEF B

LEMMA ChildrenUnfolds ==
  ASSUME NEW a, NEW k, Len(a.positions) \in Nat
  PROVE  \E g : /\ ChildrenClosed(a, k) = g[Len(a.positions)] /\ g[0] = MasterPlaced(a, k)
                /\ \A p \in 1..Len(a.positions) :
                     g[p] = IF p \in OpenPositions(a) THEN ClosePositionLocked(g[p - 1], <<k, p>>, p, 0) ELSE g[p - 1]
<1> DEFINE g == CHOOSE c : ChildrenUp(c, a, k, Len(a.positions))
<1>1. ChildrenUp(g, a, k, Len(a.positions))
  BY ChildrenExists
<1>2. ChildrenClosed(a, k) = g[Len(a.positions)]
  BY DEF ChildrenClosed, ChildrenUp
<1> HIDE DEF g
<1>3. g[0] = MasterPlaced(a, k) /\ \A p \in 1..Len(a.positions) :
        g[p] = IF p \in OpenPositions(a) THEN ClosePositionLocked(g[p - 1], <<k, p>>, p, 0) ELSE g[p - 1]
  BY <1>1 DEF ChildrenUp
<1> QED BY <1>2, <1>3
LEMMA GoesTransitive ==
  ASSUME NEW t \in Transactions, NEW u \in Transactions, NEW v, Goes(t, u), Goes(u, v)
  PROVE  Goes(t, v)
<1>1. t.acc \in Accounts /\ u.acc \in Accounts /\ v.acc \in Accounts
  BY DEF Goes, Transactions
<1>2. Closes(t.acc, v.acc)
  BY <1>1, ClosesTransitive DEF Goes
<1> QED BY <1>2 DEF Goes

LEMMA OrdersAre ==
  ASSUME NEW a \in Accounts
  PROVE  /\ a.orders \in Seq(Orders) /\ Len(a.orders) \in Nat
         /\ DOMAIN a.orders = 1..Len(a.orders)
         /\ \A i \in DOMAIN a.orders : /\ a.orders[i] \in Orders
                                       /\ a.orders[i].key[1] \in Nat /\ a.orders[i].key[2] \in Nat
<1>1. a.orders \in Seq(Orders)
  BY AccountIs
<1>2. /\ Len(a.orders) \in Nat /\ DOMAIN a.orders = 1..Len(a.orders)
      /\ \A i \in DOMAIN a.orders : a.orders[i] \in Orders
  BY <1>1
<1>3. ASSUME NEW o \in Orders PROVE o.key[1] \in Nat /\ o.key[2] \in Nat
  BY TradingAssumption DEF Orders, Keys
<1> QED BY <1>1, <1>2, <1>3

LEMMA GoesReflexive ==
  ASSUME NEW t \in Transactions PROVE Goes(t, t)
<1>1. t.acc \in Accounts
  BY DEF Transactions
<1> QED BY <1>1, ClosesReflexive DEF Goes

Stale(a, p) == quotes[a.positions[p].symbol].stale
\* No breach has closed a position of the account yet.
NoneForced(a) == \A i \in DOMAIN a.orders : a.orders[i].key[1] # 0

\* The forced closes of the positions up to p of a breached account: u is what
\* they have come to.
ForcedUpTo(log, a, u, p) ==
  /\ Goes(Started(a), u)
  /\ Ordered(log, a) => Ordered(log, u.acc)
  /\ u.thrown = "nothing" /\ a.book.status = "breached" /\ NoneForced(a) =>
       /\ \A i \in DOMAIN u.acc.orders :
            u.acc.orders[i].key[1] = 0 => u.acc.orders[i].key[2] <= p
       /\ \A q \in 1..p : Stale(a, q) \/ u.acc.positions[q].open = 0

\* The next one: a position with a fresh quote is closed.
LEMMA ForcedStep ==
  ASSUME quotes \in Quotes, today \in Days, NEW log, Len(log) \in Nat,
         NEW a \in Accounts, Len(a.positions) <= MaxPositions,
         NEW p \in 1..Len(a.positions), NEW u, ForcedUpTo(log, a, u, p - 1)
  PROVE  LET v == IF p \in OpenPositions(a) THEN CloseOne(u, <<0, p>>, p, 0) ELSE u
         IN  ForcedUpTo(log, a, v, p)
<1> DEFINE key == <<0, p>>
           w == CloseOne(u, key, p, 0)
           v == IF p \in OpenPositions(a) THEN w ELSE u
           Breach(x) == x.thrown = "nothing" /\ a.book.status = "breached" /\ NoneForced(a)
<1>1. /\ u \in Transactions /\ u.acc \in Accounts /\ u.status = a.book.status
      /\ Goes(Started(a), u) /\ Started(a) \in Transactions /\ Started(a).acc = a
  BY StartedIs DEF ForcedUpTo, Goes, Transactions
<1>2. key \in Keys /\ Len(a.positions) \in Nat /\ DOMAIN a.positions = 1..Len(a.positions)
  BY AccountIs, TradingAssumption DEF Keys
<1>3. /\ DOMAIN u.acc.positions = DOMAIN a.positions
      /\ \A q \in DOMAIN a.positions : /\ u.acc.positions[q].symbol = a.positions[q].symbol
                                       /\ u.acc.positions[q].open \in Nat
                                       /\ a.positions[q].open \in Nat
                                       /\ u.acc.positions[q].open <= a.positions[q].open
  BY <1>1, AccountIs DEF Goes, Closes
<1>4. Breach(u) =>
        /\ \A i \in DOMAIN u.acc.orders :
             u.acc.orders[i].key[1] = 0 => u.acc.orders[i].key[2] <= p - 1
        /\ \A q \in 1..(p - 1) : Stale(a, q) \/ u.acc.positions[q].open = 0
  BY DEF ForcedUpTo
<1>5. CASE u.thrown # "nothing" /\ p \in OpenPositions(a)
  <2>1. v = u
    BY <1>5 DEF CloseOne
  <2> QED BY <1>5, <2>1 DEF ForcedUpTo
<1>6. CASE p \notin OpenPositions(a)
  <2>1. v = u /\ a.positions[p].open = 0
    BY <1>2, <1>3, <1>6 DEF OpenPositions
  <2>2. u.acc.positions[p].open = 0
    BY <1>2, <1>3, <2>1
  <2>3. Breach(u) => /\ \A i \in DOMAIN u.acc.orders :
                          u.acc.orders[i].key[1] = 0 => u.acc.orders[i].key[2] <= p
                     /\ \A q \in 1..p : Stale(a, q) \/ u.acc.positions[q].open = 0
    <3> SUFFICES ASSUME Breach(u)
                 PROVE  /\ \A i \in DOMAIN u.acc.orders :
                             u.acc.orders[i].key[1] = 0 => u.acc.orders[i].key[2] <= p
                        /\ \A q \in 1..p : Stale(a, q) \/ u.acc.positions[q].open = 0
      OBVIOUS
    <3>1. \A i \in DOMAIN u.acc.orders : u.acc.orders[i].key[2] \in Nat
      BY <1>1, OrdersAre
    <3> QED BY <1>2, <1>4, <2>2, <3>1
  <2> QED BY <2>1, <2>3 DEF ForcedUpTo
<1>7. CASE u.thrown = "nothing" /\ p \in OpenPositions(a)
  <2>1. /\ Goes(u, w)
        /\ WritesNothing(u, w, key) \/ Refuses(u, w, key, p, 0) \/ Fills(u, w, key, p, 0)
    BY <1>1, <1>2, <1>7, CloseOneIs
  <2>2. v = w
    BY <1>7
  <2> HIDE DEF w, v
  <2>3. w \in Transactions /\ w.acc \in Accounts
    BY <2>1 DEF Goes, Transactions
  <2>4. Goes(Started(a), w)
    BY <1>1, <2>1, <2>3, GoesTransitive
  <2>5. Ordered(log, a) => Ordered(log, w.acc)
    BY <1>1, <1>2, <2>1, <2>3, CloseOneOrders DEF ForcedUpTo
  <2>6. ASSUME Breach(w)
        PROVE  /\ \A i \in DOMAIN w.acc.orders :
                    w.acc.orders[i].key[1] = 0 => w.acc.orders[i].key[2] <= p
               /\ \A q \in 1..p : Stale(a, q) \/ w.acc.positions[q].open = 0
    <3>1. /\ u.acc.orders \in Seq(Orders) /\ DOMAIN u.acc.orders = 1..Len(u.acc.orders)
          /\ Len(u.acc.orders) \in Nat
          /\ \A i \in DOMAIN u.acc.orders : u.acc.orders[i].key[2] \in Nat
      BY <1>1, OrdersAre
    <3>2. Breach(u)
      BY <1>7, <2>6
    <3>3. \A i \in DOMAIN w.acc.orders :
            w.acc.orders[i].key[1] = 0 => w.acc.orders[i].key[2] <= p
      <4>1. CASE WritesNothing(u, w, key)
        <5> SUFFICES ASSUME NEW i \in DOMAIN u.acc.orders, u.acc.orders[i].key[1] = 0
                     PROVE  u.acc.orders[i].key[2] <= p
          BY <4>1 DEF WritesNothing
        <5>1. u.acc.orders[i].key[2] <= p - 1 /\ u.acc.orders[i].key[2] \in Nat
          BY <1>4, <3>1, <3>2
        <5> QED BY <1>2, <5>1
      <4>2. CASE Refuses(u, w, key, p, 0) \/ Fills(u, w, key, p, 0)
        <5>1. PICK st : w.acc.orders = Append(u.acc.orders, OrderRow(u, key, "close", st))
          BY <4>2 DEF Refuses, Fills
        <5> DEFINE row == OrderRow(u, key, "close", st)
        <5>2. row.key[2] = p
          BY DEF OrderRow
        <5> HIDE DEF row
        <5>3. /\ DOMAIN w.acc.orders = 1..(Len(u.acc.orders) + 1)
              /\ w.acc.orders[Len(u.acc.orders) + 1] = row
              /\ \A i \in 1..Len(u.acc.orders) : w.acc.orders[i] = u.acc.orders[i]
          BY <3>1, <5>1 DEF row
        <5> SUFFICES ASSUME NEW i \in 1..(Len(u.acc.orders) + 1), w.acc.orders[i].key[1] = 0
                     PROVE  w.acc.orders[i].key[2] <= p
          BY <5>3
        <5>4. CASE i = Len(u.acc.orders) + 1
          <6>1. w.acc.orders[i].key[2] = p /\ p \in Int
            BY <5>2, <5>3, <5>4
          <6> QED BY <6>1
        <5>5. CASE i # Len(u.acc.orders) + 1
          <6>1. i \in 1..Len(u.acc.orders) /\ i \in DOMAIN u.acc.orders
            BY <3>1, <5>5
          <6>2. u.acc.orders[i].key[2] <= p - 1 /\ w.acc.orders[i] = u.acc.orders[i]
            BY <1>4, <3>2, <5>3, <6>1
          <6>3. u.acc.orders[i].key[2] \in Nat
            BY <3>1, <6>1
          <6>4. p \in Int /\ \A n \in Nat : n <= p - 1 => n <= p
            BY <1>2
          <6> QED BY ONLY <6>2, <6>3, <6>4
        <5> QED BY <5>4, <5>5
      <4> QED BY <2>1, <4>1, <4>2
    <3>4. \A q \in DOMAIN a.positions : /\ w.acc.positions[q].open \in Nat
                                        /\ w.acc.positions[q].open <= u.acc.positions[q].open
      <4>1. Closes(u.acc, w.acc)
        BY <2>1 DEF Goes
      <4>2. DOMAIN w.acc.positions = DOMAIN u.acc.positions
        BY <1>1, <2>3, <4>1, AccountIs DEF Closes
      <4> SUFFICES ASSUME NEW q \in DOMAIN a.positions
                   PROVE  /\ w.acc.positions[q].open \in Nat
                          /\ w.acc.positions[q].open <= u.acc.positions[q].open
        OBVIOUS
      <4>3. w.acc.positions[q].open \in Nat
        BY <1>3, <2>3, <4>2, AccountIs
      <4> QED BY <1>3, <4>1, <4>3 DEF Closes
    <3>5. \A q \in 1..(p - 1) : Stale(a, q) \/ w.acc.positions[q].open = 0
      <4> SUFFICES ASSUME NEW q \in 1..(p - 1), ~Stale(a, q) PROVE w.acc.positions[q].open = 0
        OBVIOUS
      <4>1. q \in DOMAIN a.positions /\ u.acc.positions[q].open = 0
        BY <1>2, <1>4, <3>2
      <4> QED BY <3>4, <4>1
    <3>6. Stale(a, p) \/ w.acc.positions[p].open = 0
      <4>1. CASE u.acc.positions[p].open = 0
        BY <1>2, <3>4, <4>1
      <4>2. CASE u.acc.positions[p].open # 0 /\ ~Stale(a, p)
        <5>1. CloseAllowed(u, p, 0)
          <6>1. p \in DOMAIN u.acc.positions /\ u.acc.positions[p].open > 0
            BY <1>2, <1>3, <4>2
          <6>2. u.status \in ClosableStatuses
            BY <1>1, <3>2 DEF ClosableStatuses
          <6>3. ~quotes[u.acc.positions[p].symbol].stale
            BY <1>2, <1>3, <4>2 DEF Stale
          <6> QED BY <6>1, <6>2, <6>3 DEF CloseAllowed, OpenPositions
        <5>2. ~Placed(u.acc, key)
          <6>1. \A i \in DOMAIN u.acc.orders : u.acc.orders[i].key # key
            <7> SUFFICES ASSUME NEW i \in DOMAIN u.acc.orders, u.acc.orders[i].key = key PROVE FALSE
              OBVIOUS
            <7>1. u.acc.orders[i].key[1] = 0 /\ u.acc.orders[i].key[2] = p
              OBVIOUS
            <7>2. p <= p - 1
              BY <1>4, <3>2, <7>1
            <7> QED BY <1>2, <7>2
          <6> QED BY <6>1 DEF Placed
        <5>3. Fills(u, w, key, p, 0)
          BY <2>1, <2>6, <5>1, <5>2 DEF WritesNothing, Refuses
        <5> QED BY <5>3 DEF Fills
      <4> QED BY <4>1, <4>2
    <3>7. \A q \in 1..p : q = p \/ q \in 1..(p - 1)
      BY <1>2
    <3> QED BY <3>3, <3>5, <3>6, <3>7
  <2>7. ForcedUpTo(log, a, w, p)
    BY <2>4, <2>5, <2>6 DEF ForcedUpTo
  <2> QED BY <2>2, <2>7 DEF v, w
<1> QED BY <1>5, <1>6, <1>7

\* All of them: every position of a breached account that a fresh quote can
\* close is closed.
LEMMA ForceClosedIs ==
  ASSUME quotes \in Quotes, today \in Days, NEW log, Len(log) \in Nat,
         NEW t, t.acc \in Accounts, Len(t.acc.positions) <= MaxPositions
  PROVE  ForcedUpTo(log, t.acc, ForceClosed(t), Len(t.acc.positions))
<1> DEFINE a == t.acc
           n == Len(a.positions)
<1>0. a \in Accounts /\ n \in Nat /\ n <= MaxPositions
  BY AccountIs
<1>1. PICK g : /\ ForceClosed(t) = g[n] /\ g[0] = Started(a)
               /\ \A p \in 1..n :
                    g[p] = IF p \in OpenPositions(a) THEN CloseOne(g[p - 1], <<0, p>>, p, 0) ELSE g[p - 1]
  BY <1>0, ForcedUnfolds
<1> DEFINE B == {p \in 0..n : ForcedUpTo(log, a, g[p], p)}
<1> HIDE DEF a
<1>2. 0 \in B
  <2>1. /\ Started(a) \in Transactions /\ Started(a).acc = a
    BY <1>0, StartedIs
  <2>2. Goes(Started(a), Started(a))
    BY <2>1, GoesReflexive
  <2>3. ForcedUpTo(log, a, Started(a), 0)
    BY <2>1, <2>2 DEF ForcedUpTo, NoneForced
  <2> QED BY <1>0, <1>1, <2>3
<1>3. ASSUME NEW p \in 1..n, p - 1 \in B PROVE p \in B
  <2>1. ForcedUpTo(log, a, g[p - 1], p - 1)
    BY <1>3
  <2> DEFINE u == g[p - 1]
             v == IF p \in OpenPositions(a) THEN CloseOne(u, <<0, p>>, p, 0) ELSE u
  <2>2. ForcedUpTo(log, a, v, p)
    <3> HIDE DEF u
    <3>1. ForcedUpTo(log, a, u, p - 1)
      BY <2>1 DEF u
    <3> QED BY <1>0, <3>1, ForcedStep
  <2>3. g[p] = v /\ p \in 0..n
    BY <1>1
  <2> HIDE DEF v
  <2> QED BY <2>2, <2>3
<1> HIDE DEF B
<1>4. n \in B
  <2>1. n \in 0..n
    BY <1>0
  <2> QED BY <1>0, <1>2, <1>3, <2>1, CountUp
<1> QED BY <1>1, <1>4 DEF B, a

\* No position with a fresh quote is open.
AllStale(a) == \A p \in DOMAIN a.positions : Stale(a, p) \/ a.positions[p].open = 0

\* The tail of a command: the forced closes, if it has just breached the account.
LEMMA SettleIs ==
  ASSUME quotes \in Quotes, today \in Days, NEW log, Len(log) \in Nat,
         NEW t \in Transactions, Len(t.acc.positions) <= MaxPositions,
         t.thrown = "nothing" /\ t.breached => t.acc.book.status = "breached"
  PROVE  LET u == Settle(t)
         IN  /\ Goes(t, u)
             /\ Ordered(log, t.acc) => Ordered(log, u.acc)
             /\ u.thrown = "nothing" => t.thrown = "nothing"
             /\ u.thrown = "nothing" /\ ~t.breached => u = t
             /\ u.thrown = "nothing" /\ t.breached =>
                  /\ u.acc.book.status = "breached"
                  /\ NoneForced(t.acc) => AllStale(u.acc)
<1> DEFINE u == Settle(t)
           a == t.acc
           forced == ForceClosed(t)
<1>1. a \in Accounts
  BY DEF Transactions
<1>2. CASE t.thrown # "nothing" \/ ~t.breached
  <2>1. u = t
    BY <1>2 DEF Settle
  <2> HIDE DEF u
  <2> QED BY <1>2, <2>1, GoesReflexive DEF u
<1>3. CASE t.thrown = "nothing" /\ t.breached
  <2>1. u = [t EXCEPT !.acc = forced.acc, !.thrown = forced.thrown]
    BY <1>3 DEF Settle
  <2>2. ForcedUpTo(log, a, forced, Len(a.positions))
    BY <1>1, ForceClosedIs
  <2> HIDE DEF forced, u, a
  <2>3. /\ forced \in Transactions /\ forced.acc \in Accounts
        /\ Closes(a, forced.acc)
        /\ a.book.status = "breached" => forced.acc.book.status = "breached"
        /\ RowsUpTo(a.book, today) => RowsUpTo(forced.acc.book, today)
    BY <1>1, <2>2, StartedIs DEF ForcedUpTo, Goes, Transactions
  <2>4. /\ u \in Transactions /\ u.acc = forced.acc /\ u.thrown = forced.thrown /\ u.status = t.status
    BY <2>1, <2>3 DEF Transactions
  <2>5. Goes(t, u)
    BY <2>3, <2>4 DEF Goes, a
  <2>6. Ordered(log, a) => Ordered(log, u.acc)
    BY <2>2, <2>4 DEF ForcedUpTo
  <2>7. a.book.status = "breached"
    BY <1>3 DEF a
  <2>8. ASSUME u.thrown = "nothing", NoneForced(a) PROVE AllStale(u.acc)
    <3>1. \A q \in 1..Len(a.positions) : Stale(a, q) \/ u.acc.positions[q].open = 0
      BY <2>2, <2>4, <2>7, <2>8 DEF ForcedUpTo
    <3>2. /\ DOMAIN u.acc.positions = 1..Len(a.positions)
          /\ \A q \in 1..Len(a.positions) : u.acc.positions[q].symbol = a.positions[q].symbol
      BY <1>1, <2>3, <2>4, AccountIs DEF Closes
    <3> QED BY <3>1, <3>2 DEF AllStale, Stale
  <2> QED BY <1>3, <2>3, <2>4, <2>5, <2>6, <2>7, <2>8 DEF u, a
<1> QED BY <1>2, <1>3

\* An account breached in this command has nothing open that it could close; one
\* not breached was never forced.
Calm(a) == IF a.book.status = "breached" THEN AllStale(a) ELSE NoneForced(a)
\* The account stands above its floor if its last order, past those of log, is
\* filled.
FilledStands(log, a) ==
  LET last == a.orders[Len(a.orders)]
  IN  Len(a.orders) > Len(log) /\ last.st = "filled" /\ last.kind # "close_all" => Standing(a)

\* What a transaction that only closes positions of a has come to at u.
From(log, a, u) ==
  /\ Goes(Started(a), u)
  /\ Ordered(log, u.acc)
  /\ u.thrown = "nothing" =>
       /\ a.book.status # "breached" => Calm(u.acc)
       /\ FilledStands(log, u.acc)

LEMMA FromStart ==
  ASSUME NEW log, NEW a \in Accounts, Ordered(log, a), Len(a.orders) = Len(log),
         a.book.status # "breached" => NoneForced(a)
  PROVE  From(log, a, Started(a))
<1>1. Started(a) \in Transactions /\ Started(a).acc = a
  BY StartedIs
<1>2. Goes(Started(a), Started(a))
  BY <1>1, GoesReflexive
<1>3. Len(a.orders) \in Nat
  BY OrdersAre
<1> QED BY <1>1, <1>2, <1>3 DEF From, Calm, FilledStands

\* A row added to the orders under a key no breach uses.
LEMMA NoneForcedAppends ==
  ASSUME NEW a \in Accounts, NEW b, NEW row, b.orders = Append(a.orders, row),
         row.key[1] # 0, NoneForced(a)
  PROVE  NoneForced(b)
<1>1. /\ a.orders \in Seq(Orders) /\ Len(a.orders) \in Nat /\ DOMAIN a.orders = 1..Len(a.orders)
  BY OrdersAre
<1>2. /\ DOMAIN b.orders = 1..(Len(a.orders) + 1) /\ b.orders[Len(a.orders) + 1] = row
      /\ \A i \in 1..Len(a.orders) : b.orders[i] = a.orders[i]
  BY <1>1
<1> QED BY <1>1, <1>2 DEF NoneForced

LEMMA LastOfAppended ==
  ASSUME NEW a \in Accounts, NEW b, NEW row, b.orders = Append(a.orders, row)
  PROVE  b.orders[Len(b.orders)] = row /\ Len(b.orders) = Len(a.orders) + 1
<1>1. a.orders \in Seq(Orders) /\ Len(a.orders) \in Nat
  BY OrdersAre
<1> QED BY <1>1

\* Stale positions stay so, closes notwithstanding.
LEMMA AllStaleStays ==
  ASSUME NEW a \in Accounts, NEW b \in Accounts, Closes(a, b), AllStale(a)
  PROVE  AllStale(b)
<1> SUFFICES ASSUME NEW p \in DOMAIN b.positions, ~Stale(b, p) PROVE b.positions[p].open = 0
  BY DEF AllStale
<1>1. p \in DOMAIN a.positions /\ b.positions[p].symbol = a.positions[p].symbol
      /\ b.positions[p].open <= a.positions[p].open /\ b.positions[p].open \in Nat
  BY AccountIs DEF Closes
<1>2. a.positions[p].open = 0
  BY <1>1 DEF AllStale, Stale
<1> QED BY <1>1, <1>2

\* closePositionLocked, on any account row that the transaction holds.
LEMMA LockedStep ==
  ASSUME quotes \in Quotes, today \in Days, NEW log, Len(log) \in Nat,
         NEW a \in Accounts, Len(a.positions) <= MaxPositions, RowsUpTo(a.book, today),
         NEW t, From(log, a, t), NEW key \in Keys, key[1] # 0, NEW p, NEW lots \in Nat
  PROVE  From(log, a, ClosePositionLocked(t, key, p, lots))
<1> DEFINE w == CloseOne(t, key, p, lots)
           u == Settle(w)
<1>0. ClosePositionLocked(t, key, p, lots) = u
  BY DEF ClosePositionLocked
<1>1. /\ t \in Transactions /\ t.acc \in Accounts /\ Started(a) \in Transactions
      /\ Started(a).acc = a /\ Goes(Started(a), t)
  BY StartedIs DEF From, Goes, Transactions
<1>2. CASE t.thrown # "nothing"
  <2>1. w = t /\ u = w
    BY <1>2 DEF CloseOne, Settle
  <2> QED BY <1>0, <2>1
<1>3. CASE t.thrown = "nothing"
  <2>1. /\ Goes(t, w)
        /\ WritesNothing(t, w, key) \/ Refuses(t, w, key, p, lots) \/ Fills(t, w, key, p, lots)
    BY <1>1, <1>3, CloseOneIs
  <2> HIDE DEF w
  <2>2. w \in Transactions /\ w.acc \in Accounts
    BY <2>1 DEF Goes, Transactions
  <2>3. Goes(Started(a), w)
    BY <1>1, <2>1, <2>2, GoesTransitive
  <2>4. Ordered(log, w.acc)
    BY <1>1, <2>1, <2>2, CloseOneOrders DEF From
  <2>5. RowsUpTo(t.acc.book, today) /\ RowsUpTo(w.acc.book, today)
    BY <1>1, <2>3 DEF Goes
  <2>6. w.thrown = "nothing" /\ w.breached => w.acc.book.status = "breached"
    BY <2>1 DEF WritesNothing, Refuses, Fills
  <2>7. Len(w.acc.positions) <= MaxPositions
    BY <1>1, <2>3 DEF Goes, Closes
  <2>8. /\ Goes(w, u)
        /\ Ordered(log, u.acc)
        /\ u.thrown = "nothing" => w.thrown = "nothing"
        /\ u.thrown = "nothing" /\ ~w.breached => u = w
        /\ u.thrown = "nothing" /\ w.breached =>
             /\ u.acc.book.status = "breached"
             /\ NoneForced(w.acc) => AllStale(u.acc)
    BY <2>2, <2>4, <2>6, <2>7, SettleIs
  <2> HIDE DEF u
  <2>9. Goes(Started(a), u)
    BY <1>1, <2>2, <2>3, <2>8, GoesTransitive
  <2>10. ASSUME u.thrown = "nothing", a.book.status # "breached" PROVE Calm(u.acc)
    <3>1. Calm(t.acc) /\ w.thrown = "nothing"
      BY <1>3, <2>8, <2>10 DEF From
    <3>2. CASE t.acc.book.status = "breached"
      <4>1. u.acc \in Accounts /\ u.acc.book.status = "breached" /\ AllStale(t.acc)
        BY <2>1, <2>8, <3>1, <3>2 DEF Goes, Calm, Transactions
      <4>2. Closes(t.acc, w.acc) /\ Closes(w.acc, u.acc)
        BY <2>1, <2>8 DEF Goes
      <4>3. AllStale(u.acc)
        BY <1>1, <2>2, <4>1, <4>2, AllStaleStays
      <4> QED BY <4>1, <4>3 DEF Calm
    <3>3. CASE t.acc.book.status # "breached"
      <4>1. NoneForced(t.acc)
        BY <3>1, <3>3 DEF Calm
      <4>2. NoneForced(w.acc)
        <5>1. CASE WritesNothing(t, w, key)
          BY <4>1, <5>1 DEF WritesNothing
        <5>2. CASE Refuses(t, w, key, p, lots) \/ Fills(t, w, key, p, lots)
          <6>1. PICK st : w.acc.orders = Append(t.acc.orders, OrderRow(t, key, "close", st))
            BY <5>2 DEF Refuses, Fills
          <6>2. OrderRow(t, key, "close", st).key = key
            BY DEF OrderRow
          <6> DEFINE row == OrderRow(t, key, "close", st)
          <6>3. row.key[1] # 0 /\ w.acc.orders = Append(t.acc.orders, row)
            BY <6>1, <6>2
          <6> HIDE DEF row
          <6> QED BY <1>1, <4>1, <6>3, NoneForcedAppends
        <5> QED BY <2>1, <5>1, <5>2
      <4>3. CASE w.breached
        BY <2>8, <2>10, <4>2, <4>3 DEF Calm
      <4>4. CASE ~w.breached
        <5>1. w.acc.book.status # "breached"
          <6>1. CASE WritesNothing(t, w, key)
            BY <3>3, <6>1 DEF WritesNothing
          <6>2. CASE Refuses(t, w, key, p, lots)
            BY <3>3, <6>2 DEF Refuses
          <6>3. CASE Fills(t, w, key, p, lots)
            BY <3>1, <3>3, <4>4, <6>3 DEF Fills
          <6> QED BY <2>1, <6>1, <6>2, <6>3
        <5> QED BY <2>8, <2>10, <4>2, <4>4, <5>1 DEF Calm
      <4> QED BY <4>3, <4>4
    <3> QED BY <3>2, <3>3
  <2>11. ASSUME u.thrown = "nothing" PROVE FilledStands(log, u.acc)
    <3>1. w.thrown = "nothing" /\ FilledStands(log, t.acc)
      BY <1>3, <2>8, <2>11 DEF From
    <3>2. CASE w.breached
      <4>1. u.acc.book.status = "breached"
        BY <2>8, <2>11, <3>2
      <4> QED BY <4>1 DEF FilledStands, Standing
    <3>3. CASE ~w.breached
      <4>1. u = w
        BY <2>8, <2>11, <3>3
      <4>2. CASE WritesNothing(t, w, key)
        BY <3>1, <4>1, <4>2 DEF WritesNothing
      <4>3. CASE Refuses(t, w, key, p, lots)
        <5>1. PICK st \in {"rejected", "account_not_active"} :
                w.acc.orders = Append(t.acc.orders, OrderRow(t, key, "close", st))
          BY <4>3 DEF Refuses
        <5>2. OrderRow(t, key, "close", st).st # "filled"
          BY DEF OrderRow
        <5>3. w.acc.orders[Len(w.acc.orders)] = OrderRow(t, key, "close", st)
          BY <1>1, <5>1, LastOfAppended
        <5> QED BY <4>1, <5>2, <5>3 DEF FilledStands
      <4>4. CASE Fills(t, w, key, p, lots)
        BY <2>5, <3>1, <4>1, <4>4 DEF Fills, FilledStands
      <4> QED BY <2>1, <4>2, <4>3, <4>4
    <3> QED BY <3>2, <3>3
  <2>12. From(log, a, u)
    BY <2>8, <2>9, <2>10, <2>11 DEF From
  <2> QED BY <1>0, <2>12
<1> QED BY <1>2, <1>3

-----------------------------------------------------------------------------
(* The commands.                                                           *)

\* An account between two commands.
Tidy(a) ==
  /\ a \in Accounts /\ Len(a.positions) <= MaxPositions
  /\ Matches(a)
  /\ \A s \in Symbols : BucketLots(a, s) <= ExposureLimit
  /\ RowsUpTo(a.book, today)
Held(a) ==
  /\ Tidy(a)
  /\ Ordered(a.orders, a)
  /\ a.book.status # "breached" => NoneForced(a)

\* What a command that commits b makes of a.
Good(a, b) ==
  /\ Tidy(b)
  /\ Ordered(a.orders, b)
  /\ a.book.status = "breached" => b.book.status = "breached"
  /\ a.book.status # "breached" => Calm(b)
  /\ FilledStands(a.orders, b)

LotsIn(a, symbols) ==
  [p \in DOMAIN a.positions |-> IF a.positions[p].symbol \in symbols THEN a.positions[p].open ELSE 0]

LEMMA LotsInType ==
  ASSUME NEW a \in Accounts, NEW symbols
  PROVE  /\ LotsIn(a, symbols) \in Seq(Int) /\ Len(LotsIn(a, symbols)) = Len(a.positions)
         /\ \A p \in 1..Len(a.positions) : LotsIn(a, symbols)[p] =
              IF a.positions[p].symbol \in symbols THEN a.positions[p].open ELSE 0
<1> DEFINE f == LotsIn(a, symbols)
<1>1. f \in [1..Len(a.positions) -> Int] /\ Len(a.positions) \in Nat
  BY AccountIs DEF LotsIn
<1>2. f \in Seq(Int) /\ Len(f) = Len(a.positions)
  <2> HIDE DEF f
  <2> QED BY <1>1, ListIs
<1> QED BY <1>2, AccountIs DEF LotsIn

\* Closing frees the bucket.
LEMMA ClosesFree ==
  ASSUME NEW a \in Accounts, NEW b \in Accounts, Closes(a, b), NEW s
  PROVE  BucketLots(b, s) <= BucketLots(a, s)
<1> DEFINE symbols == {x \in Symbols : Bucket[x] = Bucket[s]}
           f == LotsIn(a, symbols)
           h == LotsIn(b, symbols)
<1>1. /\ f \in Seq(Int) /\ h \in Seq(Int) /\ Len(f) = Len(a.positions) /\ Len(h) = Len(f)
  BY LotsInType DEF Closes
<1>2. ASSUME NEW p \in 1..Len(f) PROVE h[p] <= f[p]
  <2>0. Len(a.positions) = Len(f) /\ Len(b.positions) = Len(f)
    BY <1>1 DEF Closes
  <2>1. p \in DOMAIN a.positions /\ p \in DOMAIN b.positions /\ p \in 1..Len(a.positions) /\ p \in 1..Len(b.positions)
    <3> HIDE DEF f
    <3> QED BY <2>0, AccountIs
  <2>2. /\ b.positions[p].symbol = a.positions[p].symbol /\ b.positions[p].open <= a.positions[p].open
        /\ a.positions[p].open \in Nat /\ b.positions[p].open \in Nat
    BY <2>1, AccountIs DEF Closes
  <2>3. f[p] = IF a.positions[p].symbol \in symbols THEN a.positions[p].open ELSE 0
    BY <2>1, LotsInType
  <2>4. h[p] = IF b.positions[p].symbol \in symbols THEN b.positions[p].open ELSE 0
    BY <2>1, LotsInType
  <2> HIDE DEF f, h, symbols
  <2> QED BY <2>2, <2>3, <2>4
<1>3. BucketLots(a, s) = Total(f) /\ BucketLots(b, s) = Total(h)
  BY DEF BucketLots, OpenLots, LotsIn
<1> HIDE DEF f, h
<1>4. Total(h) <= Total(f)
  BY <1>1, <1>2, TotalIsMonotone
<1> QED BY <1>3, <1>4

LEMMA BucketLotsType ==
  ASSUME NEW a \in Accounts, NEW s PROVE BucketLots(a, s) \in Int
<1> DEFINE symbols == {x \in Symbols : Bucket[x] = Bucket[s]}
<1>1. Total(LotsIn(a, symbols)) \in Int
  <2> HIDE DEF symbols
  <2> QED BY LotsInType, TotalIsInt
<1> QED BY <1>1 DEF BucketLots, OpenLots, LotsIn

LEMMA ClosesTidy ==
  ASSUME NEW a, Tidy(a), NEW b \in Accounts, Closes(a, b), RowsUpTo(b.book, today)
  PROVE  Tidy(b)
<1>1. a \in Accounts
  BY DEF Tidy
<1>2. ASSUME NEW s \in Symbols PROVE BucketLots(b, s) <= ExposureLimit
  <2>1. BucketLots(b, s) <= BucketLots(a, s) /\ BucketLots(a, s) <= ExposureLimit
    BY <1>1, ClosesFree DEF Tidy
  <2> QED BY <1>1, <2>1, BucketLotsType, TradingAssumption
<1> QED BY <1>2 DEF Tidy, Closes

\* A command that only closes.
LEMMA FromIsGood ==
  ASSUME NEW a, Held(a), NEW u, From(a.orders, a, u), u.thrown = "nothing"
  PROVE  Good(a, u.acc)
<1>1. /\ a \in Accounts /\ Started(a) \in Transactions /\ Started(a).acc = a
      /\ RowsUpTo(a.book, today) /\ Tidy(a)
  BY StartedIs DEF Held, Tidy
<1>2. /\ u.acc \in Accounts /\ Closes(a, u.acc) /\ RowsUpTo(u.acc.book, today)
      /\ a.book.status = "breached" => u.acc.book.status = "breached"
  BY <1>1 DEF From, Goes, Transactions
<1>3. Tidy(u.acc)
  BY <1>1, <1>2, ClosesTidy
<1> QED BY <1>2, <1>3 DEF From, Good

LEMMA TraderKeys ==
  ASSUME NEW k \in 1..MaxKeys, NEW p \in 0..MaxPositions
  PROVE  <<k, p>> \in Keys /\ <<k, p>>[1] # 0 /\ <<0, p>> \in Keys
BY TradingAssumption DEF Keys

LEMMA ClosePositionIs ==
  ASSUME quotes \in Quotes, today \in Days, NEW a, Held(a),
         NEW k \in 1..MaxKeys, NEW p, NEW lots \in Nat
  PROVE  LET u == ClosePositionLocked(Started(a), <<k, 0>>, p, lots)
         IN  u \in Transactions /\ (u.thrown = "nothing" => Good(a, u.acc))
<1> DEFINE u == ClosePositionLocked(Started(a), <<k, 0>>, p, lots)
<1>1. /\ a \in Accounts /\ Len(a.positions) <= MaxPositions /\ RowsUpTo(a.book, today)
      /\ Ordered(a.orders, a) /\ Len(a.orders) \in Nat
  BY OrdersAre DEF Held, Tidy
<1>2. From(a.orders, a, Started(a))
  BY <1>1, FromStart DEF Held
<1>3. <<k, 0>> \in Keys /\ <<k, 0>>[1] # 0
  <2>1. 0 \in 0..MaxPositions
    BY TradingAssumption
  <2> QED BY <2>1, TraderKeys
<1> DEFINE key == <<k, 0>>
<1> HIDE DEF key
<1>4. From(a.orders, a, ClosePositionLocked(Started(a), key, p, lots))
  BY <1>1, <1>2, <1>3, LockedStep DEF key
<1>5. From(a.orders, a, u)
  BY <1>4 DEF key
<1> HIDE DEF u
<1>6. u \in Transactions
  BY <1>5 DEF From, Goes
<1> QED BY <1>5, <1>6, FromIsGood DEF u

\* Whatever log the orders continue, they continue themselves.
LEMMA OrderedAlone ==
  ASSUME NEW log, NEW a \in Accounts, Ordered(log, a) PROVE Ordered(a.orders, a)
<1>1. Len(a.orders) \in Nat
  BY OrdersAre
<1> QED BY <1>1 DEF Ordered

MasterRow(a, k) == [key |-> <<k, 0>>, kind |-> "close_all", st |-> "filled", seq |-> a.version]

\* The master order of a Close All.
LEMMA MasterPlacedIs ==
  ASSUME NEW a, Held(a), NEW k \in 1..MaxKeys, ~Placed(a, <<k, 0>>)
  PROVE  LET b == MasterPlaced(a, k).acc
         IN  /\ MasterPlaced(a, k) = Started(b)
             /\ Held(b) /\ Ordered(a.orders, b)
             /\ b.orders = Append(a.orders, MasterRow(a, k))
             /\ b.book = a.book /\ b.positions = a.positions
<1> DEFINE b == [a EXCEPT !.orders = Append(a.orders, MasterRow(a, k))]
<1>1. a \in Accounts /\ a.orders \in Seq(Orders) /\ Len(a.orders) \in Nat /\ a.version \in Nat
  BY AccountIs, OrdersAre DEF Held, Tidy
<1>2. MasterRow(a, k) \in Orders
  <2>1. <<k, 0>> \in Keys
    <3>1. 0 \in 0..MaxPositions
      BY TradingAssumption
    <3> QED BY <3>1, TraderKeys
  <2> QED BY <1>1, <2>1 DEF MasterRow, Orders
<1>3. /\ b \in Accounts /\ b.orders = Append(a.orders, MasterRow(a, k))
      /\ b.book = a.book /\ b.positions = a.positions /\ b.version = a.version
  <2> DEFINE longer == Append(a.orders, MasterRow(a, k))
  <2>1. longer \in Seq(Orders)
    BY <1>1, <1>2
  <2>2. b = [a EXCEPT !.orders = longer]
    OBVIOUS
  <2> HIDE DEF longer, b
  <2>3. /\ b \in Accounts /\ b.orders = longer
        /\ b.book = a.book /\ b.positions = a.positions /\ b.version = a.version
    BY <1>1, <2>1, <2>2 DEF Accounts
  <2> QED BY <2>3 DEF longer
<1>4. MasterPlaced(a, k) = Started(b) /\ MasterPlaced(a, k).acc = b
  <2> DEFINE s == Started(a)
  <2>1. s = [acc |-> a, version |-> a.version, status |-> a.book.status,
             breached |-> FALSE, thrown |-> "nothing"]
    BY DEF Started
  <2>2. MasterPlaced(a, k) = [s EXCEPT !.acc = b]
    BY <2>1 DEF MasterPlaced, MasterRow, Accounts
  <2> DEFINE m == MasterPlaced(a, k)
  <2>3. /\ s \in Transactions /\ s.version = a.version /\ s.status = a.book.status
        /\ s.breached = FALSE /\ s.thrown = "nothing"
    BY <1>1, StartedIs
  <2> HIDE DEF b, s, m
  <2>4. /\ m \in Transactions /\ m.acc = b /\ m.version = a.version /\ m.status = a.book.status
        /\ m.breached = FALSE /\ m.thrown = "nothing"
    BY <1>3, <2>2, <2>3 DEF Transactions, m
  <2>5. /\ Started(b) \in Transactions /\ Started(b).acc = b /\ Started(b).version = a.version
        /\ Started(b).status = a.book.status
        /\ Started(b).breached = FALSE /\ Started(b).thrown = "nothing"
    BY <1>3, StartedIs
  <2>6. m = Started(b)
    BY <2>4, <2>5, SameTransaction
  <2> QED BY <2>4, <2>6 DEF m
<1> HIDE DEF b
<1>5. MasterRow(a, k).key = <<k, 0>> /\ MasterRow(a, k).kind = "close_all" /\ <<k, 0>>[1] # 0
  BY DEF MasterRow
<1>6. Ordered(a.orders, b)
  <2> DEFINE row == MasterRow(a, k)
  <2>1. ~Placed(a, row.key) /\ row.kind = "close_all" /\ Ordered(a.orders, a)
    BY <1>5 DEF Held
  <2> HIDE DEF row
  <2> QED BY <1>1, <1>3, <2>1, OrderedAppends DEF row
<1>7. a.book.status # "breached" => NoneForced(b)
  <2> DEFINE row == MasterRow(a, k)
  <2>1. row.key[1] # 0 /\ b.orders = Append(a.orders, row)
    BY <1>3, <1>5
  <2>2. a.book.status # "breached" => NoneForced(a)
    BY DEF Held
  <2> HIDE DEF row
  <2> QED BY <1>1, <2>1, <2>2, NoneForcedAppends
<1>8. Tidy(b)
  <2>1. Closes(a, b)
    BY <1>1, <1>3, ClosesReflexive
  <2> QED BY <1>3, <2>1, ClosesTidy DEF Held, Tidy
<1>9. Held(b)
  BY <1>3, <1>6, <1>7, <1>8, OrderedAlone DEF Held
<1> QED BY <1>3, <1>4, <1>6, <1>9

\* The children of a Close All go through every open position.
LEMMA ChildrenIs ==
  ASSUME quotes \in Quotes, today \in Days, NEW a, Held(a),
         NEW k \in 1..MaxKeys, ~Placed(a, <<k, 0>>)
  PROVE  LET b == MasterPlaced(a, k).acc IN From(b.orders, b, ChildrenClosed(a, k))
<1> DEFINE b == MasterPlaced(a, k).acc
           n == Len(a.positions)
<1>1. /\ MasterPlaced(a, k) = Started(b) /\ Held(b) /\ b.positions = a.positions
  BY MasterPlacedIs
<1>2. a \in Accounts /\ n \in Nat /\ n <= MaxPositions /\ DOMAIN a.positions = 1..n
  BY AccountIs DEF Held, Tidy
<1>3. PICK g : /\ ChildrenClosed(a, k) = g[n] /\ g[0] = MasterPlaced(a, k)
               /\ \A p \in 1..n :
                    g[p] = IF p \in OpenPositions(a) THEN ClosePositionLocked(g[p - 1], <<k, p>>, p, 0) ELSE g[p - 1]
  BY <1>2, ChildrenUnfolds
<1> HIDE DEF b
<1>4. /\ b \in Accounts /\ Len(b.positions) <= MaxPositions /\ RowsUpTo(b.book, today)
      /\ Ordered(b.orders, b) /\ Len(b.orders) \in Nat
  BY <1>1, OrdersAre DEF Held, Tidy
<1> DEFINE B == {p \in 0..n : From(b.orders, b, g[p])}
<1>5. 0 \in B
  <2>1. From(b.orders, b, Started(b))
    BY <1>1, <1>4, FromStart DEF Held
  <2> QED BY <1>1, <1>2, <1>3, <2>1 DEF b
<1>6. ASSUME NEW p \in 1..n, p - 1 \in B PROVE p \in B
  <2> DEFINE t == g[p - 1]
             key == <<k, p>>
  <2>1. From(b.orders, b, t)
    BY <1>6
  <2>2. key \in Keys /\ key[1] # 0 /\ p \in 0..n
    <3>1. p \in 0..MaxPositions
      BY <1>2, TradingAssumption
    <3>2. <<k, p>> \in Keys /\ <<k, p>>[1] # 0
      BY <3>1, TraderKeys
    <3> QED BY <1>2, <3>2
  <2>3. g[p] = IF p \in OpenPositions(a) THEN ClosePositionLocked(t, key, p, 0) ELSE t
    BY <1>3
  <2> HIDE DEF t, key
  <2>4. From(b.orders, b, ClosePositionLocked(t, key, p, 0))
    BY <1>4, <2>1, <2>2, LockedStep
  <2> QED BY <2>1, <2>2, <2>3, <2>4
<1> HIDE DEF B
<1>7. n \in B
  <2>1. n \in 0..n
    BY <1>2
  <2> QED BY <1>2, <1>5, <1>6, <2>1, CountUp
<1> QED BY <1>3, <1>7 DEF B, b

\* A Close All: its children, and the verdict on them written on the master.
LEMMA CloseAllIs ==
  ASSUME quotes \in Quotes, today \in Days, NEW a, Held(a),
         NEW k \in 1..MaxKeys, ~Placed(a, <<k, 0>>)
  PROVE  LET u == CloseAllOf(a, k)
         IN  u \in Transactions /\ (u.thrown = "nothing" => Good(a, u.acc))
<1> DEFINE u == CloseAllOf(a, k)
           b == MasterPlaced(a, k).acc
           done == ChildrenClosed(a, k)
           d == done.acc
           m == Len(a.orders) + 1
           complete == \A i \in DOMAIN d.orders : d.orders[i].key[1] = k => d.orders[i].st = "filled"
           verdict == IF complete THEN "filled" ELSE "rejected"
           old == d.orders[m]
           row == [old EXCEPT !.seq = done.version, !.st = verdict]
           log == [d.orders EXCEPT ![m] = row]
           c == [d EXCEPT !.orders = log]
<1>1. /\ Held(b) /\ Ordered(a.orders, b) /\ b.orders = Append(a.orders, MasterRow(a, k))
      /\ b.book = a.book /\ b.positions = a.positions
  BY MasterPlacedIs
<1>2. a \in Accounts /\ b \in Accounts /\ Tidy(b)
      /\ a.orders \in Seq(Orders) /\ Len(a.orders) \in Nat
  BY <1>1, OrdersAre DEF Held, Tidy
<1>3. From(b.orders, b, done)
  BY ChildrenIs
<1>4. u = [done EXCEPT !.acc.orders[m] = row]
  BY DEF CloseAllOf, MasterEnded
<1> HIDE DEF u, b, done, complete
<1>5. /\ done \in Transactions /\ d \in Accounts /\ d.orders \in Seq(Orders)
      /\ Len(d.orders) \in Nat /\ DOMAIN d.orders = 1..Len(d.orders)
      /\ done.version \in Nat /\ \A i \in 1..Len(d.orders) : d.orders[i] \in Orders
  BY <1>3, OrdersAre DEF From, Goes, Transactions
<1>6. /\ m \in 1..Len(d.orders) /\ m <= Len(d.orders) /\ old = MasterRow(a, k)
      /\ \A i \in 1..Len(a.orders) : d.orders[i] = a.orders[i]
  <2>1. /\ Len(b.orders) = m /\ b.orders[m] = MasterRow(a, k)
        /\ \A i \in 1..Len(a.orders) : b.orders[i] = a.orders[i]
    BY <1>1, <1>2
  <2>2. Len(b.orders) <= Len(d.orders) /\ \A i \in 1..Len(b.orders) : d.orders[i] = b.orders[i]
    BY <1>3 DEF From, Ordered
  <2>3. m \in 1..m /\ m \in 1..Len(d.orders) /\ \A i \in 1..Len(a.orders) : i \in 1..m
    BY <1>2, <1>5, <2>1, <2>2
  <2> QED BY <2>1, <2>2, <2>3
<1>7. /\ row \in Orders /\ row.key = old.key /\ row.kind = "close_all"
  <2>1. old \in Orders /\ old.kind = "close_all" /\ verdict \in {"filled", "rejected"}
    BY <1>5, <1>6 DEF MasterRow
  <2> HIDE DEF old, verdict
  <2> QED BY <1>5, <2>1 DEF Orders
<1>8. u = [done EXCEPT !.acc = c]
  <2> HIDE DEF m, row
  <2> QED BY <1>4, <1>5 DEF Transactions, Accounts
<1> HIDE DEF row, verdict, m
<1>9. /\ log \in Seq(Orders) /\ Len(log) = Len(d.orders) /\ log[m] = row
      /\ \A i \in 1..Len(d.orders) : i # m => log[i] = d.orders[i]
  BY <1>5, <1>6, <1>7
<1> HIDE DEF log, old
<1>10. /\ c \in Accounts /\ c.orders = log /\ c.book = d.book
       /\ c.positions = d.positions /\ c.version = d.version
  BY <1>5, <1>9 DEF Accounts
<1> HIDE DEF c
<1>11. u \in Transactions /\ u.acc = c /\ u.thrown = done.thrown
  BY <1>5, <1>8, <1>10 DEF Transactions
<1>12. /\ \A i \in 1..Len(log) : log[i].key = d.orders[i].key /\ log[i].kind = d.orders[i].kind
       /\ DOMAIN log = 1..Len(log)
  <2>1. DOMAIN log = 1..Len(log)
    BY <1>9
  <2>2. d.orders[m].key = row.key /\ d.orders[m].kind = row.kind
    BY <1>6, <1>7 DEF MasterRow, old
  <2> QED BY <1>9, <2>1, <2>2
<1>13. Ordered(a.orders, c)
  <2>1. \A i \in 0..Len(log) : Taken(log, i) = Taken(d.orders, i)
    <3> SUFFICES ASSUME NEW i \in 0..Len(log) PROVE Taken(log, i) = Taken(d.orders, i)
      OBVIOUS
    <3>1. i \in Nat /\ \A j \in 1..i : log[j].kind = d.orders[j].kind
      BY <1>5, <1>9, <1>12
    <3> QED BY <3>1, TakenIsLocal
  <2>2. Distinct(log)
    BY <1>3, <1>5, <1>9, <1>12 DEF From, Ordered, Distinct, Decided!Distinct
  <2>3. c.version = Taken(log, Len(log))
    <3>1. d.version = Taken(d.orders, Len(d.orders)) /\ Len(log) \in 0..Len(log)
      BY <1>3, <1>5, <1>9 DEF From, Ordered
    <3> QED BY <1>9, <1>10, <2>1, <3>1
  <2>4. ASSUME NEW i \in (Len(a.orders) + 1)..Len(log), log[i].kind # "close_all"
        PROVE  log[i].seq = Taken(log, i)
    <3>1. i \in 1..Len(log) /\ i \in 0..Len(log) /\ i # m
      BY <1>2, <1>5, <1>7, <1>9, <2>4
    <3>2. Len(b.orders) = m /\ i \in (Len(b.orders) + 1)..Len(d.orders)
      <4>1. Len(b.orders) = Len(a.orders) + 1
        BY <1>1, <1>2, LastOfAppended
      <4> QED BY <1>2, <1>5, <1>9, <3>1, <4>1 DEF m
    <3>3. d.orders[i].kind # "close_all" /\ log[i] = d.orders[i]
      BY <1>9, <1>12, <2>4, <3>1
    <3>4. d.orders[i].seq = Taken(d.orders, i)
      BY <1>3, <3>2, <3>3 DEF From, Ordered
    <3> QED BY <2>1, <3>1, <3>3, <3>4
  <2>5. Len(a.orders) <= Len(log) /\ \A i \in 1..Len(a.orders) : log[i] = a.orders[i]
    <3>1. \A i \in 1..Len(a.orders) : i # m /\ i \in 1..Len(d.orders)
      BY <1>2, <1>5, <1>6 DEF m
    <3>2. Len(a.orders) <= Len(log)
      BY <1>2, <1>5, <1>6, <1>9 DEF m
    <3> QED BY <1>6, <1>9, <3>1, <3>2
  <2> QED BY <1>10, <2>2, <2>3, <2>4, <2>5 DEF Ordered
<1>14. ASSUME done.thrown = "nothing" PROVE Good(a, c)
  <2>1. Good(b, d)
    BY <1>1, <1>3, <1>14, FromIsGood
  <2>2. Tidy(c)
    <3>1. Closes(d, c)
      BY <1>5, <1>10, ClosesReflexive
    <3> QED BY <1>10, <2>1, <3>1, ClosesTidy DEF Good, Tidy
  <2>3. a.book.status # "breached" => Calm(c)
    <3>1. AllStale(d) => AllStale(c)
      BY <1>10 DEF AllStale, Stale
    <3>2. NoneForced(d) => NoneForced(c)
      BY <1>5, <1>9, <1>10, <1>12 DEF NoneForced
    <3> QED BY <1>1, <1>10, <2>1, <3>1, <3>2 DEF Good, Calm
  <2>4. FilledStands(a.orders, c)
    <3> SUFFICES ASSUME log[Len(log)].st = "filled", log[Len(log)].kind # "close_all"
                 PROVE  Standing(c)
      BY <1>10 DEF FilledStands
    <3>1. Len(log) # m
      BY <1>7, <1>9
    <3>2. Len(log) \in 1..Len(d.orders) /\ Len(log) > m /\ m \in Nat
      BY <1>5, <1>6, <1>9, <3>1
    <3>3. Len(b.orders) = m
      BY <1>1, <1>2, LastOfAppended DEF m
    <3>4. d.orders[Len(d.orders)] = log[Len(log)]
      BY <1>9, <3>1, <3>2
    <3>5. Standing(d)
      BY <1>9, <2>1, <3>2, <3>3, <3>4 DEF Good, FilledStands
    <3> QED BY <1>10, <3>5 DEF Standing, Equity, Unrealized, UnrealizedOf
  <2> QED BY <1>1, <1>10, <1>13, <2>1, <2>2, <2>3, <2>4 DEF Good
<1> QED BY <1>11, <1>14 DEF u

\* A command that decides nothing.
LEMMA HeldIsGood == ASSUME NEW a, Held(a) PROVE Good(a, a)
<1>1. Len(a.orders) \in Nat
  BY OrdersAre DEF Held, Tidy
<1> QED BY <1>1 DEF Held, Good, Calm, FilledStands

LEMMA ReplayIsGood ==
  ASSUME NEW a, Held(a), NEW key
  PROVE  LET u == Replay(Started(a), key) IN u \in Transactions /\ Good(a, u.acc)
<1>1. Started(a) \in Transactions /\ Started(a).acc = a
  BY StartedIs DEF Held, Tidy
<1> QED BY <1>1, HeldIsGood, ReplayIs

\* What a command has written once its order is recorded: x, to be judged.
Recorded(a, x) ==
  /\ x \in Transactions /\ x.thrown = "nothing"
  /\ Tidy(x.acc) /\ Ordered(a.orders, x.acc)
  /\ x.acc.book.status = a.book.status
  /\ a.book.status # "breached" => NoneForced(x.acc)

LEMMA RecordedIs ==
  ASSUME NEW a, Held(a), NEW k \in 1..MaxKeys, ~Placed(a, <<k, 0>>),
         NEW kind \in {"open", "modify"}, NEW st \in {"filled", "rejected", "account_not_active"}
  PROVE  LET x == Record(Started(a), <<k, 0>>, kind, st)
         IN  /\ Recorded(a, x)
             /\ x.acc.book = a.book /\ x.acc.positions = a.positions
             /\ st # "filled" => Good(a, x.acc)
<1> DEFINE key == <<k, 0>>
           x == Record(Started(a), key, kind, st)
           row == OrderRow(Started(a), key, kind, st)
<1>1. /\ a \in Accounts /\ Started(a) \in Transactions /\ Started(a).acc = a
      /\ Started(a).version = a.version /\ Started(a).thrown = "nothing" /\ Tidy(a)
      /\ Ordered(a.orders, a) /\ Len(a.orders) \in Nat
  BY StartedIs, OrdersAre DEF Held, Tidy
<1>2. key \in Keys /\ key[1] # 0
  <2>1. 0 \in 0..MaxPositions
    BY TradingAssumption
  <2> QED BY <2>1, TraderKeys
<1>3. ~Placed(a, key)
  OBVIOUS
<1> HIDE DEF key
<1>4. row.key = key /\ row.kind = kind /\ row.st = st /\ row.seq = a.version + 1
  BY <1>1 DEF OrderRow
<1>5. /\ x \in Transactions /\ x.acc.book = a.book /\ x.acc.positions = a.positions
      /\ x.acc.orders = Append(a.orders, row) /\ x.acc.version = a.version + 1
      /\ x.thrown = "nothing"
  <2>1. kind \in OrderKinds /\ st \in OrderResults
    BY DEF OrderKinds, OrderResults
  <2> DEFINE t == Started(a)
  <2>2. t \in Transactions
    BY <1>1
  <2> HIDE DEF t
  <2>3. LET w == Record(t, key, kind, st)
        IN  /\ w \in Transactions
            /\ w.acc.book = t.acc.book /\ w.acc.positions = t.acc.positions
            /\ w.acc.orders = Append(t.acc.orders, OrderRow(t, key, kind, st))
            /\ w.version = t.version + 1 /\ w.acc.version = t.version + 1
            /\ w.status = t.status /\ w.breached = t.breached /\ w.thrown = t.thrown
    BY ONLY <1>2, <2>1, <2>2, RecordIs
  <2> QED BY <1>1, <2>3 DEF t
<1> HIDE DEF x, row
<1>6. x.acc \in Accounts
  BY <1>5 DEF Transactions
<1>7. Ordered(a.orders, x.acc)
  <2>1. row.kind # "close_all"
    BY <1>4
  <2> QED BY <1>1, <1>3, <1>4, <1>5, <2>1, OrderedAppends
<1>8. Tidy(x.acc)
  <2>1. Closes(a, x.acc)
    BY <1>1, <1>5, ClosesReflexive
  <2> QED BY <1>1, <1>5, <1>6, <2>1, ClosesTidy DEF Tidy
<1>9. a.book.status # "breached" => NoneForced(x.acc)
  BY <1>1, <1>2, <1>4, <1>5, NoneForcedAppends DEF Held
<1>10. Recorded(a, x)
  BY <1>5, <1>7, <1>8, <1>9 DEF Recorded
<1>11. st # "filled" => Good(a, x.acc)
  <2>1. st # "filled" => FilledStands(a.orders, x.acc)
    BY <1>1, <1>4, <1>5, LastOfAppended DEF FilledStands
  <2> QED BY <1>5, <1>7, <1>8, <1>9, <2>1 DEF Good, Calm
<1> QED BY <1>5, <1>10, <1>11 DEF x, key

\* The evaluation and the tail of a filled command.
LEMMA JudgedIs ==
  ASSUME quotes \in Quotes, today \in Days, NEW a, Held(a), NEW x, Recorded(a, x)
  PROVE  LET u == Settle(Evaluate(x))
         IN  u \in Transactions /\ (u.thrown = "nothing" => Good(a, u.acc))
<1> DEFINE v == Evaluate(x)
           u == Settle(v)
<1>1. /\ x \in Transactions /\ x.thrown = "nothing" /\ x.acc \in Accounts
      /\ Tidy(x.acc) /\ RowsUpTo(x.acc.book, today) /\ Ordered(a.orders, x.acc)
      /\ a \in Accounts /\ Len(a.orders) \in Nat
  BY OrdersAre DEF Recorded, Tidy, Held
<1>2. /\ v \in Transactions
      /\ v.acc.positions = x.acc.positions /\ v.acc.orders = x.acc.orders
      /\ v.acc.version = x.acc.version /\ v.acc.book.bal = x.acc.book.bal
      /\ x.acc.book.status = "breached" => v.acc.book.status = "breached"
      /\ v.thrown = "nothing" =>
           (v.breached <=> x.acc.book.status # "breached" /\ v.acc.book.status = "breached")
      /\ RowsUpTo(v.acc.book, today)
      /\ v.thrown = "nothing" /\ v.acc.book.status # "breached"
           => Equity(v.acc) > FloorInForce(v.acc.book)
  BY <1>1, EvaluateIs
<1> HIDE DEF v
<1>3. v.acc \in Accounts /\ Tidy(v.acc)
  <2>1. v.acc \in Accounts
    BY <1>2 DEF Transactions
  <2>2. Closes(x.acc, v.acc)
    BY <1>1, <1>2, ClosesReflexive
  <2> QED BY <1>1, <1>2, <2>1, <2>2, ClosesTidy
<1>4. Ordered(a.orders, v.acc)
  BY <1>1, <1>2 DEF Ordered
<1>5. v.thrown = "nothing" /\ v.breached => v.acc.book.status = "breached"
  BY <1>2
<1>6. Len(v.acc.positions) <= MaxPositions
  BY <1>3 DEF Tidy
<1>7. /\ Goes(v, u)
      /\ Ordered(a.orders, u.acc)
      /\ u.thrown = "nothing" => v.thrown = "nothing"
      /\ u.thrown = "nothing" /\ ~v.breached => u = v
      /\ u.thrown = "nothing" /\ v.breached =>
           /\ u.acc.book.status = "breached"
           /\ NoneForced(v.acc) => AllStale(u.acc)
  BY <1>1, <1>2, <1>4, <1>5, <1>6, SettleIs
<1> HIDE DEF u
<1>8. /\ u \in Transactions /\ u.acc \in Accounts /\ Closes(v.acc, u.acc) /\ RowsUpTo(u.acc.book, today)
      /\ v.acc.book.status = "breached" => u.acc.book.status = "breached"
  BY <1>2, <1>7 DEF Goes, Transactions
<1>9. Tidy(u.acc)
  BY <1>3, <1>8, ClosesTidy
<1>10. ASSUME u.thrown = "nothing" PROVE Good(a, u.acc)
  <2>1. a.book.status # "breached" => NoneForced(v.acc)
    BY <1>2 DEF Recorded, NoneForced
  <2>2. x.acc.book.status = a.book.status
    BY DEF Recorded
  <2>3. CASE v.breached
    <3>1. u.acc.book.status = "breached" /\ a.book.status # "breached" /\ AllStale(u.acc)
      BY <1>2, <1>7, <1>10, <2>1, <2>2, <2>3
    <3> QED BY <1>7, <1>9, <3>1 DEF Good, Calm, FilledStands, Standing
  <2>4. CASE ~v.breached
    <3>1. u = v /\ v.thrown = "nothing"
      BY <1>7, <1>10, <2>4
    <3>2. a.book.status # "breached" => Calm(v.acc)
      BY <1>2, <2>1, <2>2, <2>4, <3>1 DEF Calm
    <3>3. Standing(v.acc)
      BY <1>2, <3>1 DEF Standing
    <3>4. a.book.status = "breached" => v.acc.book.status = "breached"
      BY <1>2, <2>2
    <3> QED BY <1>3, <1>4, <3>1, <3>2, <3>3, <3>4 DEF Good, FilledStands
  <2> QED BY <2>3, <2>4
<1>11. u = Settle(Evaluate(x))
  BY DEF u, v
<1> QED BY <1>8, <1>10, <1>11

\* b is the account with one position more and its commission paid.
Opens(a, symbol, lots, row, b) ==
  /\ row = [symbol |-> symbol, opened |-> lots, open |-> lots,
            entry |-> quotes[symbol].price, pnl |-> 0]
  /\ b = [a EXCEPT !.positions = Append(a.positions, row),
                   !.book = Post(a.book, today, -Commission * lots)]

LEMMA AppendsTidy ==
  ASSUME quotes \in Quotes, today \in Days, NEW a, Tidy(a), Len(a.positions) < MaxPositions,
         NEW symbol \in Symbols, NEW lots \in Lots, WithinExposureLimit(a, symbol, lots),
         NEW row, NEW b, Opens(a, symbol, lots, row, b)
  PROVE  /\ Tidy(b) /\ b.orders = a.orders /\ b.version = a.version
         /\ b.book.status = a.book.status
<1> DEFINE n == Len(a.positions)
           longer == Append(a.positions, row)
           paid == -Commission * lots
           book == Post(a.book, today, paid)
<1>1. /\ a \in Accounts /\ a.book \in Books /\ a.positions \in Seq(Positions) /\ n \in Nat
      /\ DOMAIN a.positions = 1..n /\ RowsUpTo(a.book, today)
      /\ a.positions \in [1..n -> Positions]
  BY AccountIs DEF Tidy
<1>2. lots \in Nat /\ paid \in Int /\ Commission \in Nat /\ ExposureLimit \in Nat
  BY TradingAssumption
<1>3. /\ row \in Positions /\ row.symbol = symbol /\ row.open = lots /\ row.opened = lots /\ row.pnl = 0
  <2>1. quotes[symbol].price \in Prices
    BY DEF Quotes
  <2> QED BY <1>2, <2>1, TradingAssumption DEF Positions, Opens
<1>4. /\ longer \in Seq(Positions) /\ Len(longer) = n + 1 /\ longer[n + 1] = row
      /\ \A p \in 1..n : longer[p] = a.positions[p]
  BY <1>1, <1>3
<1>5. /\ book \in Books /\ book.rows = a.book.rows /\ book.status = a.book.status
      /\ Balance(book) = Balance(a.book) + paid
  <2> HIDE DEF paid
  <2> QED BY <1>1, <1>2, PostIs
<1> HIDE DEF longer, book
<1>6. /\ b \in Accounts /\ b.positions = longer /\ b.book = book
      /\ b.orders = a.orders /\ b.version = a.version
  <2>1. b = [a EXCEPT !.positions = longer, !.book = book]
    BY DEF longer, book, Opens
  <2> QED BY <1>1, <1>4, <1>5, <2>1 DEF Accounts
<1>7. Matches(b)
  <2> DEFINE f == Results(a)
             h == Results(b)
  <2>1. /\ f \in Seq(Int) /\ h \in Seq(Int) /\ Len(f) = n /\ Len(h) = Len(f) + 1
    BY <1>1, <1>4, <1>6, ResultsType
  <2>2. \A p \in 1..Len(f) : h[p] = f[p]
    <3> SUFFICES ASSUME NEW p \in 1..n PROVE h[p] = f[p]
      BY <2>1
    <3>1. p \in DOMAIN a.positions /\ p \in DOMAIN b.positions
      BY <1>1, <1>4, <1>6, AccountIs
    <3>2. f[p] = a.positions[p].pnl - Commission * (2 * a.positions[p].opened - a.positions[p].open)
      BY <1>1, <3>1, ResultsType
    <3>3. h[p] = b.positions[p].pnl - Commission * (2 * b.positions[p].opened - b.positions[p].open)
      BY <1>6, <3>1, ResultsType
    <3>4. b.positions[p] = a.positions[p]
      BY <1>4, <1>6
    <3> HIDE DEF f, h
    <3> QED BY <3>2, <3>3, <3>4
  <2>3. h[n + 1] = row.pnl - Commission * (2 * row.opened - row.open)
    <3>1. n + 1 \in DOMAIN b.positions
      BY <1>1, <1>4, <1>6, AccountIs
    <3> QED BY <1>4, <1>6, <3>1, ResultsType
  <2>4. h[n + 1] = paid
    <3>1. 2 * lots - lots = lots /\ Commission * lots \in Int
      BY <1>2
    <3> QED BY <1>2, <1>3, <2>3, <3>1
  <2> HIDE DEF f, h
  <2>5. Total(h) = Total(f) + h[Len(h)]
    BY <2>1, <2>2, TotalAppends
  <2>6. Total(f) \in Int /\ Nominal \in Int /\ Balance(a.book) \in Int
    BY <1>1, <2>1, TotalIsInt, RulesAssumption, BalanceType
  <2>7. Total(h) = Total(f) + paid
    BY <2>1, <2>4, <2>5
  <2>8. Balance(a.book) = Nominal + Total(f)
    BY DEF Tidy, Matches, f
  <2>9. Balance(b.book) = Nominal + Total(h)
    BY <1>2, <1>5, <1>6, <2>6, <2>7, <2>8
  <2> QED BY <2>9 DEF Matches, h
<1>8. ASSUME NEW s \in Symbols PROVE BucketLots(b, s) <= ExposureLimit
  <2> DEFINE symbols == {x \in Symbols : Bucket[x] = Bucket[s]}
             f == LotsIn(a, symbols)
             h == LotsIn(b, symbols)
  <2>1. /\ f \in Seq(Int) /\ h \in Seq(Int) /\ Len(f) = n /\ Len(h) = Len(f) + 1
    BY <1>1, <1>4, <1>6, LotsInType
  <2>2. \A p \in 1..Len(f) : h[p] = f[p]
    <3> SUFFICES ASSUME NEW p \in 1..n PROVE h[p] = f[p]
      BY <2>1
    <3>1. p \in 1..Len(a.positions) /\ p \in 1..Len(b.positions) /\ b.positions[p] = a.positions[p]
      BY <1>1, <1>4, <1>6
    <3>2. f[p] = IF a.positions[p].symbol \in symbols THEN a.positions[p].open ELSE 0
      BY <1>1, <3>1, LotsInType
    <3>3. h[p] = IF b.positions[p].symbol \in symbols THEN b.positions[p].open ELSE 0
      <4>1. b \in Accounts /\ p \in 1..Len(b.positions)
        BY <1>6, <3>1
      <4> HIDE DEF symbols
      <4> QED BY ONLY <4>1, LotsInType
    <3> HIDE DEF f, h, symbols
    <3> QED BY <3>1, <3>2, <3>3
  <2>3. h[Len(h)] = IF symbol \in symbols THEN lots ELSE 0
    <3>1. n + 1 \in 1..Len(b.positions) /\ b.positions[n + 1] = row /\ Len(h) = n + 1
      BY <1>1, <1>4, <1>6, <2>1
    <3>2. h[n + 1] = IF b.positions[n + 1].symbol \in symbols THEN b.positions[n + 1].open ELSE 0
      <4>1. b \in Accounts /\ n + 1 \in 1..Len(b.positions)
        BY <1>6, <3>1
      <4> HIDE DEF symbols
      <4> QED BY ONLY <4>1, LotsInType
    <3> HIDE DEF h, symbols
    <3> QED BY <1>3, <3>1, <3>2
  <2>4. BucketLots(a, s) = Total(f) /\ BucketLots(b, s) = Total(h)
    BY DEF BucketLots, OpenLots, LotsIn
  <2>5. symbol \in symbols => BucketLots(a, s) + lots <= ExposureLimit
    <3>1. symbol \in symbols => symbols = {x \in Symbols : Bucket[x] = Bucket[symbol]}
      OBVIOUS
    <3>2. symbol \in symbols => BucketLots(a, s) = BucketLots(a, symbol)
      BY <3>1 DEF BucketLots
    <3> QED BY <3>2 DEF WithinExposureLimit
  <2> HIDE DEF f, h, symbols
  <2>6. Total(h) = Total(f) + h[Len(h)]
    BY <2>1, <2>2, TotalAppends
  <2>7. BucketLots(a, s) <= ExposureLimit /\ Total(f) \in Int
    BY <2>1, TotalIsInt DEF Tidy
  <2> QED BY <1>2, <2>3, <2>4, <2>5, <2>6, <2>7
<1>9. RowsUpTo(b.book, today)
  BY <1>1, <1>5, <1>6 DEF RowsUpTo
<1>10. Len(b.positions) <= MaxPositions
  BY <1>1, <1>4, <1>6, TradingAssumption
<1> QED BY <1>5, <1>6, <1>7, <1>8, <1>9, <1>10 DEF Tidy

\* openPosition once it fills.
LEMMA OpenedIs ==
  ASSUME quotes \in Quotes, today \in Days, NEW a, Held(a), NEW k \in 1..MaxKeys,
         ~Placed(a, <<k, 0>>), Len(a.positions) < MaxPositions,
         NEW symbol \in Symbols, NEW lots \in Lots, WithinExposureLimit(a, symbol, lots)
  PROVE  LET filled == Record(Started(a), <<k, 0>>, "open", "filled")
             opened == [symbol |-> symbol, opened |-> lots, open |-> lots,
                        entry |-> quotes[symbol].price, pnl |-> 0]
         IN  Recorded(a, [filled EXCEPT !.acc.positions = Append(a.positions, opened),
                                        !.acc.book = Post(a.book, today, -Commission * lots)])
<1> DEFINE filled == Record(Started(a), <<k, 0>>, "open", "filled")
           opened == [symbol |-> symbol, opened |-> lots, open |-> lots,
                      entry |-> quotes[symbol].price, pnl |-> 0]
           longer == Append(a.positions, opened)
           book == Post(a.book, today, -Commission * lots)
           b == [filled.acc EXCEPT !.positions = longer, !.book = book]
           x == [filled EXCEPT !.acc.positions = longer, !.acc.book = book]
<1>1. /\ Recorded(a, filled)
      /\ filled.acc.book = a.book /\ filled.acc.positions = a.positions
  BY RecordedIs
<1> HIDE DEF filled
<1>2. filled \in Transactions /\ filled.acc \in Accounts
  BY <1>1 DEF Recorded, Transactions
<1>3. x = [filled EXCEPT !.acc = b]
  <2> HIDE DEF longer, book
  <2> QED BY <1>2 DEF Transactions, Accounts
<1>4. /\ Tidy(b) /\ b.orders = filled.acc.orders /\ b.version = filled.acc.version
      /\ b.book.status = filled.acc.book.status
  <2> DEFINE c == filled.acc
  <2>1. Tidy(c) /\ Len(c.positions) < MaxPositions
    BY <1>1 DEF Recorded
  <2>2. WithinExposureLimit(c, symbol, lots)
    BY <1>1 DEF WithinExposureLimit, BucketLots, OpenLots
  <2>3. Opens(c, symbol, lots, opened, b)
    BY <1>1 DEF Opens
  <2> HIDE DEF b, c, opened
  <2>5. Tidy(b) /\ b.orders = c.orders /\ b.version = c.version /\ b.book.status = c.book.status
    BY <2>1, <2>2, <2>3, AppendsTidy
  <2> QED BY <2>5 DEF c
<1> HIDE DEF b, x
<1>5. b \in Accounts
  BY <1>4 DEF Tidy
<1>6. x \in Transactions /\ x.acc = b /\ x.thrown = filled.thrown
  BY <1>2, <1>3, <1>5 DEF Transactions
<1>7. Recorded(a, x)
  BY <1>1, <1>4, <1>6 DEF Recorded, Ordered, NoneForced
<1> QED BY <1>7 DEF x, filled, longer, book, opened

-----------------------------------------------------------------------------
(* The inductive invariant.                                                *)

IInv == TypeOK /\ Held(acc)

LEMMA TotalOfEmpty == ASSUME NEW f \in Seq(Int), Len(f) = 0 PROVE Total(f) = 0
BY TotalSums

LEMMA ActivatedIs ==
  /\ Activated \in Books /\ Activated.status = "active"
  /\ RowsUpTo(Activated, 0) /\ Balance(Activated) = Nominal
<1>1. NoRow \in Rows /\ NoRow.st = "none"
  BY DEF NoRow, Rows
<1>2. Nominal \in Int /\ "active" \in Statuses
  BY RulesAssumption DEF Statuses
<1>3. Activated \in Books
  BY <1>1, <1>2 DEF Activated, Books
<1>4. 0 \in Days /\ MaxDay \in Days
  BY DayAssumption, SMT DEF Days
<1>5. Activated.status = "active" /\ Activated.rows = [d \in Days |-> NoRow]
      /\ Activated.bal = [d \in Days |-> Nominal]
  BY DEF Activated
<1>6. RowsUpTo(Activated, 0)
  BY <1>1, <1>4, <1>5 DEF RowsUpTo
<1>7. Balance(Activated) = Nominal
  BY <1>4, <1>5 DEF Balance
<1> QED BY <1>3, <1>5, <1>6, <1>7

LEMMA NoneTaken == ASSUME NEW log PROVE Taken(log, 0) = 0
<1>1. \A Q : Decided!Cardinality(Q) = Cardinality(Q)
  BY Zenon DEF Decided!Cardinality, Cardinality, Decided!IsFiniteSet, IsFiniteSet
<1>2. {i \in 1..0 : log[i].kind # "close_all"} = {}
  OBVIOUS
<1>3. Cardinality({}) = 0
  BY FS_EmptySet
<1> QED BY <1>1, <1>2, <1>3 DEF Taken, Decided!Taken

LEMMA InitIs == Init => IInv
<1> SUFFICES ASSUME Init PROVE IInv
  OBVIOUS
<1>1. /\ acc = [book |-> Activated, version |-> 0, positions |-> <<>>, orders |-> <<>>]
      /\ quotes \in Quotes /\ today = 0 /\ outcome = "committed"
  BY DEF Init, Quotes
<1>2. acc \in Accounts
  BY <1>1, ActivatedIs DEF Accounts
<1>3. /\ acc.book = Activated /\ acc.version = 0 /\ Len(acc.positions) = 0
      /\ acc.orders = <<>> /\ Len(acc.orders) = 0 /\ DOMAIN acc.orders = {}
  BY <1>1
<1>4. TypeOK
  BY <1>1, <1>2, DayAssumption, SMT DEF TypeOK, Days
<1>5. Matches(acc)
  <2>1. Total(Results(acc)) = 0
    BY <1>2, <1>3, ResultsType, TotalOfEmpty
  <2> QED BY <1>3, <2>1, ActivatedIs, RulesAssumption DEF Matches
<1>6. ASSUME NEW s \in Symbols PROVE BucketLots(acc, s) <= ExposureLimit
  <2> DEFINE symbols == {x \in Symbols : Bucket[x] = Bucket[s]}
  <2>1. Total(LotsIn(acc, symbols)) = 0
    <3> HIDE DEF symbols
    <3> QED BY <1>2, <1>3, LotsInType, TotalOfEmpty
  <2>2. BucketLots(acc, s) = 0
    BY <2>1 DEF BucketLots, OpenLots, LotsIn
  <2> QED BY <2>2, TradingAssumption
<1>7. Tidy(acc)
  BY <1>1, <1>2, <1>3, <1>5, <1>6, ActivatedIs, TradingAssumption DEF Tidy
<1>8. Ordered(acc.orders, acc)
  BY <1>3, NoneTaken DEF Ordered, Distinct, Decided!Distinct
<1>9. NoneForced(acc)
  BY <1>3 DEF NoneForced
<1> QED BY <1>4, <1>7, <1>8, <1>9 DEF IInv, Held

\* A command: the transaction u that it runs commits what is good, or nothing.
Runs(u) ==
  /\ u \in Transactions /\ (u.thrown = "nothing" => Good(acc, u.acc))
  /\ Ends(u)

LEMMA OpenRuns ==
  ASSUME IInv, NEW k \in 1..MaxKeys, NEW symbol \in Symbols, NEW lots \in Lots,
         NEW gated \in BOOLEAN, OpenPosition(k, symbol, lots, gated)
  PROVE  \E u : Runs(u)
<1> DEFINE t == Started(acc)
           key == <<k, 0>>
           st == IF OpeningStatus(t.status) THEN "rejected" ELSE "account_not_active"
           refused == Record(t, key, "open", st)
           filled == Record(t, key, "open", "filled")
           opened == [symbol |-> symbol, opened |-> lots, open |-> lots,
                      entry |-> quotes[symbol].price, pnl |-> 0]
           x == [filled EXCEPT !.acc.positions = Append(acc.positions, opened),
                               !.acc.book = Post(acc.book, today, -Commission * lots)]
           allowed == /\ OpeningStatus(t.status) /\ ~gated /\ ~quotes[symbol].stale
                      /\ WithinExposureLimit(acc, symbol, lots)
<1>1. Held(acc) /\ quotes \in Quotes /\ today \in Days
  BY DEF IInv, TypeOK
<1>2. CASE Placed(acc, key)
  <2>1. Ends(Replay(t, key))
    BY <1>2 DEF OpenPosition
  <2>2. Replay(t, key) \in Transactions /\ Good(acc, Replay(t, key).acc)
    BY <1>1, ReplayIsGood
  <2> HIDE DEF t, key
  <2> QED BY <2>1, <2>2 DEF Runs
<1>3. CASE ~Placed(acc, key) /\ ~allowed
  <2>1. Ends(refused)
    BY <1>3 DEF OpenPosition
  <2>2. st \in {"filled", "rejected", "account_not_active"} /\ st # "filled"
    OBVIOUS
  <2> HIDE DEF st
  <2>3. Recorded(acc, refused) /\ Good(acc, refused.acc)
    <3>1. LET r == Record(Started(acc), <<k, 0>>, "open", st)
          IN  /\ Recorded(acc, r)
              /\ r.acc.book = acc.book /\ r.acc.positions = acc.positions
              /\ st # "filled" => Good(acc, r.acc)
      BY <1>1, <1>3, <2>2, RecordedIs
    <3> QED BY <2>2, <3>1
  <2> HIDE DEF refused
  <2> QED BY <2>1, <2>3 DEF Runs, Recorded
<1>4. CASE ~Placed(acc, key) /\ allowed
  <2>1. Ends(Settle(Evaluate(x))) /\ Len(acc.positions) < MaxPositions
    BY <1>4 DEF OpenPosition
  <2>2. Recorded(acc, x)
    BY <1>1, <1>4, <2>1, OpenedIs
  <2> HIDE DEF x
  <2>3. LET u == Settle(Evaluate(x))
        IN  u \in Transactions /\ (u.thrown = "nothing" => Good(acc, u.acc))
    BY <1>1, <2>2, JudgedIs
  <2> QED BY <2>1, <2>3 DEF Runs
<1> QED BY <1>2, <1>3, <1>4

LEMMA CloseRuns ==
  ASSUME IInv, NEW k \in 1..MaxKeys, NEW p, NEW lots \in Nat, ClosePosition(k, p, lots)
  PROVE  \E u : Runs(u)
<1> DEFINE u == ClosePositionLocked(Started(acc), <<k, 0>>, p, lots)
<1>1. Held(acc) /\ quotes \in Quotes /\ today \in Days
  BY DEF IInv, TypeOK
<1>2. u \in Transactions /\ (u.thrown = "nothing" => Good(acc, u.acc))
  BY <1>1, ClosePositionIs
<1>3. Ends(u)
  BY DEF ClosePosition
<1> HIDE DEF u
<1> QED BY <1>2, <1>3 DEF Runs

LEMMA CloseAllRuns ==
  ASSUME IInv, NEW k \in 1..MaxKeys, CloseAllPositions(k)
  PROVE  \E u : Runs(u)
<1>1. Held(acc) /\ quotes \in Quotes /\ today \in Days
  BY DEF IInv, TypeOK
<1>2. CASE Placed(acc, <<k, 0>>)
  <2> DEFINE u == Started(acc)
  <2>1. Ends(u)
    BY <1>2 DEF CloseAllPositions
  <2>2. u \in Transactions /\ u.acc = acc
    BY <1>1, StartedIs DEF Held, Tidy
  <2> HIDE DEF u
  <2> QED BY <1>1, <2>1, <2>2, HeldIsGood DEF Runs
<1>3. CASE ~Placed(acc, <<k, 0>>)
  <2> DEFINE u == CloseAllOf(acc, k)
  <2>1. Ends(u)
    BY <1>3 DEF CloseAllPositions
  <2>2. u \in Transactions /\ (u.thrown = "nothing" => Good(acc, u.acc))
    BY <1>1, <1>3, CloseAllIs
  <2> HIDE DEF u
  <2> QED BY <2>1, <2>2 DEF Runs
<1> QED BY <1>2, <1>3

LEMMA ModifyRuns ==
  ASSUME IInv, NEW k \in 1..MaxKeys, NEW p, ModifyPositionRisk(k, p)
  PROVE  \E u : Runs(u)
<1> DEFINE t == Started(acc)
           key == <<k, 0>>
           st == RejectedAs(t, p, {"active", "soft_locked"})
           refused == Record(t, key, "modify", st)
           filled == Record(t, key, "modify", "filled")
           allowed == /\ p \in OpenPositions(acc)
                      /\ t.status \in {"active", "soft_locked"}
                      /\ ~quotes[acc.positions[p].symbol].stale
<1>1. Held(acc) /\ quotes \in Quotes /\ today \in Days
  BY DEF IInv, TypeOK
<1>2. CASE Placed(acc, key)
  <2>1. Ends(Replay(t, key))
    BY <1>2 DEF ModifyPositionRisk
  <2>2. Replay(t, key) \in Transactions /\ Good(acc, Replay(t, key).acc)
    BY <1>1, ReplayIsGood
  <2> HIDE DEF t, key
  <2> QED BY <2>1, <2>2 DEF Runs
<1>3. CASE ~Placed(acc, key) /\ ~allowed
  <2>1. Ends(refused)
    BY <1>3 DEF ModifyPositionRisk
  <2>2. st \in {"filled", "rejected", "account_not_active"} /\ st # "filled"
    BY DEF RejectedAs
  <2> HIDE DEF st
  <2>3. Recorded(acc, refused) /\ Good(acc, refused.acc)
    <3>1. LET r == Record(Started(acc), <<k, 0>>, "modify", st)
          IN  /\ Recorded(acc, r)
              /\ r.acc.book = acc.book /\ r.acc.positions = acc.positions
              /\ st # "filled" => Good(acc, r.acc)
      BY <1>1, <1>3, <2>2, RecordedIs
    <3> QED BY <2>2, <3>1
  <2> HIDE DEF refused
  <2> QED BY <2>1, <2>3 DEF Runs, Recorded
<1>4. CASE ~Placed(acc, key) /\ allowed
  <2>1. Ends(Settle(Evaluate(filled)))
    BY <1>4 DEF ModifyPositionRisk
  <2>2. Recorded(acc, filled)
    <3>1. LET r == Record(Started(acc), <<k, 0>>, "modify", "filled")
          IN  /\ Recorded(acc, r)
              /\ r.acc.book = acc.book /\ r.acc.positions = acc.positions
              /\ "filled" # "filled" => Good(acc, r.acc)
      BY <1>1, <1>4, RecordedIs
    <3> QED BY <3>1
  <2> HIDE DEF filled
  <2>3. LET u == Settle(Evaluate(filled))
        IN  u \in Transactions /\ (u.thrown = "nothing" => Good(acc, u.acc))
    BY <1>1, <2>2, JudgedIs
  <2> QED BY <2>1, <2>3 DEF Runs
<1> QED BY <1>2, <1>3, <1>4

\* A step keeps the day's account good, whether a command ran or not.
LEMMA StepIsGood ==
  ASSUME IInv, [Next]_vars
  PROVE  /\ Good(acc, acc')
         /\ acc' = acc \/ (quotes' = quotes /\ today' = today)
         /\ quotes' \in Quotes /\ today' \in Days
         /\ today' = today \/ today' = today + 1
         /\ outcome' \in {"committed", "version_conflict", "invalid_transition", "no_fill"}
<1>1. /\ Held(acc) /\ quotes \in Quotes /\ today \in Days
      /\ outcome \in {"committed", "version_conflict", "invalid_transition", "no_fill"}
      /\ Good(acc, acc) /\ MaxKeys \in Nat
  BY HeldIsGood, TradingAssumption DEF IInv, TypeOK
<1>2. CASE \E u : Runs(u)
  <2>1. PICK u : Runs(u)
    BY <1>2
  <2>2. /\ acc' = IF u.thrown = "nothing" THEN u.acc ELSE acc
        /\ outcome' = IF u.thrown = "nothing" THEN "committed" ELSE u.thrown
        /\ quotes' = quotes /\ today' = today
        /\ u.thrown = "nothing" => Good(acc, u.acc)
        /\ u.thrown \in Errors
    BY <2>1 DEF Runs, Ends, Transactions
  <2>3. Good(acc, acc')
    BY <1>1, <2>2
  <2> QED BY <1>1, <2>2, <2>3 DEF Errors
<1>3. CASE Open
  <2>1. PICK k \in 1..MaxKeys, s \in Symbols, lots \in Lots, gated \in BOOLEAN :
          OpenPosition(k, s, lots, gated)
    BY <1>3 DEF Open, ClientKeys
  <2> QED BY <1>2, <2>1, OpenRuns
<1>4. CASE Close
  <2>1. PICK k \in 1..MaxKeys, p \in DOMAIN acc.positions, lots \in {0} \cup Lots :
          ClosePosition(k, p, lots)
    BY <1>4 DEF Close, ClientKeys
  <2>2. lots \in Nat
    BY TradingAssumption
  <2> QED BY <1>2, <2>1, <2>2, CloseRuns
<1>5. CASE CloseAll
  <2>1. PICK k \in 1..MaxKeys : CloseAllPositions(k)
    BY <1>5 DEF CloseAll, ClientKeys
  <2> QED BY <1>2, <2>1, CloseAllRuns
<1>6. CASE Modify
  <2>1. PICK k \in 1..MaxKeys, p \in DOMAIN acc.positions : ModifyPositionRisk(k, p)
    BY <1>6 DEF Modify, ClientKeys
  <2> QED BY <1>2, <2>1, ModifyRuns
<1>7. CASE Quote
  <2>1. PICK s \in Symbols, price \in Prices, stale \in BOOLEAN : Tick(s, price, stale)
    BY <1>7 DEF Quote
  <2>2. quotes' = [quotes EXCEPT ![s] = [price |-> price, stale |-> stale]]
        /\ acc' = acc /\ today' = today /\ outcome' = outcome
    BY <2>1 DEF Tick
  <2>3. quotes' \in Quotes
    BY <1>1, <2>2 DEF Quotes
  <2> QED BY <1>1, <2>2, <2>3
<1>8. CASE Midnight
  <2>1. today < MaxDay /\ today' = today + 1 /\ acc' = acc /\ quotes' = quotes /\ outcome' = outcome
    BY <1>8 DEF Midnight
  <2>2. today' \in Days
    BY <1>1, <2>1, DayAssumption, SMT DEF Days
  <2> QED BY <1>1, <2>1, <2>2
<1>9. CASE UNCHANGED vars
  BY <1>1, <1>9 DEF vars
<1> QED BY <1>3, <1>4, <1>5, <1>6, <1>7, <1>8, <1>9 DEF Next

LEMMA StepIs == IInv /\ [Next]_vars => IInv'
<1> SUFFICES ASSUME IInv, [Next]_vars PROVE IInv'
  OBVIOUS
<1> DEFINE b == acc'
<1>1. /\ Good(acc, b) /\ quotes' \in Quotes /\ today' \in Days
      /\ b = acc \/ (quotes' = quotes /\ today' = today)
      /\ today' = today \/ today' = today + 1
      /\ outcome' \in {"committed", "version_conflict", "invalid_transition", "no_fill"}
  BY StepIsGood
<1> HIDE DEF b
<1>2. /\ b \in Accounts /\ Len(b.positions) <= MaxPositions /\ Matches(b)
      /\ \A s \in Symbols : BucketLots(b, s) <= ExposureLimit
      /\ RowsUpTo(b.book, today)
      /\ Ordered(acc.orders, b)
      /\ today \in Days /\ acc \in Accounts
  BY <1>1 DEF Good, Tidy, IInv, TypeOK
<1>3. Ordered(b.orders, b)
  BY <1>2, OrderedAlone
<1>4. b.book.status # "breached" => NoneForced(b)
  BY <1>1 DEF Good, Calm
<1>5. RowsUpTo(b.book, today')
  <2>1. CASE today' = today
    BY <1>2, <2>1
  <2>2. CASE today' = today + 1
    <3>1. today \in Int /\ \A d \in Days : d \in Int
      BY <1>2, DaysType
    <3> QED BY <1>1, <1>2, <2>2, <3>1 DEF RowsUpTo
  <2> QED BY <1>1, <2>1, <2>2
<1>6. TypeOK'
  BY <1>1, <1>2 DEF TypeOK, b
<1>7. Held(acc)'
  BY <1>2, <1>3, <1>4, <1>5 DEF Held, Tidy, b
<1> QED BY <1>6, <1>7 DEF IInv

\* The invariant of the trading commands, whatever the trader sends.
THEOREM Invariant == Spec => []IInv
BY InitIs, StepIs, PTL DEF Spec

\* The account's rows, orders and positions keep their shape.
THEOREM TypeInvariant == Spec => []TypeOK
<1>1. IInv => TypeOK
  BY DEF IInv
<1> QED BY <1>1, Invariant, PTL

\* The ledger's balance is the nominal balance, what the positions realized, less
\* the commission of every lot.
THEOREM LedgerHolds == Spec => []LedgerMatchesPositions
<1>1. IInv => LedgerMatchesPositions
  BY DEF IInv, Held, Tidy, Matches, Results, LedgerMatchesPositions
<1> QED BY <1>1, Invariant, PTL

\* However commands, retries and forced closes follow each other, the open lots
\* of a bucket stay within its limit.
THEOREM ExposureHolds == Spec => []ExposureStaysWithinLimit
<1>1. IInv => ExposureStaysWithinLimit
  BY DEF IInv, Held, Tidy, ExposureStaysWithinLimit
<1> QED BY <1>1, Invariant, PTL

\* A command that breaches the account leaves open only what no fresh quote can
\* close.
THEOREM BreachHolds == Spec => BreachClosesWhatItCan
<1> DEFINE A == acc.book.status # "breached" /\ acc'.book.status = "breached" =>
                  \A p \in OpenPositions(acc') : quotes[acc'.positions[p].symbol].stale
<1>1. IInv /\ [Next]_vars => A
  <2> SUFFICES ASSUME IInv, [Next]_vars, acc.book.status # "breached", acc'.book.status = "breached",
                      NEW p \in OpenPositions(acc')
               PROVE  quotes[acc'.positions[p].symbol].stale
    OBVIOUS
  <2>1. Good(acc, acc')
    BY StepIsGood
  <2>2. AllStale(acc')
    BY <2>1 DEF Good, Calm
  <2>3. p \in DOMAIN acc'.positions /\ acc'.positions[p].open > 0
    BY DEF OpenPositions
  <2>4. Stale(acc', p) \/ acc'.positions[p].open = 0
    BY <2>2, <2>3 DEF AllStale
  <2> QED BY <2>3, <2>4 DEF Stale
<1> QED BY <1>1, Invariant, PTL DEF Spec, BreachClosesWhatItCan

\* A filled command leaves no live account on or under its floor: the order
\* filled last, if not the master of a Close All, was followed by an evaluation.
THEOREM FilledHolds == Spec => FilledCommandsLeaveNoBreach
<1> DEFINE A == /\ Len(acc'.orders) > Len(acc.orders)
                /\ acc'.orders[Len(acc'.orders)].st = "filled"
                /\ acc'.orders[Len(acc'.orders)].kind # "close_all"
                /\ Live(acc')
                => Equity(acc)' > FloorInForce(acc'.book)
<1>1. IInv /\ [Next]_vars => A
  <2> SUFFICES ASSUME IInv, [Next]_vars, Len(acc'.orders) > Len(acc.orders),
                      acc'.orders[Len(acc'.orders)].st = "filled",
                      acc'.orders[Len(acc'.orders)].kind # "close_all", Live(acc')
               PROVE  Equity(acc)' > FloorInForce(acc'.book)
    OBVIOUS
  <2>1. Good(acc, acc') /\ (acc' = acc \/ (quotes' = quotes /\ today' = today))
    BY StepIsGood
  <2>2. Len(acc.orders) \in Nat /\ acc' # acc
    BY OrdersAre DEF IInv, TypeOK
  <2>3. Standing(acc')
    BY <2>1 DEF Good, FilledStands
  <2>4. RowsUpTo(acc'.book, today) /\ acc'.book.status # "breached"
    BY <2>1 DEF Good, Tidy, Live
  <2>5. Equity(acc') > FloorInForce(acc'.book)
    BY <2>3, <2>4 DEF Standing
  <2>6. quotes' = quotes
    BY <2>1, <2>2
  <2>7. Equity(acc)' = Equity(acc')
    BY <2>6 DEF Equity, Unrealized, UnrealizedOf
  <2> QED BY <2>5, <2>7
<1> QED BY <1>1, Invariant, PTL DEF Spec, FilledCommandsLeaveNoBreach

\* Every command, retried or not, is a step of DecidedOrders: it decides nothing
\* twice, changes nothing decided, and takes the next versions without a gap.
THEOREM DecidedHolds == Spec => DecidedOnce
<1>1. Init => Decided!Init
  BY DEF Init, Decided!Init
<1>2. IInv /\ [Next]_vars => [Decided!Decide]_(Decided!vars)
  <2> SUFFICES ASSUME IInv, [Next]_vars PROVE [Decided!Decide]_(Decided!vars)
    OBVIOUS
  <2> DEFINE old == acc.orders
             new == acc'.orders
             version == acc.version
             next == acc'.version
  <2>1. Good(acc, acc')
    BY StepIsGood
  <2>2. acc \in Accounts /\ acc' \in Accounts /\ Ordered(old, acc')
    BY <2>1 DEF IInv, TypeOK, Good, Tidy
  <2>3. /\ old \in Seq(Orders) /\ Len(old) \in Nat /\ new \in Seq(Orders) /\ Len(new) \in Nat
    BY <2>2, OrdersAre
  <2>4. /\ Len(old) <= Len(new) /\ \A i \in 1..Len(old) : new[i] = old[i]
        /\ Distinct(new) /\ next = Taken(new, Len(new))
        /\ \A i \in (Len(old) + 1)..Len(new) : new[i].kind # "close_all" => new[i].seq = Taken(new, i)
    BY <2>2 DEF Ordered
  <2>5. version = Taken(old, Len(old))
    BY DEF IInv, Held, Ordered
  <2>6. CASE Len(new) = Len(old)
    <3>1. new = old
      <4> HIDE DEF new, old
      <4> QED BY <2>3, <2>4, <2>6
    <3>2. next = version
      BY <2>4, <2>5, <3>1
    <3> QED BY <3>1, <3>2 DEF Decided!vars
  <2>7. CASE Len(new) # Len(old)
    <3>1. Decided!IsStrictPrefix(old, new)
      <4> HIDE DEF new, old
      <4>1. SubSeq(old, 1, Len(old)) = SubSeq(new, 1, Len(old))
        BY <2>3, <2>4
      <4>2. Decided!IsPrefix(old, new)
        BY <2>4, <4>1 DEF Decided!IsPrefix
      <4> QED BY <2>7, <4>2 DEF Decided!IsStrictPrefix
    <3>2. Decided!Decide
      BY <2>4, <3>1 DEF Decided!Decide, Taken, Distinct
    <3> QED BY <3>2
  <2> QED BY <2>6, <2>7
<1> QED BY <1>1, <1>2, Invariant, PTL DEF Spec, DecidedOnce, Decided!Spec
=============================================================================
