----------------------------- MODULE WorkProofs -----------------------------
(* Proofs about deals and tasks: for any users, contacts, boards, alphabet,   *)
(* page size and bounds, and any number of requests in progress.              *)
EXTENDS Work, SequenceTheorems, FiniteSetTheorems, WellFoundedInduction, TLAPS

-----------------------------------------------------------------------------
(* What holds besides                                                         *)

(* The rows of stages are filled from the first on; whatever names a stage    *)
(* names one that was made.                                                   *)
Made(s) == stage[s].at # "no"
StagesInOrder == \A s, t \in Stages : s < t /\ Made(t) => Made(s)
DealsPlaced == \A d \in Deals : deal[d].at = "live" => Made(deal[d].stage)
JobPlaced(j) ==
  /\ j.k \in {"insert", "move", "save", "sync", "remove"} => Made(j.stage)
  /\ j.k = "remove" /\ j.to # 0 => Made(j.to) /\ j.to # j.stage

(* A move under way fits, as in RankFits. *)
MoveFits(j) ==
  j.k = "move" => /\ Less(j.lo, j.rank)
                  /\ j.hi # <<>> /\ Less(j.lo, j.hi) => Less(j.rank, j.hi)

(* A deal is where BoardAgrees wants it. *)
Agrees(d) ==
  deal[d].at = "live" /\ ~deal[d].odd =>
    LET s == stage[deal[d].stage] IN
    /\ \/ s.at = "live" /\ deal[d].status = StatusForStage(s.type)
       \/ pipe[s.pipe].at = "gone" /\ deal[d].status # "open"
       \/ \E i \in Slots : jobs[i].k = "sync" /\ jobs[i].stage = deal[d].stage
    /\ deal[d].status = "open" => ~deal[d].closed

BoardInv ==
  /\ StagesInOrder /\ DealsPlaced
  /\ \A i \in Slots : JobPlaced(jobs[i]) /\ MoveFits(jobs[i])
  /\ \A d \in Deals : Agrees(d)

(* A task's row by itself: its dates, its notices and its promise.  A notice  *)
(* that was sent is stamped, which is what keeps a second one back.           *)
TaskOK(row) ==
  /\ row.at = "live" /\ "status" \notin row.odd =>
       row.done = (row.status = "completed") /\ row.cancelled = (row.status = "cancelled")
  /\ \A k \in Kinds : row.told[k] = 0 \/ (row.told[k] = 1 /\ row.stamp[k])
  /\ \A k \in Kinds : row.at = "live" /\ row.status = "open" /\ row.when[k] = "later" /\ row.stamp[k]
                        => k \in row.odd

(* No task has a type that is gone or about to go. *)
Typed(row) ==
  row.at = "live" /\ "type" \notin row.odd =>
    /\ type[row.type].at = "live"
    /\ \A i \in Slots : jobs[i].k = "untype" => jobs[i].ty # row.type

TaskInv == \A t \in Tasks : TaskOK(task[t]) /\ Typed(task[t])

(* Someone is part of the way down a column: of the cards that stayed, the    *)
(* ones seen are those that are not below the cursor.                         *)
WalkOK ==
  \A k \in pager.kept :
    /\ k[1] \notin pager.twice
    /\ IF pager.on THEN k[1] \in pager.seen <=> ~Less(pager.after, k[2]) ELSE k[1] \in pager.seen

WorkIInv == TypeOK /\ BoardInv /\ TaskInv /\ WalkOK

-----------------------------------------------------------------------------
(* Numbers, finite sets and ranks                                             *)

LEMMA LeastNumber ==
  ASSUME NEW S, S \subseteq Nat, S # {}
  PROVE  \E x \in S : \A y \in S : x <= y
<1> DEFINE R == OpToRel(<, Nat)
<1>1. \E x \in S : \A y \in S : ~ (<<y, x>> \in R)
  <2> HIDE DEF R
  <2>1. IsWellFoundedOn(R, Nat)
    BY NatLessThanWellFounded DEF R
  <2> QED  BY <2>1, WFMin
<1>2. \A x, y \in Nat : <<y, x>> \in R <=> y < x
  BY DEF OpToRel
<1> HIDE DEF R
<1>3. PICK x \in S : \A y \in S : ~ (<<y, x>> \in R)
  BY <1>1
<1>4. ASSUME NEW y \in S  PROVE x <= y
  <2>1. x \in Nat /\ y \in Nat /\ ~ (y < x)
    BY <1>2, <1>3
  <2> QED  BY <2>1
<1> QED  BY <1>4

(* The order of ranks is strict and total. *)
LEMMA LessIrreflexive ==
  ASSUME NEW a \in Seq(Nat)  PROVE ~Less(a, a)
BY DEF Less

LEMMA LessTransitive ==
  ASSUME NEW a \in Seq(Nat), NEW b \in Seq(Nat), NEW c \in Seq(Nat), Less(a, b), Less(b, c)
  PROVE  Less(a, c)
<1>1. PICK i \in 1..Len(b) : /\ i <= Len(a) + 1 /\ \A j \in 1..(i - 1) : a[j] = b[j]
                             /\ i > Len(a) \/ a[i] < b[i]
  BY DEF Less
<1>2. PICK k \in 1..Len(c) : /\ k <= Len(b) + 1 /\ \A j \in 1..(k - 1) : b[j] = c[j]
                             /\ k > Len(b) \/ b[k] < c[k]
  BY DEF Less
<1>3. /\ \A j \in 1..Len(a) : a[j] \in Nat
      /\ \A j \in 1..Len(b) : b[j] \in Nat
      /\ \A j \in 1..Len(c) : c[j] \in Nat
      /\ Len(a) \in Nat /\ Len(b) \in Nat /\ Len(c) \in Nat
  OBVIOUS
<1>4. CASE i < k
  <2>1. i \in 1..Len(c) /\ b[i] = c[i] /\ \A j \in 1..(i - 1) : a[j] = c[j]
    BY <1>1, <1>2, <1>3, <1>4
  <2> QED  BY <1>1, <2>1 DEF Less
<1>5. CASE k <= i
  <2>1. \A j \in 1..(k - 1) : a[j] = c[j]
    BY <1>1, <1>2, <1>3, <1>5
  <2>2. k <= Len(a) + 1 /\ k <= Len(b) /\ b[k] < c[k]
    BY <1>1, <1>2, <1>3, <1>5
  <2>3. k > Len(a) \/ a[k] < c[k]
    <3>1. CASE k = i
      BY <1>1, <1>3, <2>2, <3>1
    <3>2. CASE k < i
      BY <1>1, <1>3, <2>2, <3>2
    <3> QED  BY <1>5, <3>1, <3>2
  <2> QED  BY <1>2, <2>1, <2>2, <2>3 DEF Less
<1> QED  BY <1>4, <1>5

LEMMA LessTotal ==
  ASSUME NEW a \in Seq(Nat), NEW b \in Seq(Nat), a # b
  PROVE  Less(a, b) \/ Less(b, a)
<1> DEFINE n == IF Len(a) < Len(b) THEN Len(a) ELSE Len(b)
           D == {i \in 1..n : a[i] # b[i]}
<1>1. /\ \A j \in 1..Len(a) : a[j] \in Nat
      /\ \A j \in 1..Len(b) : b[j] \in Nat
      /\ Len(a) \in Nat /\ Len(b) \in Nat
  OBVIOUS
<1>2. CASE D # {}
  <2>1. D \subseteq Nat
    BY <1>1
  <2>2. PICK x \in D : \A y \in D : x <= y
    <3> HIDE DEF D
    <3> QED  BY <1>2, <2>1, LeastNumber
  <2>3. x \in 1..Len(a) /\ x \in 1..Len(b) /\ a[x] # b[x]
    BY <1>1, <2>2
  <2>4. \A j \in 1..(x - 1) : a[j] = b[j]
    <3> SUFFICES ASSUME NEW j \in 1..(x - 1), a[j] # b[j]  PROVE FALSE
      OBVIOUS
    <3>1. j \in D
      BY <1>1, <2>2
    <3> QED  BY <2>2, <2>3, <3>1
  <2>5. a[x] < b[x] \/ b[x] < a[x]
    BY <1>1, <2>3
  <2> HIDE DEF D
  <2>6. x <= Len(a) + 1 /\ x <= Len(b) + 1 /\ \A j \in 1..(x - 1) : b[j] = a[j]
    BY <1>1, <2>3, <2>4
  <2>7. CASE a[x] < b[x]
    BY <2>3, <2>4, <2>6, <2>7 DEF Less
  <2>8. CASE b[x] < a[x]
    BY <2>3, <2>6, <2>8 DEF Less
  <2> QED  BY <2>5, <2>7, <2>8
<1>3. CASE D = {}
  <2>1. \A j \in 1..n : a[j] = b[j]
    BY <1>3
  <2>2. Len(a) # Len(b)
    <3> SUFFICES ASSUME Len(a) = Len(b)  PROVE FALSE
      OBVIOUS
    <3>1. \A j \in 1..Len(a) : a[j] = b[j]
      BY <2>1
    <3> HIDE DEF n, D
    <3> QED  BY <3>1, SeqEqual
  <2>3. CASE Len(a) < Len(b)
    <3>1. Len(a) + 1 \in 1..Len(b) /\ \A j \in 1..((Len(a) + 1) - 1) : a[j] = b[j]
      BY <1>1, <2>1, <2>3
    <3> QED  BY <1>1, <3>1 DEF Less
  <2>4. CASE Len(b) < Len(a)
    <3>1. Len(b) + 1 \in 1..Len(a) /\ \A j \in 1..((Len(b) + 1) - 1) : a[j] = b[j]
      BY <1>1, <2>1, <2>4
    <3> QED  BY <1>1, <3>1 DEF Less
  <2> QED  BY <1>1, <2>2, <2>3, <2>4
<1> QED  BY <1>2, <1>3

LEMMA RankTypes ==
  /\ Letters \subseteq Nat /\ Ranks \subseteq Seq(Nat) /\ Ranks \subseteq Seq(Letters) /\ <<>> \in Ranks
  /\ \A r \in Ranks : Len(r) \in Nat /\ \A i \in 1..Len(r) : r[i] \in Letters
BY WorkAssumption DEF Letters, Ranks

(* rankBetween: the rank it makes is above prev, and below next if prev is. *)
LEMMA RankIs ==
  ASSUME NEW prev \in Ranks, NEW nxt \in Ranks
  PROVE  LET r == RankBetween(prev, nxt) IN
         /\ r \in Ranks /\ Less(prev, r)
         /\ nxt # <<>> /\ Less(prev, nxt) => Less(r, nxt)
<1> DEFINE hi == IF nxt # <<>> /\ ~Less(prev, nxt) THEN <<>> ELSE nxt
           P(i) == IF i <= Len(prev) THEN prev[i] ELSE 0
           Parted(i) == \E j \in 1..(i - 1) : j > Len(hi) \/ P(j) < hi[j]
           N(i) == IF ~Parted(i) /\ i <= Len(hi) THEN hi[i] ELSE RankLast + 1
           K == Len(prev) + Len(hi) + 2
           Q(i) == P(i) + 1 < N(i) /\ \A j \in 1..(i - 1) : P(j) + 1 >= N(j)
           stop == CHOOSE i \in 1..K : Q(i)
           r == [i \in 1..stop |-> IF i < stop THEN P(i) ELSE P(i) + (N(i) - P(i)) \div 2]
<1>1. r = RankBetween(prev, nxt)
  BY DEF RankBetween
<1>2. hi \in Ranks
  BY RankTypes
<1>3. /\ Len(prev) \in Nat /\ \A i \in 1..Len(prev) : prev[i] \in 0..RankLast
      /\ Len(hi) \in Nat /\ \A i \in 1..Len(hi) : hi[i] \in 0..RankLast
      /\ RankLast \in Nat \ {0} /\ K \in Nat /\ K >= 2
  <2> HIDE DEF hi
  <2>1. /\ Len(prev) \in Nat /\ \A i \in 1..Len(prev) : prev[i] \in Letters
        /\ Len(hi) \in Nat /\ \A i \in 1..Len(hi) : hi[i] \in Letters
    BY <1>2, RankTypes
  <2> QED  BY <2>1, WorkAssumption DEF Letters
<1>10. nxt # <<>> /\ Less(prev, nxt) => hi = nxt
  OBVIOUS
<1> HIDE DEF hi
<1>4. \A i \in Nat \ {0} : P(i) \in 0..RankLast /\ N(i) \in 0..(RankLast + 1)
  <2> SUFFICES ASSUME NEW i \in Nat \ {0}  PROVE P(i) \in 0..RankLast /\ N(i) \in 0..(RankLast + 1)
    OBVIOUS
  <2>1. P(i) \in 0..RankLast
    BY <1>3
  <2>2. N(i) \in 0..(RankLast + 1)
    <3> HIDE DEF Parted
    <3> QED  BY <1>3
  <2> QED  BY <2>1, <2>2
<1>5. P(K) + 1 < N(K)
  <2>1. P(K) = 0
    BY <1>3
  <2>2. N(K) = RankLast + 1
    <3> HIDE DEF Parted
    <3> QED  BY <1>3
  <2> QED  BY <1>3, <2>1, <2>2
<1> HIDE DEF K, N, P
<1>6. stop \in 1..K /\ Q(stop)
  <2> DEFINE D == {i \in 1..K : P(i) + 1 < N(i)}
  <2>1. D \subseteq Nat /\ D # {}
    BY <1>3, <1>5
  <2>2. PICK m \in D : \A y \in D : m <= y
    <3> HIDE DEF D
    <3> QED  BY <2>1, LeastNumber
  <2>3. m \in 1..K /\ P(m) + 1 < N(m)
    BY <2>2
  <2>4. \A j \in 1..(m - 1) : P(j) + 1 >= N(j)
    <3> SUFFICES ASSUME NEW j \in 1..(m - 1)  PROVE P(j) + 1 >= N(j)
      OBVIOUS
    <3>1. j \in 1..K /\ ~(m <= j) /\ j \in Nat \ {0}
      BY <1>3, <2>3
    <3>2. ~(P(j) + 1 < N(j))
      BY <2>2, <3>1
    <3>3. P(j) \in 0..RankLast /\ N(j) \in 0..(RankLast + 1)
      BY <1>4, <3>1
    <3> QED  BY <1>3, <3>2, <3>3
  <2>5. Q(m)
    BY <2>3, <2>4
  <2> HIDE DEF Q
  <2> QED  BY <2>3, <2>5
<1>7. stop \in Nat \ {0} /\ P(stop) + 1 < N(stop) /\ \A j \in 1..(stop - 1) : P(j) + 1 >= N(j)
  BY <1>3, <1>6
<1> HIDE DEF stop
<1>8. /\ DOMAIN r = 1..stop /\ \A i \in 1..(stop - 1) : r[i] = P(i)
      /\ r[stop] > P(stop) /\ r[stop] < N(stop) /\ r[stop] \in 0..RankLast
  <2>1. P(stop) \in 0..RankLast /\ N(stop) \in 0..(RankLast + 1)
    BY <1>4, <1>7
  <2>2. r[stop] = P(stop) + (N(stop) - P(stop)) \div 2
    BY <1>7
  <2>3. r[stop] > P(stop) /\ r[stop] < N(stop) /\ r[stop] \in 0..RankLast
    <3>1. PICK a \in 0..RankLast, b \in 0..(RankLast + 1) : a = P(stop) /\ b = N(stop)
      BY <2>1
    <3>2. a + 1 < b => a + (b - a) \div 2 > a /\ a + (b - a) \div 2 < b
      BY <1>3
    <3>3. a + 1 < b
      BY <1>7, <3>1
    <3>4. r[stop] = a + (b - a) \div 2
      BY <2>2, <3>1
    <3>5. (b - a) \div 2 \in Int
      BY <1>3
    <3>6. PICK c \in Int : c = a + (b - a) \div 2
      BY <1>3, <3>5
    <3>7. c > a /\ c < b
      BY <3>2, <3>3, <3>6
    <3>8. c \in 0..RankLast
      BY <1>3, <3>7
    <3> HIDE DEF r
    <3> QED  BY <3>1, <3>4, <3>6, <3>7, <3>8
  <2>4. \A i \in 1..(stop - 1) : r[i] = P(i)
    BY <1>7
  <2> QED  BY <2>3, <2>4
<1> HIDE DEF r
<1>9. r \in Seq(0..RankLast) /\ Len(r) = stop
  <2>1. \A i \in 1..stop : r[i] \in 0..RankLast
    <3> SUFFICES ASSUME NEW i \in 1..stop  PROVE r[i] \in 0..RankLast
      OBVIOUS
    <3>1. CASE i = stop
      BY <1>8, <3>1
    <3>2. CASE i # stop
      <4>1. i \in 1..(stop - 1) /\ i \in Nat \ {0}
        BY <1>7, <3>2
      <4> QED  BY <1>4, <1>8, <4>1
    <3> QED  BY <3>1, <3>2
  <2>2. r = [i \in 1..stop |-> r[i]]
    BY <1>8 DEF r
  <2>3. stop \in Nat /\ r \in [1..stop -> 0..RankLast]
    BY <1>7, <2>1, <2>2
  <2>4. r \in Seq(0..RankLast)
    BY <2>3, SeqDef
  <2>5. Len(r) \in Nat /\ 1..Len(r) = 1..stop
    BY <1>8, <2>4, LenProperties
  <2> QED  BY <2>3, <2>4, <2>5
<1>11. r \in Ranks
  <2>1. r[Len(r)] # 0
    <3>1. P(stop) \in 0..RankLast
      BY <1>4, <1>7
    <3> QED  BY <1>3, <1>8, <1>9, <3>1
  <2> QED  BY <1>9, <2>1 DEF Ranks, Letters
<1>12. Less(prev, r)
  <2>1. CASE stop <= Len(prev)
    <3>1. \A j \in 1..stop : P(j) = prev[j]
      BY <1>3, <1>7, <2>1 DEF P
    <3>2. \A j \in 1..(stop - 1) : prev[j] = r[j]
      BY <1>7, <1>8, <3>1
    <3>3. prev[stop] < r[stop]
      <4>1. P(stop) = prev[stop] /\ P(stop) \in 0..RankLast
        BY <1>4, <1>7, <3>1
      <4> QED  BY <1>3, <1>8, <4>1
    <3>4. stop \in 1..Len(r) /\ stop <= Len(prev) + 1
      BY <1>3, <1>7, <1>9, <2>1
    <3> QED  BY <3>2, <3>3, <3>4 DEF Less
  <2>2. CASE stop > Len(prev)
    <3>1. \A j \in 1..Len(prev) : prev[j] = r[j]
      BY <1>3, <1>7, <1>8, <2>2 DEF P
    <3>2. Len(prev) + 1 \in 1..Len(r) /\ (Len(prev) + 1) - 1 = Len(prev) /\ Len(prev) + 1 > Len(prev)
      BY <1>3, <1>7, <1>9, <2>2
    <3> QED  BY <1>3, <3>1, <3>2 DEF Less
  <2> QED  BY <1>3, <1>7, <2>1, <2>2
<1>13. ASSUME nxt # <<>>, Less(prev, nxt)  PROVE Less(r, nxt)
  <2>1. hi = nxt /\ hi # <<>>
    BY <1>10, <1>13
  (* the first place where prev, filled up, is not next *)
  <2>2. \E q \in 1..Len(hi) : P(q) < hi[q] /\ \A j \in 1..(q - 1) : P(j) = hi[j]
    <3>1. PICK m \in 1..Len(hi) : /\ m <= Len(prev) + 1 /\ \A j \in 1..(m - 1) : prev[j] = hi[j]
                                  /\ m > Len(prev) \/ prev[m] < hi[m]
      BY <1>13, <2>1 DEF Less
    <3>2. \A j \in 1..(m - 1) : P(j) = hi[j]
      BY <1>3, <3>1 DEF P
    <3>3. CASE m <= Len(prev)
      BY <1>3, <3>1, <3>2, <3>3 DEF P
    <3>4. CASE m > Len(prev)
      <4> DEFINE D == {j \in m..Len(hi) : hi[j] # 0}
      <4>1. hi[Len(hi)] # 0
        BY <1>2, <2>1 DEF Ranks
      <4>2. D \subseteq Nat /\ Len(hi) \in D
        BY <1>3, <3>1, <4>1
      <4>3. PICK q \in D : \A y \in D : q <= y
        <5> HIDE DEF D
        <5> QED  BY <4>2, LeastNumber
      <4>4. q \in m..Len(hi) /\ hi[q] # 0 /\ q \in 1..Len(hi)
        BY <1>3, <3>1, <4>3
      <4>5. P(q) < hi[q]
        <5>1. P(q) = 0
          BY <1>3, <3>1, <3>4, <4>4 DEF P
        <5>2. hi[q] \in 0..RankLast
          BY <1>3, <4>4
        <5> QED  BY <1>3, <4>4, <5>1, <5>2
      <4>6. \A j \in 1..(q - 1) : P(j) = hi[j]
        <5> SUFFICES ASSUME NEW j \in 1..(q - 1)  PROVE P(j) = hi[j]
          OBVIOUS
        <5>1. CASE j < m
          <6>1. j \in 1..(m - 1)
            BY <1>3, <3>1, <4>4, <5>1
          <6> QED  BY <3>2, <6>1
        <5>2. CASE j >= m
          <6>1. j \in m..Len(hi) /\ ~(q <= j)
            BY <1>3, <3>1, <4>4, <5>2
          <6>2. hi[j] = 0
            BY <4>3, <6>1
          <6>3. P(j) = 0
            BY <1>3, <3>1, <3>4, <6>1 DEF P
          <6> QED  BY <6>2, <6>3
        <5> QED  BY <1>3, <3>1, <4>4, <5>1, <5>2
      <4> QED  BY <4>4, <4>5, <4>6
    <3> QED  BY <1>3, <3>1, <3>3, <3>4
  <2>3. PICK q \in 1..Len(hi) : P(q) < hi[q] /\ \A j \in 1..(q - 1) : P(j) = hi[j]
    BY <2>2
  <2>4. \A i \in 1..q : N(i) = hi[i]
    <3> SUFFICES ASSUME NEW i \in 1..q  PROVE N(i) = hi[i]
      OBVIOUS
    <3>1. ASSUME NEW j \in 1..(i - 1), j > Len(hi) \/ P(j) < hi[j]  PROVE FALSE
      <4>1. j \in 1..(q - 1) /\ j \in 1..Len(hi)
        BY <1>3, <2>3
      <4>2. P(j) = hi[j] /\ hi[j] \in 0..RankLast
        BY <1>3, <2>3, <4>1
      <4> QED  BY <1>3, <3>1, <4>1, <4>2
    <3>2. ~Parted(i)
      BY <3>1
    <3> HIDE DEF Parted
    <3> QED  BY <1>3, <2>3, <3>2 DEF N
  <2>5. q <= stop
    <3> SUFFICES ASSUME stop < q  PROVE FALSE
      BY <1>3, <1>7, <2>3
    <3>1. stop \in 1..(q - 1) /\ stop \in 1..q /\ stop \in 1..Len(hi)
      BY <1>3, <1>7, <2>3
    <3>2. P(stop) = hi[stop] /\ N(stop) = hi[stop] /\ hi[stop] \in 0..RankLast
      BY <1>3, <2>3, <2>4, <3>1
    <3> QED  BY <1>3, <1>7, <3>2
  <2>6. \A j \in 1..(q - 1) : r[j] = hi[j]
    <3> SUFFICES ASSUME NEW j \in 1..(q - 1)  PROVE r[j] = hi[j]
      OBVIOUS
    <3>1. j \in 1..(stop - 1)
      BY <1>3, <1>7, <2>3, <2>5
    <3> QED  BY <1>8, <2>3, <3>1
  <2>7. r[q] < hi[q]
    <3>1. CASE q = stop
      <4>1. N(q) = hi[q]
        BY <1>3, <2>3, <2>4
      <4> QED  BY <1>8, <3>1, <4>1
    <3>2. CASE q # stop
      <4>1. q \in 1..(stop - 1)
        BY <1>3, <1>7, <2>3, <2>5, <3>2
      <4> QED  BY <1>8, <2>3, <4>1
    <3> QED  BY <3>1, <3>2
  <2>8. q <= Len(r) + 1
    BY <1>3, <1>7, <1>9, <2>3, <2>5
  <2> QED  BY <2>1, <2>3, <2>6, <2>7, <2>8 DEF Less
<1> QED  BY <1>1, <1>11, <1>12, <1>13

(* A finite set has an element that nothing of it precedes. *)
LEMMA FirstOfOrder ==
  ASSUME NEW S, IsFiniteSet(S), S # {}, NEW R,
         \A x \in S : <<x, x>> \notin R,
         \A x, y, z \in S : <<x, y>> \in R /\ <<y, z>> \in R => <<x, z>> \in R
  PROVE  \E x \in S : \A y \in S : <<y, x>> \notin R
<1> DEFINE W(x) == {y \in S : <<y, x>> \in R}
           N == {Cardinality(W(x)) : x \in S}
<1>1. \A x \in S : IsFiniteSet(W(x)) /\ Cardinality(W(x)) \in Nat
  <2> SUFFICES ASSUME NEW x \in S  PROVE IsFiniteSet(W(x)) /\ Cardinality(W(x)) \in Nat
    OBVIOUS
  <2>1. W(x) \in SUBSET S
    OBVIOUS
  <2> HIDE DEF W
  <2> QED  BY <2>1, FS_Subset, FS_CardinalityType
<1>2. N \subseteq Nat /\ N # {}
  <2> HIDE DEF W
  <2> QED  BY <1>1
<1>3. PICK c \in N : \A d \in N : c <= d
  <2> HIDE DEF N
  <2> QED  BY <1>2, LeastNumber
<1>4. PICK x \in S : c = Cardinality(W(x))
  BY <1>3
<1>5. ASSUME NEW y \in S, <<y, x>> \in R  PROVE FALSE
  <2>1. W(y) \in SUBSET W(x) /\ y \in W(x) /\ y \notin W(y)
    BY <1>5
  <2>2. Cardinality(W(y)) \in N
    OBVIOUS
  <2>3. Cardinality(W(x)) <= Cardinality(W(y))
    BY <1>3, <1>4, <2>2
  <2>4. Cardinality(W(y)) <= Cardinality(W(x)) /\ W(y) # W(x)
        /\ (Cardinality(W(x)) = Cardinality(W(y)) => W(x) = W(y))
    <3> HIDE DEF W
    <3> QED  BY <1>1, <2>1, FS_Subset
  <2>5. Cardinality(W(x)) \in Nat /\ Cardinality(W(y)) \in Nat
    BY <1>1
  <2> HIDE DEF W
  <2> QED  BY <2>3, <2>4, <2>5
<1> QED  BY <1>5

LEMMA DealsFinite ==
  /\ IsFiniteSet(Deals) /\ Deals \subseteq Nat
  /\ \A S \in SUBSET Deals : IsFiniteSet(S) /\ Cardinality(S) \in Nat
<1>1. IsFiniteSet(Deals)
  BY WorkAssumption, FS_Interval DEF Deals
<1>2. Deals \subseteq Nat
  BY WorkAssumption DEF Deals
<1> QED  BY <1>1, <1>2, FS_Subset, FS_CardinalityType

(* The cards of a column in order. *)
LEMMA AboveOrder ==
  ASSUME deal \in [Deals -> Deal]
  PROVE  /\ \A d \in Deals : ~Above(d, d) /\ deal[d].rank \in Ranks /\ deal[d].rank \in Seq(Nat)
         /\ \A d, e, f \in Deals : Above(d, e) /\ Above(e, f) => Above(d, f)
         /\ \A d, e \in Deals : d # e => Above(d, e) \/ Above(e, d)
<1>1. \A d \in Deals : deal[d].rank \in Ranks /\ deal[d].rank \in Seq(Nat)
  BY RankTypes DEF Deal
<1>2. ASSUME NEW d \in Deals  PROVE ~Above(d, d)
  BY <1>1, DealsFinite, LessIrreflexive DEF Above
<1>3. ASSUME NEW d \in Deals, NEW e \in Deals, NEW f \in Deals, Above(d, e), Above(e, f)  PROVE Above(d, f)
  <2>1. Less(deal[d].rank, deal[e].rank) /\ Less(deal[e].rank, deal[f].rank) => Less(deal[d].rank, deal[f].rank)
    BY <1>1, LessTransitive
  <2>2. d \in Nat /\ e \in Nat /\ f \in Nat
    BY DealsFinite
  <2> QED  BY <1>3, <2>1, <2>2 DEF Above
<1>4. ASSUME NEW d \in Deals, NEW e \in Deals, d # e  PROVE Above(d, e) \/ Above(e, d)
  <2>1. d \in Nat /\ e \in Nat
    BY DealsFinite
  <2>2. deal[d].rank # deal[e].rank => Less(deal[d].rank, deal[e].rank) \/ Less(deal[e].rank, deal[d].rank)
    BY <1>1, LessTotal
  <2> QED  BY <1>4, <2>1, <2>2 DEF Above
<1> QED  BY <1>1, <1>2, <1>3, <1>4

LEMMA FirstAndLast ==
  ASSUME deal \in [Deals -> Deal], NEW cards \in SUBSET Deals, cards # {}
  PROVE  /\ \E x \in cards : \A y \in cards : ~Above(y, x)
         /\ \E x \in cards : \A y \in cards : ~Above(x, y)
<1> DEFINE R == {p \in cards \X cards : Above(p[1], p[2])}
           Q == {p \in cards \X cards : Above(p[2], p[1])}
<1>1. IsFiniteSet(cards)
  BY DealsFinite
<1>2. \A x, y \in cards : (<<x, y>> \in R <=> Above(x, y)) /\ (<<x, y>> \in Q <=> Above(y, x))
  OBVIOUS
<1>3. \A x, y, z \in cards : ~Above(x, x) /\ (Above(x, y) /\ Above(y, z) => Above(x, z))
  BY AboveOrder
<1> HIDE DEF R, Q
<1>4. /\ \A x \in cards : <<x, x>> \notin R /\ <<x, x>> \notin Q
      /\ \A x, y, z \in cards : <<x, y>> \in R /\ <<y, z>> \in R => <<x, z>> \in R
      /\ \A x, y, z \in cards : <<x, y>> \in Q /\ <<y, z>> \in Q => <<x, z>> \in Q
  BY <1>2, <1>3
<1>5. \E x \in cards : \A y \in cards : <<y, x>> \notin R
  BY <1>1, <1>4, FirstOfOrder, Zenon
<1>6. \E x \in cards : \A y \in cards : <<y, x>> \notin Q
  BY <1>1, <1>4, FirstOfOrder, Zenon
<1> QED  BY <1>2, <1>5, <1>6

(* A page: the first cards, with a last one, which all others come after; and *)
(* all of them if there are not more than a page holds.                       *)
LEMMA PageIs ==
  ASSUME deal \in [Deals -> Deal], NEW cards \in SUBSET Deals, cards # {},
         NEW page, page = Top(cards, PageSize), NEW b, b = Bottom(page)
  PROVE  /\ page \subseteq cards /\ b \in page /\ \A e \in page \ {b} : Above(e, b)
         /\ \A d \in cards \ page : Above(b, d)
         /\ Cardinality(cards) <= PageSize => page = cards
<1> DEFINE W(d) == {e \in cards : Above(e, d)}
<1>0. /\ \A d \in Deals : ~Above(d, d)
      /\ \A d, e, f \in Deals : Above(d, e) /\ Above(e, f) => Above(d, f)
      /\ \A d, e \in Deals : d # e => Above(d, e) \/ Above(e, d)
  BY AboveOrder
<1>1. page = {d \in cards : Cardinality(W(d)) < PageSize}
  BY DEF Top
<1>2. \A d \in cards : IsFiniteSet(W(d)) /\ Cardinality(W(d)) \in Nat /\ W(d) \in SUBSET cards
  <2>1. \A d \in cards : W(d) \in SUBSET Deals /\ W(d) \in SUBSET cards
    OBVIOUS
  <2> HIDE DEF W
  <2> QED  BY <2>1, DealsFinite
<1>3. page # {}
  <2>1. PICK x \in cards : \A y \in cards : ~Above(y, x)
    BY FirstAndLast
  <2>2. W(x) = {}
    BY <2>1
  <2>3. Cardinality(W(x)) < PageSize
    <3>1. Cardinality({}) = 0
      BY FS_EmptySet
    <3> HIDE DEF W
    <3> QED  BY <2>2, <3>1, WorkAssumption
  <2> QED  BY <1>1, <2>3
<1>4. b \in page /\ \A e \in page \ {b} : Above(e, b)
  <2>1. page \in SUBSET Deals
    BY <1>1
  <2>2. PICK x \in page : \A y \in page : ~Above(x, y)
    BY <1>3, <2>1, FirstAndLast
  <2>3. \A e \in page \ {x} : Above(e, x)
    BY <1>0, <2>1, <2>2
  <2>4. \E d \in page : \A e \in page \ {d} : Above(e, d)
    BY <2>3
  <2> QED  BY <2>4 DEF Bottom
<1>5. ASSUME NEW d \in cards \ page  PROVE Above(b, d)
  <2>1. b \in cards /\ d \in cards /\ b # d /\ b \in Deals /\ d \in Deals
    BY <1>1, <1>4, <1>5
  <2>2. SUFFICES ASSUME Above(d, b)  PROVE FALSE
    BY <1>0, <2>1
  <2>3. W(d) \in SUBSET W(b)
    BY <1>0, <2>1, <2>2
  <2>4. Cardinality(W(b)) < PageSize /\ ~(Cardinality(W(d)) < PageSize)
    BY <1>1, <1>4, <1>5
  <2>5. /\ IsFiniteSet(W(b)) /\ Cardinality(W(b)) \in Nat /\ Cardinality(W(d)) \in Nat
    BY <1>2, <2>1
  <2> HIDE DEF W
  <2>6. Cardinality(W(d)) <= Cardinality(W(b))
    BY <2>3, <2>5, FS_Subset
  <2> QED  BY <2>4, <2>5, <2>6, WorkAssumption
<1>6. ASSUME Cardinality(cards) <= PageSize, NEW d \in cards  PROVE d \in page
  <2>1. W(d) \in SUBSET cards /\ W(d) # cards
    BY <1>0
  <2>2. IsFiniteSet(cards) /\ Cardinality(cards) \in Nat /\ Cardinality(W(d)) \in Nat
    BY <1>2, DealsFinite
  <2> HIDE DEF W
  <2>3. Cardinality(W(d)) <= Cardinality(cards) /\ Cardinality(W(d)) # Cardinality(cards)
    BY <2>1, <2>2, FS_Subset
  <2>4. Cardinality(W(d)) < PageSize
    BY <1>6, <2>2, <2>3, WorkAssumption
  <2> QED  BY <1>1, <2>4
<1> QED  BY <1>1, <1>4, <1>5, <1>6

(* lastRank *)
LEMMA LastRankIs ==
  ASSUME deal \in [Deals -> Deal], NEW s  PROVE LastRank(s) \in Ranks
<1>1. CASE Cards(s) = {}
  BY <1>1, RankTypes DEF LastRank
<1>2. CASE Cards(s) # {}
  <2>1. Cards(s) \in SUBSET Deals
    BY DEF Cards
  <2>2. PICK x \in Cards(s) : \A y \in Cards(s) : ~Above(x, y)
    BY <1>2, <2>1, FirstAndLast
  <2>3. \E d \in Cards(s) : \A e \in Cards(s) : ~Less(deal[d].rank, deal[e].rank)
    BY <2>2 DEF Above
  <2> DEFINE d == CHOOSE d \in Cards(s) : \A e \in Cards(s) : ~Less(deal[d].rank, deal[e].rank)
  <2>4. d \in Cards(s) /\ LastRank(s) = deal[d].rank
    BY <1>2, <2>3 DEF LastRank
  <2> HIDE DEF d
  <2> QED  BY <2>1, <2>4, AboveOrder
<1> QED  BY <1>1, <1>2

-----------------------------------------------------------------------------
(* Scrolling                                                                  *)

(* One more page, of cards that are past what was seen. *)
LEMMA ShowsOK ==
  ASSUME deal \in [Deals -> Deal], NEW pg \in Pager, NEW cards, cards \subseteq Column(pg.user, pg.stage),
         \A k \in pg.kept :
           /\ k[1] \notin pg.twice
           /\ k[1] \in Column(pg.user, pg.stage) /\ deal[k[1]].rank = k[2] =>
                /\ k[1] \notin pg.seen => k[1] \in cards
                /\ k[1] \in pg.seen => k[1] \notin cards /\ \A c \in cards : ~Less(deal[c].rank, k[2]),
         pager' = Shows(pg, cards)
  PROVE  pager' \in Pager /\ WalkOK'
<1> DEFINE col == Column(pg.user, pg.stage)
           page == Top(cards, PageSize)
           b == Bottom(page)
           more == Cardinality(cards) > PageSize
<1>0. col \subseteq Deals
  BY DEF Column, ListDeals, List
<1>1. cards \in SUBSET Deals /\ Cardinality(cards) \in Nat
  <2>1. cards \in SUBSET Deals
    BY <1>0
  <2> QED  BY <2>1, DealsFinite
<1>2. page \subseteq cards /\ (~more => page = cards)
  <2>1. page \subseteq cards
    BY DEF Top
  <2>2. CASE cards = {}
    BY <2>1, <2>2
  <2>3. CASE cards # {}
    <3>1. Cardinality(cards) <= PageSize => page = cards
      BY <1>1, <2>3, PageIs
    <3> HIDE DEF page
    <3> QED  BY <1>1, <2>1, <3>1, WorkAssumption
  <2> QED  BY <2>2, <2>3
<1>3. ASSUME more
      PROVE  /\ b \in page /\ \A e \in page \ {b} : Above(e, b)
             /\ \A d \in cards \ page : Above(b, d)
  <2>1. cards # {}
    <3>1. Cardinality({}) = 0
      BY FS_EmptySet
    <3>2. Cardinality(cards) > 0
      BY <1>1, <1>3, WorkAssumption
    <3>3. Cardinality(cards) # 0
      BY <1>1, <3>2
    <3> QED  BY <3>1, <3>3, Zenon
  <2> QED  BY <1>1, <2>1, PageIs
<1>4. \A d \in Deals : deal[d].rank \in Ranks /\ deal[d].rank \in Seq(Nat) /\ ~Above(d, d)
  BY AboveOrder
<1>k. \A k \in pg.kept : k[1] \in Deals /\ k[2] \in Ranks /\ k[2] \in Seq(Nat) /\ k = <<k[1], k[2]>>
  BY RankTypes DEF Pager
<1>5. /\ pager'.on = more /\ pager'.seen = pg.seen \cup page /\ pager'.twice = pg.twice \cup (page \cap pg.seen)
      /\ pager'.after = IF more THEN deal[b].rank ELSE pg.after
      /\ pager'.stage = pg.stage /\ pager'.user = pg.user
      /\ pager'.kept = {<<d, deal[d].rank>> : d \in col} \cap
                       {k \in pg.kept : k[1] \in page \cup pg.seen \/ ~more \/ k[2] # deal[b].rank}
      /\ pager' = [on |-> more, stage |-> pg.stage, after |-> pager'.after, seen |-> pager'.seen,
                   kept |-> pager'.kept, user |-> pg.user, twice |-> pager'.twice]
  BY DEF Shows, Cursor, Pager
<1>6. \A k \in pager'.kept :
         /\ k \in pg.kept /\ k[1] \in col /\ deal[k[1]].rank = k[2]
         /\ k[1] \in page \cup pg.seen \/ ~more \/ k[2] # deal[b].rank
  BY <1>5
<1> HIDE DEF col, page, b, more
<1>7. pager' \in Pager
  <2>1. more \in BOOLEAN /\ pager'.after \in Ranks
    <3>1. more => b \in Deals
      BY <1>1, <1>2, <1>3
    <3>2. pg.after \in Ranks
      BY DEF Pager
    <3> QED  BY <1>4, <1>5, <3>1, <3>2 DEF more
  <2>2. pager'.seen \in SUBSET Deals /\ pager'.twice \in SUBSET Deals
    BY <1>1, <1>2, <1>5 DEF Pager
  <2>3. pager'.kept \in SUBSET (Deals \X Ranks)
    <3>1. pg.kept \in SUBSET (Deals \X Ranks)
      BY DEF Pager
    <3> QED  BY <1>6, <3>1
  <2>4. pg.stage \in Stages /\ pg.user \in Users
    BY DEF Pager
  <2> QED  BY <1>5, <2>1, <2>2, <2>3, <2>4 DEF Pager
<1>8. ASSUME NEW k \in pager'.kept
      PROVE  /\ k[1] \notin pager'.twice
             /\ IF pager'.on THEN k[1] \in pager'.seen <=> ~Less(pager'.after, k[2]) ELSE k[1] \in pager'.seen
  <2>1. /\ k \in pg.kept /\ k[1] \in col /\ deal[k[1]].rank = k[2]
        /\ k[1] \in page \cup pg.seen \/ ~more \/ k[2] # deal[b].rank
        /\ k[1] \in Deals /\ k[2] \in Seq(Nat)
    BY <1>6, <1>8, <1>k
  <2>2. /\ k[1] \notin pg.twice
        /\ k[1] \notin pg.seen => k[1] \in cards
        /\ k[1] \in pg.seen => k[1] \notin cards /\ \A c \in cards : ~Less(deal[c].rank, k[2])
    BY <2>1 DEF col
  <2>3. k[1] \notin pager'.twice
    BY <1>2, <1>5, <2>2
  <2>4. CASE ~more
    BY <1>2, <1>5, <2>2, <2>3, <2>4
  <2>5. CASE more
    <3>1. /\ b \in page /\ b \in cards /\ b \in Deals /\ \A e \in page \ {b} : Above(e, b)
          /\ \A d \in cards \ page : Above(b, d)
      BY <1>1, <1>2, <1>3, <2>5
    <3>2. deal[b].rank \in Seq(Nat) /\ pager'.after = deal[b].rank
      BY <1>4, <1>5, <2>5, <3>1
    <3>3. CASE k[1] \in page
      <4>1. k[1] = b \/ Less(k[2], deal[b].rank) \/ k[2] = deal[b].rank
        BY <2>1, <3>1, <3>3 DEF Above
      <4>2. ~Less(deal[b].rank, k[2])
        BY <2>1, <3>2, <4>1, LessIrreflexive, LessTransitive
      <4> QED  BY <1>5, <2>3, <2>5, <3>2, <3>3, <4>2
    <3>4. CASE k[1] \in pg.seen
      BY <1>5, <2>2, <2>3, <2>5, <3>1, <3>2, <3>4
    <3>5. CASE k[1] \notin page /\ k[1] \notin pg.seen
      <4>1. k[1] \in cards \ page /\ k[2] # deal[b].rank
        BY <2>1, <2>2, <2>5, <3>5
      <4>2. Less(deal[b].rank, k[2])
        BY <2>1, <3>1, <4>1 DEF Above
      <4> QED  BY <1>5, <2>3, <2>5, <3>2, <3>5, <4>2
    <3> QED  BY <3>3, <3>4, <3>5
  <2> QED  BY <2>4, <2>5
<1> QED  BY <1>7, <1>8 DEF WalkOK

LEMMA WalkStep ==
  ASSUME deal \in [Deals -> Deal], pager \in Pager, WalkOK,
         StageDeals \/ \E u \in Users, s \in Stages : Board(u, s)
  PROVE  pager' \in Pager /\ WalkOK'
<1>0. \A u, s : Column(u, s) \subseteq Deals
  BY DEF Column, ListDeals, List
<1>1. CASE StageDeals
  <2> DEFINE cards == Below(Column(pager.user, pager.stage), pager.after)
  <2>1. pager.on /\ pager' = Shows(pager, cards) /\ cards \subseteq Column(pager.user, pager.stage)
    BY <1>1 DEF StageDeals, Below
  <2>2. ASSUME NEW k \in pager.kept
        PROVE  /\ k[1] \notin pager.twice
               /\ k[1] \in Column(pager.user, pager.stage) /\ deal[k[1]].rank = k[2] =>
                    /\ k[1] \notin pager.seen => k[1] \in cards
                    /\ k[1] \in pager.seen => k[1] \notin cards /\ \A c \in cards : ~Less(deal[c].rank, k[2])
    <3>1. k[1] \notin pager.twice /\ (k[1] \in pager.seen <=> ~Less(pager.after, k[2]))
      BY <2>1, <2>2 DEF WalkOK
    <3>2. k[1] \in Deals /\ k[2] \in Seq(Nat) /\ pager.after \in Seq(Nat)
      BY <2>2, RankTypes DEF Pager
    <3>3. ASSUME NEW c \in cards, Less(deal[c].rank, k[2])  PROVE Less(pager.after, k[2])
      <4>1. c \in Deals /\ Less(pager.after, deal[c].rank)
        BY <1>0, <3>3 DEF Below
      <4>2. deal[c].rank \in Seq(Nat)
        BY <4>1, AboveOrder
      <4> QED  BY <3>2, <3>3, <4>1, <4>2, LessTransitive
    <3>4. k[1] \in Column(pager.user, pager.stage) /\ deal[k[1]].rank = k[2] =>
            (k[1] \in cards <=> Less(pager.after, k[2]))
      BY DEF Below
    <3> HIDE DEF cards
    <3> QED  BY <3>1, <3>3, <3>4
  <2> HIDE DEF cards
  <2> QED  BY <2>1, <2>2, ShowsOK
<1>2. ASSUME NEW u \in Users, NEW s \in Stages, Board(u, s)  PROVE pager' \in Pager /\ WalkOK'
  <2>1. PICK pg : pg = [NoPager EXCEPT !.stage = s, !.user = u, !.kept = {<<d, deal[d].rank>> : d \in Column(u, s)}]
    OBVIOUS
  <2>2. /\ pg.on = FALSE /\ pg.stage = s /\ pg.user = u /\ pg.after = <<>> /\ pg.seen = {} /\ pg.twice = {}
        /\ pg.kept = {<<d, deal[d].rank>> : d \in Column(u, s)}
        /\ pg = [on |-> FALSE, stage |-> s, after |-> <<>>, seen |-> {}, kept |-> pg.kept, user |-> u, twice |-> {}]
    BY <2>1 DEF NoPager
  <2>3. pg.kept \in SUBSET (Deals \X Ranks)
    <3>1. \A d \in Deals : deal[d].rank \in Ranks
      BY AboveOrder
    <3> QED  BY <1>0, <2>2, <3>1
  <2>4. pg \in Pager
    BY <2>2, <2>3, RankTypes DEF Pager
  <2>5. \A k \in pg.kept : k[1] \in Column(u, s)
    BY <2>2
  <2>6. pager' = Shows(pg, Column(u, s))
    BY <1>2, <2>1 DEF Board
  <2> QED  BY <2>2, <2>4, <2>5, <2>6, ShowsOK
<1> QED  BY <1>1, <1>2

-----------------------------------------------------------------------------
(* Requests under way                                                         *)

LEMMA JobIs ==
  ASSUME NEW j \in Job
  PROVE  /\ j.k = "insert" => j \in InsertJob
         /\ j.k = "move" => j \in MoveJob
         /\ j.k \in {"save", "sync"} => j \in StageJob
         /\ j.k = "remove" => j \in RemoveJob
         /\ j.k = "task" => j \in TaskJob
         /\ j.k = "close" => j \in CloseJob
         /\ j.k = "reopen" => j \in ReopenJob
         /\ j.k = "edit" => j \in EditJob
         /\ j.k = "bulk" => j \in BulkJob
         /\ j.k = "notify" => j \in NotifyJob
         /\ j.k = "type" => j \in TypeJob
         /\ j.k = "untype" => j \in UntypeJob
         /\ j.k = "idle" => j = Idle
<1>1. /\ \A x \in InsertJob : x.k = "insert"
      /\ \A x \in MoveJob : x.k = "move"
      /\ \A x \in StageJob : x.k \in {"save", "sync"}
      /\ \A x \in RemoveJob : x.k = "remove"
  BY DEF InsertJob, MoveJob, StageJob, RemoveJob
<1>2. /\ \A x \in TaskJob : x.k = "task"
      /\ \A x \in CloseJob : x.k = "close"
      /\ \A x \in ReopenJob : x.k = "reopen"
      /\ \A x \in EditJob : x.k = "edit"
  BY DEF TaskJob, CloseJob, ReopenJob, EditJob
<1>3. /\ \A x \in BulkJob : x.k = "bulk"
      /\ \A x \in NotifyJob : x.k = "notify"
      /\ \A x \in TypeJob : x.k = "type"
      /\ \A x \in UntypeJob : x.k = "untype"
      /\ Idle.k = "idle"
  BY DEF BulkJob, NotifyJob, TypeJob, UntypeJob, Idle
<1> QED  BY <1>1, <1>2, <1>3 DEF Job

LEMMA StartsIs ==
  ASSUME jobs \in [Slots -> Job], NEW job \in Job, Starts(job)
  PROVE  /\ jobs' \in [Slots -> Job]
         /\ \E i \in Slots : jobs[i] = Idle /\ jobs' = [jobs EXCEPT ![i] = job]
<1> DEFINE free == {i \in Slots : jobs[i] = Idle}
<1>1. free \subseteq Nat /\ free # {}
  BY WorkAssumption DEF Starts, Slots
<1>2. \E i \in free : \A j \in free : i <= j
  <2> HIDE DEF free
  <2> QED  BY <1>1, LeastNumber
<1>3. PICK i : i = CHOOSE k \in free : \A j \in free : k <= j
  OBVIOUS
<1>4. i \in free
  <2> HIDE DEF free
  <2> QED  BY <1>2, <1>3
<1>5. jobs' = [jobs EXCEPT ![i] = job]
  BY <1>3 DEF Starts
<1> QED  BY <1>4, <1>5

-----------------------------------------------------------------------------
(* Rows of tasks                                                              *)

(* What a row becomes: another row that is right, of the same type, or none.  *)
Carried(old, new) ==
  new.at = "live" => old.at = "live" /\ new.type = old.type /\ ("type" \in old.odd => "type" \in new.odd)
Becomes(old, new) == new \in Task /\ TaskOK(new) /\ Carried(old, new)

LEMMA ClosedIs ==
  ASSUME NEW row \in Task, TaskOK(row), row.at = "live", NEW to \in {"completed", "cancelled"}
  PROVE  Becomes(row, Closed(row, to))
<1>1. PICK n : n = Closed(row, to)
  OBVIOUS
<1>2. /\ n \in Task /\ n.at = row.at /\ n.type = row.type /\ n.status = to
      /\ n.done = (row.done \/ to = "completed") /\ n.cancelled = (row.cancelled \/ to = "cancelled")
      /\ n.told = row.told /\ n.stamp = row.stamp /\ row.odd \subseteq n.odd
      /\ row.status # "open" => "status" \in n.odd
      /\ row.status = "open" => n.odd = row.odd
  BY <1>1 DEF Closed, Task
<1>3. TaskOK(n)
  <2>1. row.done \in BOOLEAN /\ row.cancelled \in BOOLEAN
    BY DEF Task
  <2> QED  BY <1>2, <2>1 DEF TaskOK
<1> QED  BY <1>1, <1>2, <1>3 DEF Becomes, Carried

LEMMA ReopenedIs ==
  ASSUME NEW row \in Task, TaskOK(row), row.at = "live"
  PROVE  Becomes(row, Reopened(row))
<1>1. PICK n : n = Reopened(row)
  OBVIOUS
<1>a. PICK st : st = [k \in Kinds |-> FALSE]
  OBVIOUS
<1>b. PICK to : to = [k \in Kinds |-> 0]
  OBVIOUS
<1>t. st \in [Kinds -> BOOLEAN] /\ to \in [Kinds -> 0..2]
  BY <1>a, <1>b
<1>c. n = [row EXCEPT !.status = "open", !.done = FALSE, !.cancelled = FALSE,
                      !.stamp = st, !.told = to, !.odd = row.odd \cap {"type"}]
  BY <1>1, <1>a, <1>b DEF Reopened
<1>d. n \in Task
  BY <1>c, <1>t DEF Task
<1>2. /\ n \in Task /\ n.at = row.at /\ n.type = row.type /\ n.status = "open"
      /\ n.done = FALSE /\ n.cancelled = FALSE
      /\ \A k \in Kinds : n.told[k] = 0 /\ n.stamp[k] = FALSE
      /\ n.odd = row.odd \cap {"type"}
  BY <1>a, <1>b, <1>c, <1>d DEF Task
<1>3. TaskOK(n)
  BY <1>2 DEF TaskOK
<1> QED  BY <1>1, <1>2, <1>3 DEF Becomes, Carried

Unstamps(row, ks, n) ==
  /\ n \in Task /\ n.at = row.at /\ n.type = row.type /\ n.status = row.status
  /\ n.done = row.done /\ n.cancelled = row.cancelled /\ n.when = row.when
  /\ n.odd = row.odd \ ks
  /\ \A k \in Kinds : IF k \in ks THEN n.told[k] = 0 /\ n.stamp[k] = FALSE
                      ELSE n.told[k] = row.told[k] /\ n.stamp[k] = row.stamp[k]

LEMMA UnstampedIs ==
  ASSUME NEW row \in Task, NEW ks \in SUBSET Kinds, NEW n, n = Unstamped(row, ks)
  PROVE  Unstamps(row, ks, n)
<1>1. PICK st : st = [k \in Kinds |-> row.stamp[k] /\ k \notin ks]
  OBVIOUS
<1>2. PICK to : to = [k \in Kinds |-> IF k \in ks THEN 0 ELSE row.told[k]]
  OBVIOUS
<1>3. n = [row EXCEPT !.stamp = st, !.told = to, !.odd = row.odd \ ks]
  BY <1>1, <1>2 DEF Unstamped
<1>4. /\ st \in [Kinds -> BOOLEAN] /\ to \in [Kinds -> 0..2]
  BY <1>1, <1>2 DEF Task
<1>5. /\ n \in Task /\ n.at = row.at /\ n.type = row.type /\ n.status = row.status
      /\ n.done = row.done /\ n.cancelled = row.cancelled /\ n.when = row.when
      /\ n.odd = row.odd \ ks /\ n.stamp = st /\ n.told = to
  <2>1. PICK od : od = row.odd \ ks
    OBVIOUS
  <2>2. od \in SUBSET {"status", "type", "remind", "due"}
    BY <2>1 DEF Task
  <2>3. n = [row EXCEPT !.stamp = st, !.told = to, !.odd = od]
    BY <1>3, <2>1
  <2>4. n \in Task
    <3>1. PICK W, ST, TO, OD : /\ W = [Kinds -> {"later", "past", "none"}]
                              /\ ST = [Kinds -> BOOLEAN] /\ TO = [Kinds -> 0..2]
                              /\ OD = SUBSET {"status", "type", "remind", "due"}
      OBVIOUS
    <3>2. Task = [at: {"no", "live", "gone"}, status: {"open", "completed", "cancelled"},
                  done: BOOLEAN, cancelled: BOOLEAN, owner: Owners, contact: Contacts \cup {None},
                  type: Types, when: W, stamp: ST, told: TO, odd: OD]
      BY <3>1 DEF Task
    <3>3. st \in ST /\ to \in TO /\ od \in OD
      BY <1>4, <2>2, <3>1
    <3> QED  BY <2>3, <3>2, <3>3
  <2> QED  BY <2>1, <2>3, <2>4 DEF Task
<1>6. \A k \in Kinds : row.stamp[k] \in BOOLEAN
  BY DEF Task
<1>7. \A k \in Kinds : IF k \in ks THEN to[k] = 0 /\ st[k] = FALSE
                                   ELSE to[k] = row.told[k] /\ st[k] = row.stamp[k]
  <2> SUFFICES ASSUME NEW k \in Kinds
               PROVE  IF k \in ks THEN to[k] = 0 /\ st[k] = FALSE
                                  ELSE to[k] = row.told[k] /\ st[k] = row.stamp[k]
    OBVIOUS
  <2>1. to[k] = IF k \in ks THEN 0 ELSE row.told[k]
    BY <1>2
  <2>2. st[k] = (row.stamp[k] /\ k \notin ks)
    BY <1>1
  <2> QED  BY <1>6, <2>1, <2>2
<1> QED  BY <1>5, <1>7 DEF Unstamps

LEMMA EditedIs ==
  ASSUME NEW row \in Task, TaskOK(row), row.at = "live", NEW what \in Kinds, NEW at \in {"later", "none"}
  PROVE  Becomes(row, Edited(row, what, at))
<1>1. PICK new : new = [row EXCEPT !.when[what] = at]
  OBVIOUS
<1>2. /\ new \in Task /\ new.at = row.at /\ new.type = row.type /\ new.status = row.status
      /\ new.done = row.done /\ new.cancelled = row.cancelled
      /\ new.odd = row.odd /\ new.told = row.told /\ new.stamp = row.stamp
      /\ \A k \in Kinds : new.when[k] = IF k = what THEN at ELSE row.when[k]
  BY <1>1 DEF Task, Kinds
<1>3. CASE what = "due"
  <2>1. PICK n : n = Unstamped(new, Kinds)
    OBVIOUS
  <2>2. Edited(row, what, at) = n
    BY <1>1, <1>3, <2>1 DEF Edited
  <2>3. /\ n \in Task /\ n.at = row.at /\ n.type = row.type /\ n.status = row.status
        /\ n.done = row.done /\ n.cancelled = row.cancelled
        /\ n.odd = row.odd \ Kinds /\ \A k \in Kinds : n.told[k] = 0 /\ n.stamp[k] = FALSE
    <3>1. Kinds \in SUBSET Kinds
      OBVIOUS
    <3>2. Unstamps(new, Kinds, n)
      BY <1>2, <2>1, <3>1, UnstampedIs
    <3> QED  BY <1>2, <3>2 DEF Unstamps
  <2>4. TaskOK(n)
    BY <2>3 DEF TaskOK, Kinds
  <2> QED  BY <2>2, <2>3, <2>4 DEF Becomes, Carried, Kinds
<1>4. CASE what # "due" /\ at = "none"
  <2>1. Edited(row, what, at) = new
    BY <1>1, <1>4 DEF Edited
  <2>2. TaskOK(new)
    BY <1>2, <1>4 DEF TaskOK
  <2> QED  BY <1>2, <2>1, <2>2 DEF Becomes, Carried
<1>5. CASE what # "due" /\ at # "none"
  <2>1. PICK n : n = Unstamped(new, {"remind"})
    OBVIOUS
  <2>2. Edited(row, what, at) = n /\ what = "remind"
    BY <1>1, <1>5, <2>1 DEF Edited, Kinds
  <2>3. /\ n \in Task /\ n.at = row.at /\ n.type = row.type /\ n.status = row.status
        /\ n.done = row.done /\ n.cancelled = row.cancelled /\ n.when = new.when
        /\ n.odd = row.odd \ {"remind"}
        /\ n.told["remind"] = 0 /\ n.stamp["remind"] = FALSE
        /\ n.told["due"] = row.told["due"] /\ n.stamp["due"] = row.stamp["due"]
    <3>1. {"remind"} \in SUBSET Kinds /\ "remind" \in Kinds /\ "due" \in Kinds
      BY DEF Kinds
    <3>2. "due" \notin {"remind"} /\ "remind" \in {"remind"}
      OBVIOUS
    <3>3. Unstamps(new, {"remind"}, n)
      BY <1>2, <2>1, <3>1, UnstampedIs
    <3> QED  BY <1>2, <3>1, <3>2, <3>3 DEF Unstamps
  <2>4. n.when["due"] = row.when["due"]
    BY <1>2, <2>2, <2>3 DEF Kinds
  <2>5. TaskOK(n)
    BY <2>3, <2>4 DEF TaskOK, Kinds
  <2> QED  BY <2>2, <2>3, <2>5 DEF Becomes, Carried
<1> QED  BY <1>3, <1>4, <1>5

LEMMA GoneIs ==
  \A row : Becomes(row, GoneTask)
<1>1. GoneTask \in Task /\ GoneTask.at = "gone" /\ \A k \in Kinds : GoneTask.told[k] = 0
  <2>1. 1 \in Types /\ None \in Owners
    BY WorkAssumption DEF Types, Owners
  <2>w. PICK w : w = [k \in Kinds |-> "later"]
    OBVIOUS
  <2>s. PICK st : st = [k \in Kinds |-> FALSE]
    OBVIOUS
  <2>t. PICK to : to = [k \in Kinds |-> 0]
    OBVIOUS
  <2>2. w \in [Kinds -> {"later", "past", "none"}] /\ st \in [Kinds -> BOOLEAN] /\ to \in [Kinds -> 0..2]
    BY <2>w, <2>s, <2>t
  <2>3. NoTask = [at |-> "no", status |-> "open", done |-> FALSE, cancelled |-> FALSE, owner |-> None,
                  contact |-> None, type |-> 1, when |-> w, stamp |-> st, told |-> to, odd |-> {}]
    BY <2>w, <2>s, <2>t DEF NoTask
  <2>4. GoneTask \in Task /\ GoneTask.at = "gone" /\ GoneTask.told = to
    BY <2>1, <2>2, <2>3 DEF GoneTask, Task
  <2> QED  BY <2>t, <2>4
<1> QED  BY <1>1 DEF Becomes, Carried, TaskOK

LEMMA ReassignedIs ==
  ASSUME NEW row \in Task, TaskOK(row), NEW n \in Reassigned(row)
  PROVE  Becomes(row, n)
<1>1. PICK o \in Active : n = [row EXCEPT !.owner = o]
  BY DEF Reassigned
<1>2. /\ n \in Task /\ n.at = row.at /\ n.type = row.type /\ n.status = row.status
      /\ n.done = row.done /\ n.cancelled = row.cancelled /\ n.when = row.when
      /\ n.odd = row.odd /\ n.told = row.told /\ n.stamp = row.stamp
  BY <1>1, WorkAssumption DEF Task, Owners
<1>3. TaskOK(n)
  BY <1>2 DEF TaskOK
<1> QED  BY <1>2, <1>3 DEF Becomes, Carried

LEMMA SameIs ==
  ASSUME NEW row \in Task, TaskOK(row)  PROVE Becomes(row, row)
BY DEF Becomes, Carried

LEMMA AppliedIs ==
  ASSUME NEW row \in Task, TaskOK(row), row.at = "live", NEW act, NEW n \in Applied(row, act)
  PROVE  Becomes(row, n)
<1>1. \/ n = Closed(row, "completed") \/ n = Closed(row, "cancelled") \/ n = Edited(row, "due", "later")
      \/ n \in Reassigned(row) \/ n = GoneTask \/ n = row
  BY DEF Applied
<1>2. "due" \in Kinds
  BY DEF Kinds
<1> QED  BY <1>1, <1>2, ClosedIs, EditedIs, ReassignedIs, GoneIs, SameIs

(* A claimed notice. *)
LEMMA NotifiedIs ==
  ASSUME NEW row \in Task, TaskOK(row), NEW w \in Kinds, Claims(row, w), NEW odd,
         odd = IF row.status # "open" \/ row.when[w] # "past" THEN row.odd \cup {w} ELSE row.odd,
         NEW n, n = [row EXCEPT !.stamp[w] = TRUE, !.told[w] = @ + 1, !.odd = odd]
  PROVE  Becomes(row, n)
<1>1. row.told[w] = 0 /\ row.at = "live"
  BY DEF TaskOK, Claims
<1>2. /\ n.at = row.at /\ n.type = row.type /\ n.status = row.status
      /\ n.done = row.done /\ n.cancelled = row.cancelled /\ n.when = row.when /\ n.odd = odd
      /\ n.stamp = [row.stamp EXCEPT ![w] = TRUE] /\ n.told = [row.told EXCEPT ![w] = 0 + 1]
      /\ n.owner = row.owner /\ n.contact = row.contact
  BY <1>1 DEF Task
<1>3. n.stamp \in [Kinds -> BOOLEAN] /\ n.told \in [Kinds -> 0..2] /\ odd \subseteq row.odd \cup {w} /\ row.odd \subseteq odd
  BY <1>2 DEF Task
<1>4. n \in Task
  BY <1>2, <1>3 DEF Task, Kinds
<1>5. \A k \in Kinds : /\ n.stamp[k] = (k = w \/ row.stamp[k])
                       /\ n.told[k] = IF k = w THEN 1 ELSE row.told[k]
  <2>1. row.stamp \in [Kinds -> BOOLEAN] /\ row.told \in [Kinds -> 0..2]
    BY DEF Task
  <2>2. \A k \in Kinds : n.told[k] = IF k = w THEN 1 ELSE row.told[k]
    BY <1>2, <2>1
  <2>3. ASSUME NEW k \in Kinds  PROVE n.stamp[k] = (k = w \/ row.stamp[k])
    <3>1. row.stamp[k] \in BOOLEAN
      BY <2>1
    <3>2. PICK f : f = row.stamp /\ f \in [Kinds -> BOOLEAN]
      BY <2>1
    <3>3. PICK g : g = [f EXCEPT ![w] = TRUE] /\ g = n.stamp
      BY <1>2, <3>2
    <3>4. g[k] = IF k = w THEN TRUE ELSE f[k]
      BY <3>2, <3>3, Zenon
    <3> QED  BY <3>1, <3>2, <3>3, <3>4, Zenon
  <2> QED  BY <2>2, <2>3
<1>6. TaskOK(n)
  <2>1. "status" \notin Kinds
    BY DEF Kinds
  <2>2. n.at = "live" /\ "status" \notin n.odd =>
          n.done = (n.status = "completed") /\ n.cancelled = (n.status = "cancelled")
    BY <1>2, <1>3, <2>1 DEF TaskOK
  <2>3. \A k \in Kinds : n.told[k] = 0 \/ (n.told[k] = 1 /\ n.stamp[k])
    BY <1>5 DEF TaskOK
  <2>4. \A k \in Kinds : n.at = "live" /\ n.status = "open" /\ n.when[k] = "later" /\ n.stamp[k] => k \in n.odd
    BY <1>1, <1>2, <1>3, <1>5 DEF TaskOK
  <2> QED  BY <2>2, <2>3, <2>4 DEF TaskOK
<1> QED  BY <1>1, <1>2, <1>3, <1>4, <1>6 DEF Becomes, Carried

-----------------------------------------------------------------------------
(* Steps on tasks                                                             *)

LEMMA TaskRowsKept ==
  ASSUME TaskInv, \A t \in Tasks : Becomes(task[t], task'[t]),
         \A t \in Tasks : type[task[t].type].at = "live" => type'[task[t].type].at = "live",
         \A i \in Slots : jobs'[i].k = "untype" => jobs'[i] = jobs[i]
  PROVE  TaskInv'
<1> SUFFICES ASSUME NEW t \in Tasks  PROVE TaskOK(task'[t]) /\ Typed(task[t])'
  BY DEF TaskInv, TaskOK
<1>1. Typed(task[t]) /\ Becomes(task[t], task'[t])
  BY DEF TaskInv
<1>2. TaskOK(task'[t])
  BY <1>1 DEF Becomes
<1>3. ASSUME task'[t].at = "live", "type" \notin task'[t].odd
      PROVE  type'[task'[t].type].at = "live" /\ \A i \in Slots : jobs'[i].k = "untype" => jobs'[i].ty # task'[t].type
  <2>1. task[t].at = "live" /\ task'[t].type = task[t].type /\ "type" \notin task[t].odd
    BY <1>1, <1>3 DEF Becomes, Carried
  <2> QED  BY <1>1, <2>1 DEF Typed
<1> QED  BY <1>2, <1>3 DEF Typed

LEMMA TasksUntouched ==
  ASSUME TypeOK, TaskInv, task' = task, type' = type,
         \A i \in Slots : jobs'[i].k = "untype" => jobs'[i] = jobs[i]
  PROVE  TaskInv'
<1>1. \A t \in Tasks : Becomes(task[t], task'[t])
  <2>1. \A t \in Tasks : task[t] \in Task /\ TaskOK(task[t])
    BY DEF TypeOK, TaskInv
  <2> QED  BY <2>1, SameIs
<1> QED  BY <1>1, TaskRowsKept

(* One row changes. *)
LEMMA OneTask ==
  ASSUME TypeOK, TaskInv, NEW t \in Tasks, NEW row, Becomes(task[t], row), task' = [task EXCEPT ![t] = row],
         type' = type, \A i \in Slots : jobs'[i].k = "untype" => jobs'[i] = jobs[i]
  PROVE  task' \in [Tasks -> Task] /\ TaskInv'
<1>1. task \in [Tasks -> Task] /\ row \in Task
  BY DEF TypeOK, Becomes
<1>2. task' \in [Tasks -> Task]
  BY <1>1
<1>3. ASSUME NEW s \in Tasks  PROVE Becomes(task[s], task'[s])
  <2>1. CASE s = t
    BY <1>1, <2>1
  <2>2. CASE s # t
    <3>1. task'[s] = task[s] /\ task[s] \in Task /\ TaskOK(task[s])
      BY <1>1, <2>2 DEF TaskInv
    <3> QED  BY <3>1, SameIs
  <2> QED  BY <2>1, <2>2
<1> QED  BY <1>2, <1>3, TaskRowsKept

LEMMA InsertTaskStep ==
  ASSUME TypeOK, TaskInv, NEW i \in Slots, InsertTask(i)
  PROVE  task' \in [Tasks -> Task] /\ jobs' \in [Slots -> Job] /\ TaskInv'
<1> DEFINE j == jobs[i]
<1>1. PICK t \in Tasks : task' = [task EXCEPT ![t] =
         [NoTask EXCEPT !.at = "live", !.owner = j.owner, !.contact = j.contact,
            !.type = j.type, !.odd = IF Doomed(j.type) THEN {"type"} ELSE {}]]
  BY DEF InsertTask, Fresh
<1>2. j.k = "task" /\ jobs' = [jobs EXCEPT ![i] = Idle] /\ type' = type
  BY DEF InsertTask, Ends
<1>3. jobs \in [Slots -> Job] /\ task \in [Tasks -> Task]
  BY DEF TypeOK
<1>4. j.type \in Types /\ j.owner \in Owners /\ j.contact \in Contacts
  <2>1. j \in TaskJob
    BY <1>2, <1>3, JobIs
  <2> QED  BY <2>1 DEF TaskJob, Owners
<1>5. PICK row : row = [NoTask EXCEPT !.at = "live", !.owner = j.owner, !.contact = j.contact,
                         !.type = j.type, !.odd = IF Doomed(j.type) THEN {"type"} ELSE {}]
  OBVIOUS
<1>6. /\ row \in Task /\ row.at = "live" /\ row.status = "open" /\ row.done = FALSE /\ row.cancelled = FALSE
      /\ row.type = j.type /\ row.odd = (IF Doomed(j.type) THEN {"type"} ELSE {})
      /\ \A k \in Kinds : row.told[k] = 0 /\ row.stamp[k] = FALSE
  <2>w. PICK w : w = [k \in Kinds |-> "later"]
    OBVIOUS
  <2>s. PICK st : st = [k \in Kinds |-> FALSE]
    OBVIOUS
  <2>t. PICK to : to = [k \in Kinds |-> 0]
    OBVIOUS
  <2>o. PICK od : od = IF Doomed(j.type) THEN {"type"} ELSE {}
    OBVIOUS
  <2>1. w \in [Kinds -> {"later", "past", "none"}] /\ st \in [Kinds -> BOOLEAN] /\ to \in [Kinds -> 0..2]
    BY <2>w, <2>s, <2>t
  <2>2. row = [at |-> "live", status |-> "open", done |-> FALSE, cancelled |-> FALSE, owner |-> j.owner,
               contact |-> j.contact, type |-> j.type, when |-> w, stamp |-> st, told |-> to, odd |-> od]
    BY <1>5, <2>w, <2>s, <2>t, <2>o DEF NoTask
  <2>3. od \in SUBSET {"status", "type", "remind", "due"}
    BY <2>o
  <2> HIDE DEF j
  <2>4. row \in Task
    BY <1>4, <2>1, <2>2, <2>3 DEF Task
  <2>5. \A k \in Kinds : st[k] = FALSE /\ to[k] = 0
    BY <2>s, <2>t
  <2> QED  BY <2>2, <2>4, <2>5, <2>o
<1> HIDE DEF j
<1>7. TaskOK(row)
  BY <1>6 DEF TaskOK
<1>8. task' = [task EXCEPT ![t] = row] /\ task' \in [Tasks -> Task] /\ jobs' \in [Slots -> Job]
  BY <1>1, <1>2, <1>3, <1>5, <1>6 DEF Job
<1>9. ASSUME NEW i2 \in Slots, jobs'[i2].k = "untype"  PROVE jobs'[i2] = jobs[i2]
  <2>1. i2 # i
    BY <1>2, <1>3, <1>9 DEF Idle
  <2> QED  BY <1>2, <1>3, <2>1
<1>10. ASSUME NEW s \in Tasks  PROVE TaskOK(task'[s]) /\ Typed(task[s])'
  <2>1. CASE s = t
    <3>1. task'[s] = row
      BY <1>3, <1>8, <2>1
    <3>2. ASSUME "type" \notin row.odd
          PROVE  type[row.type].at = "live" /\ \A i2 \in Slots : jobs[i2].k = "untype" => jobs[i2].ty # row.type
      <4>1. ~Doomed(j.type)
        BY <1>6, <3>2
      <4> QED  BY <1>6, <4>1 DEF Doomed
    <3>3. Typed(task[s])'
      BY <1>2, <1>9, <3>1, <3>2 DEF Typed
    <3> QED  BY <1>7, <3>1, <3>3
  <2>2. CASE s # t
    <3>1. task'[s] = task[s] /\ TaskOK(task[s]) /\ Typed(task[s])
      BY <1>3, <1>8, <2>2 DEF TaskInv
    <3>2. Typed(task[s])'
      BY <1>2, <1>9, <3>1 DEF Typed
    <3> QED  BY <3>1, <3>2
  <2> QED  BY <2>1, <2>2
<1> QED  BY <1>8, <1>10 DEF TaskInv, TaskOK

LEMMA WriteTaskStep ==
  ASSUME TypeOK, TaskInv, NEW i \in Slots, WriteTask(i)
  PROVE  task' \in [Tasks -> Task] /\ jobs' \in [Slots -> Job] /\ TaskInv'
<1> DEFINE j == jobs[i]
           written(r) == IF r.at # "live" THEN r
                         ELSE CASE j.k = "close" -> Closed(r, j.to)
                                [] j.k = "reopen" -> Reopened(r)
                                [] j.k = "edit" -> Edited(r, j.what, j.at)
<1>1. /\ jobs \in [Slots -> Job] /\ task \in [Tasks -> Task] /\ j.k \in {"close", "reopen", "edit"}
      /\ jobs' = [jobs EXCEPT ![i] = Idle] /\ type' = type
      /\ task' = [task EXCEPT ![j.t] = written(@)]
  BY DEF WriteTask, Ends, TypeOK
<1>2. /\ j.t \in Tasks /\ (j.k = "close" => j.to \in {"completed", "cancelled"})
      /\ (j.k = "edit" => j.what \in Kinds /\ j.at \in {"later", "none"})
  <2>1. (j.k = "close" => j \in CloseJob) /\ (j.k = "reopen" => j \in ReopenJob) /\ (j.k = "edit" => j \in EditJob)
    BY <1>1, JobIs
  <2> HIDE DEF j
  <2> QED  BY <1>1, <2>1 DEF CloseJob, ReopenJob, EditJob
<1>3. PICK row : row = written(task[j.t])
  OBVIOUS
<1>4. Becomes(task[j.t], row)
  <2>1. task[j.t] \in Task /\ TaskOK(task[j.t])
    BY <1>1, <1>2 DEF TaskInv
  <2>2. CASE task[j.t].at # "live"
    BY <1>3, <2>1, <2>2, SameIs
  <2>3. CASE task[j.t].at = "live" /\ j.k = "close"
    <3>1. row = Closed(task[j.t], j.to)
      BY <1>3, <2>3
    <3> QED  BY <1>2, <2>1, <2>3, <3>1, ClosedIs
  <2>4. CASE task[j.t].at = "live" /\ j.k = "reopen"
    <3>1. row = Reopened(task[j.t])
      BY <1>3, <2>4
    <3> QED  BY <2>1, <2>4, <3>1, ReopenedIs
  <2>5. CASE task[j.t].at = "live" /\ j.k = "edit"
    <3>1. row = Edited(task[j.t], j.what, j.at)
      BY <1>3, <2>5
    <3> QED  BY <1>2, <2>1, <2>5, <3>1, EditedIs
  <2> QED  BY <1>1, <2>2, <2>3, <2>4, <2>5
<1>5. task' = [task EXCEPT ![j.t] = row]
  BY <1>1, <1>2, <1>3
<1>6. jobs' \in [Slots -> Job] /\ \A i2 \in Slots : jobs'[i2].k = "untype" => jobs'[i2] = jobs[i2]
  BY <1>1 DEF Idle, Job
<1> HIDE DEF j, written
<1> QED  BY <1>1, <1>2, <1>4, <1>5, <1>6, OneTask

LEMMA BulkTaskStep ==
  ASSUME TypeOK, TaskInv, NEW i \in Slots, BulkStep(i)
  PROVE  task' \in [Tasks -> Task] /\ jobs' \in [Slots -> Job] /\ TaskInv'
<1> DEFINE j == jobs[i]
<1>1. j.k = "bulk" /\ jobs \in [Slots -> Job] /\ task \in [Tasks -> Task] /\ type' = type
  BY DEF BulkStep, TypeOK
<1>2. j \in BulkJob
  BY <1>1, JobIs
<1>3. PICK t \in j.todo :
        /\ \E row \in IF CanSeeTask(j.u, t) THEN Applied(task[t], j.act) ELSE {task[t]} :
             task' = [task EXCEPT ![t] = row]
        /\ jobs' = [jobs EXCEPT ![i] = IF j.todo = {t} THEN Idle ELSE [j EXCEPT !.todo = @ \ {t}]]
  BY DEF BulkStep
<1> HIDE DEF j
<1>4. PICK row : /\ row \in IF CanSeeTask(j.u, t) THEN Applied(task[t], j.act) ELSE {task[t]}
                 /\ task' = [task EXCEPT ![t] = row]
  BY <1>3
<1>5. t \in Tasks /\ task[t] \in Task /\ TaskOK(task[t])
  <2>1. t \in Tasks
    BY <1>2, <1>3 DEF BulkJob
  <2> QED  BY <1>1, <2>1 DEF TaskInv
<1>6. Becomes(task[t], row)
  <2>1. CASE CanSeeTask(j.u, t)
    <3>1. task[t].at = "live" /\ row \in Applied(task[t], j.act)
      BY <1>4, <2>1 DEF CanSeeTask
    <3> QED  BY <1>5, <3>1, AppliedIs
  <2>2. CASE ~CanSeeTask(j.u, t)
    BY <1>4, <1>5, <2>2, SameIs
  <2> QED  BY <2>1, <2>2
<1>7. PICK n : n = IF j.todo = {t} THEN Idle ELSE [j EXCEPT !.todo = j.todo \ {t}]
  OBVIOUS
<1>8. n \in Job /\ n.k # "untype"
  <2>1. CASE j.todo = {t}
    BY <1>7, <2>1 DEF Job, Idle
  <2>2. CASE j.todo # {t}
    <3>1. n \in BulkJob /\ n.k = "bulk"
      BY <1>2, <1>7, <2>2 DEF BulkJob
    <3> QED  BY <3>1 DEF Job
  <2> QED  BY <2>1, <2>2
<1>9. jobs' = [jobs EXCEPT ![i] = n]
  BY <1>3, <1>7
<1>10. jobs' \in [Slots -> Job] /\ \A i2 \in Slots : jobs'[i2].k = "untype" => jobs'[i2] = jobs[i2]
  BY <1>1, <1>8, <1>9
<1> QED  BY <1>1, <1>4, <1>5, <1>6, <1>10, OneTask

LEMMA NotifyTaskStep ==
  ASSUME TypeOK, TaskInv, NEW i \in Slots, NotifyTask(i)
  PROVE  task' \in [Tasks -> Task] /\ jobs' \in [Slots -> Job] /\ TaskInv'
<1> DEFINE j == jobs[i]
           moved(t) == task[t].status # "open" \/ task[t].when[j.what] # "past"
<1>1. j.k = "notify" /\ jobs \in [Slots -> Job] /\ task \in [Tasks -> Task] /\ type' = type
  BY DEF NotifyTask, TypeOK
<1>2. j \in NotifyJob
  BY <1>1, JobIs
<1>3. PICK t \in j.batch :
        /\ task' = IF ~Claims(task[t], j.what) THEN task
                   ELSE [task EXCEPT ![t].stamp[j.what] = TRUE, ![t].told[j.what] = @ + 1,
                                     ![t].odd = IF moved(t) THEN @ \cup {j.what} ELSE @]
        /\ jobs' = [jobs EXCEPT ![i] = IF j.batch = {t} THEN Idle ELSE [j EXCEPT !.batch = @ \ {t}]]
  BY DEF NotifyTask
<1> HIDE DEF j
<1>5. t \in Tasks /\ task[t] \in Task /\ TaskOK(task[t]) /\ j.what \in Kinds
  <2>1. t \in Tasks /\ j.what \in Kinds
    BY <1>2, <1>3 DEF NotifyJob
  <2> QED  BY <1>1, <2>1 DEF TaskInv
<1>4. PICK odd : odd = IF moved(t) THEN task[t].odd \cup {j.what} ELSE task[t].odd
  OBVIOUS
<1>6. \E row : Becomes(task[t], row) /\ task' = [task EXCEPT ![t] = row]
  <2>1. CASE ~Claims(task[t], j.what)
    <3>1. task' = [task EXCEPT ![t] = task[t]]
      BY <1>1, <1>3, <2>1
    <3> QED  BY <1>5, <3>1, SameIs
  <2>2. CASE Claims(task[t], j.what)
    <3>1. PICK row : row = [task[t] EXCEPT !.stamp[j.what] = TRUE, !.told[j.what] = @ + 1, !.odd = odd]
      OBVIOUS
    <3>2. Becomes(task[t], row)
      BY <1>4, <1>5, <2>2, <3>1, NotifiedIs
    <3>3. task' = [task EXCEPT ![t] = row]
      <4> HIDE DEF moved
      <4>1. task' = [task EXCEPT ![t].stamp[j.what] = TRUE, ![t].told[j.what] = @ + 1,
                                 ![t].odd = IF moved(t) THEN @ \cup {j.what} ELSE @]
        BY <1>3, <2>2
      <4> QED  BY <1>1, <1>4, <1>5, <3>1, <4>1 DEF Task
    <3> QED  BY <3>2, <3>3
  <2> QED  BY <2>1, <2>2
<1>7. PICK n : n = IF j.batch = {t} THEN Idle ELSE [j EXCEPT !.batch = j.batch \ {t}]
  OBVIOUS
<1>8. n \in Job /\ n.k # "untype"
  <2>1. CASE j.batch = {t}
    BY <1>7, <2>1 DEF Job, Idle
  <2>2. CASE j.batch # {t}
    <3>1. n \in NotifyJob /\ n.k = "notify"
      BY <1>2, <1>7, <2>2 DEF NotifyJob
    <3> QED  BY <3>1 DEF Job
  <2> QED  BY <2>1, <2>2
<1>9. jobs' = [jobs EXCEPT ![i] = n]
  BY <1>3, <1>7
<1>10. jobs' \in [Slots -> Job] /\ \A i2 \in Slots : jobs'[i2].k = "untype" => jobs'[i2] = jobs[i2]
  BY <1>1, <1>8, <1>9
<1> QED  BY <1>1, <1>5, <1>6, <1>10, OneTask

LEMMA SaveTaskTypeStep ==
  ASSUME TypeOK, TaskInv, NEW i \in Slots, SaveTaskType(i)
  PROVE  type' \in [Types -> [at: {"no", "live", "gone"}, system: BOOLEAN, archived: BOOLEAN]] /\ TaskInv'
<1> DEFINE j == jobs[i]
<1>1. /\ jobs \in [Slots -> Job] /\ j.k = "type" /\ jobs' = [jobs EXCEPT ![i] = Idle] /\ task' = task
      /\ type' = [type EXCEPT ![j.ty].archived = j.archived, ![j.ty].at = "live"]
      /\ type \in [Types -> [at: {"no", "live", "gone"}, system: BOOLEAN, archived: BOOLEAN]]
  BY DEF SaveTaskType, Ends, TypeOK
<1>2. j.ty \in Types /\ j.archived \in BOOLEAN
  <2>1. j \in TypeJob
    BY <1>1, JobIs
  <2> HIDE DEF j
  <2> QED  BY <2>1 DEF TypeJob
<1>3. \A i2 \in Slots : jobs'[i2].k = "untype" => jobs'[i2] = jobs[i2]
  BY <1>1 DEF Idle
<1> HIDE DEF j
<1>4. type' \in [Types -> [at: {"no", "live", "gone"}, system: BOOLEAN, archived: BOOLEAN]]
  BY <1>1, <1>2
<1>5. \A y \in Types : type[y].at = "live" => type'[y].at = "live"
  BY <1>1, <1>2
<1>6. \A t \in Tasks : task[t].type \in Types /\ Becomes(task[t], task'[t])
  <2>1. \A t \in Tasks : task[t] \in Task /\ TaskOK(task[t])
    BY DEF TypeOK, TaskInv
  <2> QED  BY <1>1, <2>1, SameIs DEF Task
<1> QED  BY <1>3, <1>4, <1>5, <1>6, TaskRowsKept

LEMMA CreateTaskTypeStep ==
  ASSUME TypeOK, TaskInv, CreateTaskType
  PROVE  type' \in [Types -> [at: {"no", "live", "gone"}, system: BOOLEAN, archived: BOOLEAN]] /\ TaskInv'
<1>1. PICK y \in Types : type' = [type EXCEPT ![y] = [at |-> "live", system |-> FALSE, archived |-> FALSE]]
  BY DEF CreateTaskType, Fresh
<1>2. /\ task' = task /\ jobs' = jobs
      /\ type \in [Types -> [at: {"no", "live", "gone"}, system: BOOLEAN, archived: BOOLEAN]]
  BY DEF CreateTaskType, TypeOK
<1>3. type' \in [Types -> [at: {"no", "live", "gone"}, system: BOOLEAN, archived: BOOLEAN]]
  BY <1>1, <1>2
<1>4. \A x \in Types : type[x].at = "live" => type'[x].at = "live"
  BY <1>1, <1>2
<1>5. \A t \in Tasks : task[t].type \in Types /\ Becomes(task[t], task'[t])
  <2>1. \A t \in Tasks : task[t] \in Task /\ TaskOK(task[t])
    BY DEF TypeOK, TaskInv
  <2> QED  BY <1>2, <2>1, SameIs DEF Task
<1> QED  BY <1>2, <1>3, <1>4, <1>5, TaskRowsKept

LEMMA RemoveTaskTypeStep ==
  ASSUME TypeOK, TaskInv, NEW i \in Slots, RemoveTaskType(i)
  PROVE  type' \in [Types -> [at: {"no", "live", "gone"}, system: BOOLEAN, archived: BOOLEAN]] /\ TaskInv'
<1> DEFINE j == jobs[i]
<1>1. /\ jobs \in [Slots -> Job] /\ j.k = "untype" /\ jobs' = [jobs EXCEPT ![i] = Idle] /\ task' = task
      /\ type' = [type EXCEPT ![j.ty].at = "gone"]
      /\ type \in [Types -> [at: {"no", "live", "gone"}, system: BOOLEAN, archived: BOOLEAN]]
  BY DEF RemoveTaskType, Ends, TypeOK
<1>2. j.ty \in Types
  <2>1. j \in UntypeJob
    BY <1>1, JobIs
  <2> HIDE DEF j
  <2> QED  BY <2>1 DEF UntypeJob
<1>3. \A i2 \in Slots : jobs'[i2].k = "untype" => jobs'[i2] = jobs[i2]
  BY <1>1 DEF Idle
<1>4. type' \in [Types -> [at: {"no", "live", "gone"}, system: BOOLEAN, archived: BOOLEAN]]
  BY <1>1, <1>2
<1>5. \A y \in Types : y # j.ty => type'[y] = type[y]
  BY <1>1, <1>2
<1>6. ASSUME NEW t \in Tasks  PROVE TaskOK(task'[t]) /\ Typed(task[t])'
  <2>1. TaskOK(task[t]) /\ Typed(task[t]) /\ task[t].type \in Types
    BY DEF TaskInv, TypeOK, Task
  <2>2. task[t].at = "live" /\ "type" \notin task[t].odd => task[t].type # j.ty
    BY <1>1, <2>1 DEF Typed
  <2>3. Typed(task[t])'
    BY <1>1, <1>3, <1>5, <2>1, <2>2 DEF Typed
  <2> QED  BY <1>1, <2>1, <2>3
<1> QED  BY <1>4, <1>6 DEF TaskInv, TaskOK

LEMMA LapseStep ==
  ASSUME TypeOK, TaskInv, NEW t \in Tasks, NEW k \in Kinds, Lapse(t, k)
  PROVE  task' \in [Tasks -> Task] /\ TaskInv'
<1>1. /\ task \in [Tasks -> Task] /\ task' = [task EXCEPT ![t].when[k] = "past"] /\ jobs' = jobs /\ type' = type
  BY DEF Lapse, TypeOK
<1>2. PICK row : row = [task[t] EXCEPT !.when[k] = "past"]
  OBVIOUS
<1>3. task' = [task EXCEPT ![t] = row]
  BY <1>1, <1>2
<1>4. task[t] \in Task /\ TaskOK(task[t])
  BY <1>1 DEF TaskInv
<1>5. /\ row.at = task[t].at /\ row.type = task[t].type /\ row.status = task[t].status
      /\ row.done = task[t].done /\ row.cancelled = task[t].cancelled /\ row.odd = task[t].odd
      /\ row.told = task[t].told /\ row.stamp = task[t].stamp /\ row \in Task
      /\ \A x \in Kinds : row.when[x] = IF x = k THEN "past" ELSE task[t].when[x]
  BY <1>2, <1>4 DEF Task
<1>6. TaskOK(row)
  BY <1>4, <1>5 DEF TaskOK
<1>7. Becomes(task[t], row)
  BY <1>5, <1>6 DEF Becomes, Carried
<1> QED  BY <1>1, <1>3, <1>7, OneTask

-----------------------------------------------------------------------------
(* Steps on the board                                                         *)

BoardKinds == {"insert", "move", "save", "sync", "remove"}

(* The board stays as it is, and nobody who was about to bring deals in line  *)
(* with their stage goes away.                                                *)
LEMMA BoardUntouched ==
  ASSUME BoardInv, pipe' = pipe, stage' = stage, deal' = deal,
         \A i \in Slots : \/ jobs'[i] = jobs[i]
                          \/ jobs[i].k # "sync" /\ JobPlaced(jobs'[i]) /\ MoveFits(jobs'[i])
  PROVE  BoardInv'
<1>1. StagesInOrder' /\ DealsPlaced'
  BY DEF BoardInv, StagesInOrder, DealsPlaced, Made
<1>2. ASSUME NEW i \in Slots  PROVE JobPlaced(jobs[i])' /\ MoveFits(jobs[i])'
  <2>1. JobPlaced(jobs'[i]) /\ MoveFits(jobs'[i])
    BY DEF BoardInv
  <2> QED  BY <2>1 DEF JobPlaced, MoveFits, Made, Less
<1>3. ASSUME NEW d \in Deals  PROVE Agrees(d)'
  <2>1. Agrees(d)
    BY DEF BoardInv
  <2>2. (\E i \in Slots : jobs[i].k = "sync" /\ jobs[i].stage = deal[d].stage) =>
          (\E i \in Slots : jobs'[i].k = "sync" /\ jobs'[i].stage = deal[d].stage)
    OBVIOUS
  <2> QED  BY <2>1, <2>2 DEF Agrees
<1> QED  BY <1>1, <1>2, <1>3 DEF BoardInv

LEMMA OtherJob ==
  ASSUME NEW j, j.k \notin BoardKinds  PROVE JobPlaced(j) /\ MoveFits(j)
BY DEF JobPlaced, MoveFits, BoardKinds

(* One place changes hands, and it is not a matter of the board. *)
LEMMA BoardAside ==
  ASSUME BoardInv, pipe' = pipe, stage' = stage, deal' = deal, NEW i \in Slots, NEW n, DOMAIN jobs = Slots,
         jobs[i].k # "sync", n.k \notin BoardKinds, jobs' = [jobs EXCEPT ![i] = n]
  PROVE  BoardInv'
<1>1. ASSUME NEW x \in Slots
      PROVE  \/ jobs'[x] = jobs[x]
             \/ jobs[x].k # "sync" /\ JobPlaced(jobs'[x]) /\ MoveFits(jobs'[x])
  BY OtherJob
<1> QED  BY <1>1, BoardUntouched

(* A request begins. *)
LEMMA BeginStep ==
  ASSUME WorkIInv, NEW job \in Job, Starts(job), JobPlaced(job), MoveFits(job), job.k # "untype",
         contact' = contact, pipe' = pipe, stage' = stage, deal' = deal, type' = type, task' = task,
         pager' = pager, ops' \in 0..MaxOps
  PROVE  WorkIInv'
<1>1. TypeOK /\ BoardInv /\ TaskInv /\ WalkOK /\ jobs \in [Slots -> Job]
  BY DEF WorkIInv, TypeOK
<1>2. jobs' \in [Slots -> Job]
  BY <1>1, StartsIs
<1>3. PICK i \in Slots : jobs[i] = Idle /\ jobs' = [jobs EXCEPT ![i] = job]
  BY <1>1, StartsIs
<1>4. \A x \in Slots : jobs'[x] = IF x = i THEN job ELSE jobs[x]
  BY <1>1, <1>3
<1>5. TypeOK'
  BY <1>1, <1>2 DEF TypeOK
<1>6. BoardInv'
  <2>1. \A x \in Slots : \/ jobs'[x] = jobs[x]
                         \/ jobs[x].k # "sync" /\ JobPlaced(jobs'[x]) /\ MoveFits(jobs'[x])
    BY <1>3, <1>4 DEF Idle
  <2> QED  BY <1>1, <2>1, BoardUntouched
<1>7. TaskInv'
  BY <1>1, <1>4, TasksUntouched
<1>8. WalkOK'
  BY <1>1 DEF WalkOK, Less
<1> QED  BY <1>5, <1>6, <1>7, <1>8 DEF WorkIInv

LEMMA RequestIs ==
  ASSUME TypeOK, Request  PROVE ops' \in 0..MaxOps
BY WorkAssumption DEF TypeOK, Request

LEMMA CreateStep ==
  ASSUME WorkIInv, NEW c \in Contacts, NEW o \in Owners, NEW p \in Pipes \cup {0}, NEW s \in Stages \cup {0},
         Request, Create(c, o, p, s)
  PROVE  WorkIInv'
<1>1. TypeOK
  BY DEF WorkIInv
<1>p. PICK p2 \in ResolvePipeline(p) : \E s2 \in ResolveStage(p2, s) :
        Starts([k |-> "insert", stage |-> s2, type |-> stage[s2].type,
                rank |-> RankBetween(LastRank(s2), <<>>), contact |-> c,
                owner |-> IF o = None THEN contact[c].agent ELSE o])
  BY DEF Create
<1>2. PICK s2 \in ResolveStage(p2, s) :
        Starts([k |-> "insert", stage |-> s2, type |-> stage[s2].type,
                rank |-> RankBetween(LastRank(s2), <<>>), contact |-> c,
                owner |-> IF o = None THEN contact[c].agent ELSE o])
  BY <1>p
<1>3. s2 \in Stages /\ Made(s2) /\ stage[s2].type \in StageTypeNames
  <2>1. s2 \in Stages /\ stage[s2].at = "live"
    BY <1>2 DEF ResolveStage, OpenStages
  <2> QED  BY <1>1, <2>1 DEF Made, TypeOK
<1>4. PICK r : r = RankBetween(LastRank(s2), <<>>)
  OBVIOUS
<1>5. r \in Ranks
  BY <1>1, <1>4, LastRankIs, RankTypes, RankIs DEF TypeOK
<1>6. PICK w : w = IF o = None THEN contact[c].agent ELSE o
  OBVIOUS
<1>7. w \in Owners
  BY <1>1, <1>6 DEF TypeOK
<1>8. PICK job : job = [k |-> "insert", stage |-> s2, type |-> stage[s2].type, rank |-> r, contact |-> c, owner |-> w]
  OBVIOUS
<1>9. job \in Job /\ job.k = "insert" /\ job.stage = s2
  <2>1. job \in InsertJob
    BY <1>3, <1>5, <1>7, <1>8 DEF InsertJob
  <2> QED  BY <1>8, <2>1 DEF Job
<1>10. Starts(job) /\ JobPlaced(job) /\ MoveFits(job)
  BY <1>2, <1>3, <1>4, <1>6, <1>8, <1>9 DEF JobPlaced, MoveFits
<1>11. /\ contact' = contact /\ pipe' = pipe /\ stage' = stage /\ deal' = deal /\ type' = type /\ task' = task
       /\ pager' = pager
  BY DEF Create
<1> QED  BY <1>1, <1>9, <1>10, <1>11, RequestIs, BeginStep

LEMMA MoveStep ==
  ASSUME WorkIInv, NEW d \in Deals, NEW s \in Stages, NEW after \in Deals \cup {0}, NEW before \in Deals \cup {0},
         Request, Move(d, s, after, before)
  PROVE  WorkIInv'
<1>1. TypeOK /\ deal \in [Deals -> Deal]
  BY DEF WorkIInv, TypeOK
<1>2. PICK lo, hi : <<lo, hi>> = RankFor(d, s, after, before)
  BY DEF RankFor
<1>3. lo \in Ranks /\ hi \in Ranks
  <2>1. \A n \in Deals \cup {0} : RankOf(n, d) \in Ranks
    BY <1>1, RankTypes, AboveOrder DEF RankOf
  <2>2. LastRank(s) \in Ranks /\ <<>> \in Ranks
    BY <1>1, LastRankIs, RankTypes
  <2> QED  BY <1>2, <2>1, <2>2 DEF RankFor
<1>4. PICK r : r = RankBetween(lo, hi)
  OBVIOUS
<1>5. r \in Ranks /\ Less(lo, r) /\ (hi # <<>> /\ Less(lo, hi) => Less(r, hi))
  BY <1>3, <1>4, RankIs
<1>6. PICK job : job = [k |-> "move", d |-> d, stage |-> s, type |-> stage[s].type, lo |-> lo, hi |-> hi, rank |-> r]
  OBVIOUS
<1>7. Made(s) /\ stage[s].type \in StageTypeNames
  BY <1>1 DEF Move, Made, TypeOK
<1>8. job \in Job /\ job.k = "move" /\ job.stage = s /\ job.lo = lo /\ job.hi = hi /\ job.rank = r
  <2>1. job \in MoveJob
    BY <1>3, <1>5, <1>6, <1>7 DEF MoveJob
  <2> QED  BY <1>6, <2>1 DEF Job
<1>9. JobPlaced(job) /\ MoveFits(job)
  BY <1>5, <1>7, <1>8 DEF JobPlaced, MoveFits
<1>10. Starts(job)
  <2>1. RankFor(d, s, after, before)[1] = lo /\ RankFor(d, s, after, before)[2] = hi
    BY <1>2
  <2> QED  BY <1>4, <1>6, <2>1 DEF Move
<1>11. /\ contact' = contact /\ pipe' = pipe /\ stage' = stage /\ deal' = deal /\ type' = type /\ task' = task
       /\ pager' = pager
  BY DEF Move
<1> QED  BY <1>1, <1>8, <1>9, <1>10, <1>11, RequestIs, BeginStep

LEMMA StageBeginSteps ==
  ASSUME WorkIInv, NEW s \in Stages, HandleUpdateStage(s) \/ HandleDeleteStage(s)
  PROVE  WorkIInv'
<1>1. TypeOK /\ stage \in [Stages -> [at: {"no", "live", "gone"}, pipe: Pipes, type: StageTypeNames]] /\ 0 \notin Stages
  BY DEF WorkIInv, TypeOK, Stages
<1>2. Request
  BY DEF HandleUpdateStage, HandleDeleteStage
<1>3. CASE HandleUpdateStage(s)
  <2>1. PICK t \in StageTypeNames : UpdateStage(s, t)
    BY <1>3 DEF HandleUpdateStage, StageTypeNames
  <2>2. PICK job : job = [k |-> "save", stage |-> s, type |-> t]
    OBVIOUS
  <2>3. job \in StageJob /\ job.k = "save" /\ job.stage = s /\ Made(s)
    BY <2>1, <2>2 DEF StageJob, UpdateStage, Made
  <2>4. job \in Job /\ JobPlaced(job) /\ MoveFits(job)
    BY <2>3 DEF Job, JobPlaced, MoveFits
  <2>5. /\ contact' = contact /\ pipe' = pipe /\ stage' = stage /\ deal' = deal /\ type' = type /\ task' = task
        /\ pager' = pager /\ Starts(job)
    BY <2>1, <2>2 DEF UpdateStage
  <2> QED  BY <1>1, <1>2, <2>3, <2>4, <2>5, RequestIs, BeginStep
<1>4. CASE HandleDeleteStage(s)
  <2>1. PICK to \in Stages \cup {0} : DeleteStage(s, to)
    BY <1>4 DEF HandleDeleteStage
  <2>2. PICK ty : ty = IF to = 0 THEN "open" ELSE stage[to].type
    OBVIOUS
  <2>3. PICK job : job = [k |-> "remove", stage |-> s, to |-> to, was |-> stage[s].type, type |-> ty]
    OBVIOUS
  <2>4. ty \in StageTypeNames /\ stage[s].type \in StageTypeNames
    BY <1>1, <2>2 DEF StageTypeNames
  <2>5. job \in RemoveJob /\ job.k = "remove" /\ job.stage = s /\ job.to = to
    BY <2>3, <2>4 DEF RemoveJob
  <2>6. Made(s) /\ (to # 0 => Made(to) /\ to # s)
    BY <2>1 DEF DeleteStage, Made
  <2>7. job \in Job /\ JobPlaced(job) /\ MoveFits(job)
    BY <2>5, <2>6 DEF Job, JobPlaced, MoveFits
  <2>8. /\ contact' = contact /\ pipe' = pipe /\ stage' = stage /\ deal' = deal /\ type' = type /\ task' = task
        /\ pager' = pager /\ Starts(job)
    BY <2>1, <2>2, <2>3 DEF DeleteStage
  <2> QED  BY <1>1, <1>2, <2>5, <2>7, <2>8, RequestIs, BeginStep
<1> QED  BY <1>3, <1>4

(* A request about tasks begins, other than the removal of a type. *)
LEMMA TaskBegin ==
  ASSUME WorkIInv, NEW job \in Job, Starts(job), job.k \notin BoardKinds, job.k # "untype",
         UNCHANGED <<contact, pipe, stage, deal, type, task, pager>>, ops' \in 0..MaxOps
  PROVE  WorkIInv'
BY OtherJob, BeginStep

LEMMA CreateTaskForStep ==
  ASSUME WorkIInv, NEW c \in Contacts, NEW y \in Types, NEW given \in Owners, NEW u \in Users,
         Request, CreateTaskFor(c, y, given, u)
  PROVE  WorkIInv'
<1>1. TypeOK
  BY DEF WorkIInv
<1>2. PICK o \in ResolveOwner(given, c, u) : Starts([k |-> "task", type |-> y, owner |-> o, contact |-> c])
  BY DEF CreateTaskFor
<1>3. o \in Users
  BY <1>2, WorkAssumption DEF ResolveOwner
<1>4. PICK job : job = [k |-> "task", type |-> y, owner |-> o, contact |-> c]
  OBVIOUS
<1>5. job \in TaskJob /\ job.k = "task" /\ Starts(job)
  BY <1>2, <1>3, <1>4 DEF TaskJob
<1>6. job \in Job /\ job.k \notin BoardKinds /\ job.k # "untype"
  BY <1>5 DEF Job, BoardKinds
<1>7. UNCHANGED <<contact, pipe, stage, deal, type, task, pager>>
  BY DEF CreateTaskFor
<1> QED  BY <1>1, <1>5, <1>6, <1>7, RequestIs, TaskBegin

LEMMA TaskBeginSteps ==
  ASSUME WorkIInv, NEW u \in Users, NEW t \in Tasks,
         CloseTask(u, t, "completed") \/ CloseTask(u, t, "cancelled") \/ ReopenTask(u, t) \/ UpdateTask(u, t)
  PROVE  WorkIInv'
<1>1. TypeOK /\ Request /\ UNCHANGED <<contact, pipe, stage, deal, type, task, pager>>
  BY DEF WorkIInv, CloseTask, ReopenTask, UpdateTask
<1>2. \E job \in CloseJob \cup ReopenJob \cup EditJob : Starts(job)
  <2>1. ASSUME NEW to \in {"completed", "cancelled"}, CloseTask(u, t, to)  PROVE \E job \in CloseJob : Starts(job)
    <3>1. [k |-> "close", t |-> t, to |-> to] \in CloseJob
      BY DEF CloseJob
    <3> QED  BY <2>1, <3>1 DEF CloseTask
  <2>2. CASE ReopenTask(u, t)
    <3>1. [k |-> "reopen", t |-> t] \in ReopenJob
      BY DEF ReopenJob
    <3> QED  BY <2>2, <3>1 DEF ReopenTask
  <2>3. CASE UpdateTask(u, t)
    <3>1. PICK e \in {<<"due", "later">>, <<"remind", "later">>, <<"remind", "none">>} :
            Starts([k |-> "edit", t |-> t, what |-> e[1], at |-> e[2]])
      BY <2>3 DEF UpdateTask
    <3>2. e[1] \in Kinds /\ e[2] \in {"later", "none"}
      BY <3>1 DEF Kinds
    <3>3. [k |-> "edit", t |-> t, what |-> e[1], at |-> e[2]] \in EditJob
      BY <3>2 DEF EditJob
    <3> QED  BY <3>1, <3>3
  <2> QED  BY <2>1, <2>2, <2>3
<1>3. PICK job \in CloseJob \cup ReopenJob \cup EditJob : Starts(job)
  BY <1>2
<1>4. job \in Job /\ job.k \in {"close", "reopen", "edit"}
  <2>1. (\A x \in CloseJob : x.k = "close") /\ (\A x \in ReopenJob : x.k = "reopen") /\ (\A x \in EditJob : x.k = "edit")
    BY DEF CloseJob, ReopenJob, EditJob
  <2> QED  BY <1>3, <2>1 DEF Job
<1>5. job.k \notin BoardKinds /\ job.k # "untype"
  BY <1>4 DEF BoardKinds
<1> QED  BY <1>1, <1>3, <1>4, <1>5, RequestIs, TaskBegin

LEMMA OtherBeginSteps ==
  ASSUME WorkIInv,
         \/ \E u \in Users, ts \in SUBSET Tasks,
               act \in {"complete", "cancel", "reassign", "reschedule", "delete"} : BulkTasks(u, ts, act)
         \/ \E k \in Kinds : NotifyDueTasks(k)
         \/ \E y \in Types, arch \in BOOLEAN : UpdateTaskType(y, arch)
  PROVE  WorkIInv'
<1>1. TypeOK
  BY DEF WorkIInv
<1>2. ASSUME NEW u \in Users, NEW ts \in SUBSET Tasks,
             NEW act \in {"complete", "cancel", "reassign", "reschedule", "delete"}, BulkTasks(u, ts, act)
      PROVE  WorkIInv'
  <2>1. PICK job : job = [k |-> "bulk", u |-> u, todo |-> ts, act |-> act]
    OBVIOUS
  <2>2. job \in BulkJob /\ job.k = "bulk"
    BY <2>1 DEF BulkJob
  <2>3. job \in Job /\ job.k \notin BoardKinds /\ job.k # "untype"
    BY <2>2 DEF Job, BoardKinds
  <2>4. Starts(job) /\ Request /\ UNCHANGED <<contact, pipe, stage, deal, type, task, pager>>
    BY <1>2, <2>1 DEF BulkTasks
  <2> QED  BY <1>1, <2>3, <2>4, RequestIs, TaskBegin
<1>3. ASSUME NEW k \in Kinds, NotifyDueTasks(k)  PROVE WorkIInv'
  <2>1. PICK job : job = [k |-> "notify", what |-> k, batch |-> Batch(k)]
    OBVIOUS
  <2>2. job \in NotifyJob /\ job.k = "notify"
    BY <2>1 DEF NotifyJob, Batch
  <2>3. job \in Job /\ job.k \notin BoardKinds /\ job.k # "untype"
    BY <2>2 DEF Job, BoardKinds
  <2>4. Starts(job) /\ UNCHANGED <<contact, pipe, stage, deal, type, task, pager>> /\ ops' \in 0..MaxOps
    BY <1>1, <1>3, <2>1 DEF NotifyDueTasks, TypeOK
  <2> QED  BY <2>3, <2>4, TaskBegin
<1>4. ASSUME NEW y \in Types, NEW arch \in BOOLEAN, UpdateTaskType(y, arch)  PROVE WorkIInv'
  <2>1. PICK job : job = [k |-> "type", ty |-> y, archived |-> arch]
    OBVIOUS
  <2>2. job \in TypeJob /\ job.k = "type"
    BY <2>1 DEF TypeJob
  <2>3. job \in Job /\ job.k \notin BoardKinds /\ job.k # "untype"
    BY <2>2 DEF Job, BoardKinds
  <2>4. Starts(job) /\ Request /\ UNCHANGED <<contact, pipe, stage, deal, type, task, pager>>
    BY <1>4, <2>1 DEF UpdateTaskType
  <2> QED  BY <1>1, <2>3, <2>4, RequestIs, TaskBegin
<1> QED  BY <1>2, <1>3, <1>4

(* The removal of a type that no task has. *)
LEMMA DeleteTaskTypeStep ==
  ASSUME WorkIInv, NEW y \in Types, DeleteTaskType(y)
  PROVE  WorkIInv'
<1>1. TypeOK /\ BoardInv /\ TaskInv /\ WalkOK /\ jobs \in [Slots -> Job]
  BY DEF WorkIInv, TypeOK
<1>2. PICK job : job = [k |-> "untype", ty |-> y]
  OBVIOUS
<1>3. job \in Job /\ job.k = "untype" /\ job.ty = y
  <2>1. job \in UntypeJob
    BY <1>2 DEF UntypeJob
  <2> QED  BY <1>2, <2>1 DEF Job
<1>4. Starts(job) /\ Request /\ Unused(y) /\ UNCHANGED <<contact, pipe, stage, deal, type, task, pager>>
  BY <1>2 DEF DeleteTaskType
<1>5. jobs' \in [Slots -> Job]
  BY <1>1, <1>3, <1>4, StartsIs
<1>6. PICK i \in Slots : jobs[i] = Idle /\ jobs' = [jobs EXCEPT ![i] = job]
  BY <1>1, <1>3, <1>4, StartsIs
<1>7. TypeOK'
  <2>1. ops' \in 0..MaxOps
    BY <1>1, <1>4, RequestIs
  <2> QED  BY <1>1, <1>4, <1>5, <2>1 DEF TypeOK
<1>8. BoardInv'
  <2>1. jobs[i].k # "sync" /\ job.k \notin BoardKinds /\ DOMAIN jobs = Slots
    BY <1>1, <1>3, <1>6 DEF Idle, BoardKinds
  <2> QED  BY <1>1, <1>4, <1>6, <2>1, BoardAside
<1>9. TaskInv'
  <2> SUFFICES ASSUME NEW t \in Tasks  PROVE TaskOK(task[t])' /\ Typed(task[t])'
    BY DEF TaskInv
  <2>1. TaskOK(task[t]) /\ Typed(task[t])
    BY <1>1 DEF TaskInv
  <2>2. TaskOK(task[t])'
    BY <1>4, <2>1 DEF TaskOK
  <2>3. task[t].at = "live" => task[t].type # y
    BY <1>4 DEF Unused
  <2>4. \A x \in Slots : jobs'[x] = IF x = i THEN job ELSE jobs[x]
    BY <1>1, <1>6
  <2>5. Typed(task[t])'
    BY <1>3, <1>4, <2>1, <2>3, <2>4 DEF Typed
  <2> QED  BY <2>2, <2>5
<1>10. WalkOK'
  BY <1>1, <1>4 DEF WalkOK, Less
<1> QED  BY <1>7, <1>8, <1>9, <1>10 DEF WorkIInv

(* Requests under way go on to name stages that were made. *)
LEMMA JobsKept ==
  ASSUME TypeOK, BoardInv, \A s \in Stages : Made(s) => stage'[s].at # "no",
         \A i \in Slots : \/ jobs'[i] = jobs[i]
                          \/ jobs'[i].k \notin BoardKinds
                          \/ jobs'[i].k = "sync" /\ jobs[i].k = "save" /\ jobs'[i].stage = jobs[i].stage
  PROVE  \A i \in Slots : JobPlaced(jobs[i])' /\ MoveFits(jobs[i])'
<1> SUFFICES ASSUME NEW i \in Slots  PROVE JobPlaced(jobs[i])' /\ MoveFits(jobs[i])'
  OBVIOUS
<1>1. JobPlaced(jobs[i]) /\ MoveFits(jobs[i]) /\ jobs[i] \in Job
  BY DEF BoardInv, TypeOK
<1>2. jobs[i].k \in BoardKinds => jobs[i].stage \in Stages
  <2>1. /\ jobs[i].k = "insert" => jobs[i] \in InsertJob
        /\ jobs[i].k = "move" => jobs[i] \in MoveJob
        /\ jobs[i].k \in {"save", "sync"} => jobs[i] \in StageJob
        /\ jobs[i].k = "remove" => jobs[i] \in RemoveJob
    BY <1>1, JobIs
  <2>2. /\ \A x \in InsertJob : x.stage \in Stages
        /\ \A x \in MoveJob : x.stage \in Stages
        /\ \A x \in StageJob : x.stage \in Stages
        /\ \A x \in RemoveJob : x.stage \in Stages
    BY DEF InsertJob, MoveJob, StageJob, RemoveJob
  <2> QED  BY <2>1, <2>2 DEF BoardKinds
<1>3. jobs[i].k = "remove" => jobs[i].to \in Stages \cup {0}
  <2>1. jobs[i].k = "remove" => jobs[i] \in RemoveJob
    BY <1>1, JobIs
  <2> QED  BY <2>1 DEF RemoveJob
<1>4. CASE jobs'[i] = jobs[i]
  <2>1. JobPlaced(jobs[i])'
    BY <1>1, <1>2, <1>3, <1>4 DEF JobPlaced, Made, BoardKinds
  <2>2. MoveFits(jobs'[i])
    BY <1>1, <1>4
  <2>3. MoveFits(jobs[i])'
    BY <2>2 DEF MoveFits, Less
  <2> QED  BY <2>1, <2>3
<1>5. CASE jobs'[i].k \notin BoardKinds
  BY <1>5 DEF JobPlaced, MoveFits, BoardKinds
<1>6. CASE jobs'[i].k = "sync" /\ jobs[i].k = "save" /\ jobs'[i].stage = jobs[i].stage
  BY <1>1, <1>2, <1>6 DEF JobPlaced, MoveFits, Made, BoardKinds
<1> QED  BY <1>4, <1>5, <1>6

(* A deal nothing happens to goes on to agree with its stage. *)
LEMMA AgreesStill ==
  ASSUME TypeOK, NEW d \in Deals, Agrees(d),
         \/ deal'[d].at # "live"
         \/ /\ deal'[d].at = deal[d].at /\ deal'[d].stage = deal[d].stage /\ deal'[d].status = deal[d].status
            /\ deal'[d].closed = deal[d].closed /\ deal'[d].odd = deal[d].odd,
         deal[d].at = "live" => /\ stage'[deal[d].stage] = stage[deal[d].stage]
                                /\ \A i \in Slots : jobs[i].k = "sync" /\ jobs[i].stage = deal[d].stage =>
                                     \E x \in Slots : jobs'[x].k = "sync" /\ jobs'[x].stage = deal[d].stage,
         \A p \in Pipes : pipe[p].at = "gone" => pipe'[p].at = "gone"
  PROVE  Agrees(d)'
<1>1. CASE deal'[d].at # "live"
  BY <1>1 DEF Agrees
<1>2. CASE deal'[d].at = "live"
  <2>1. stage[deal[d].stage].pipe \in Pipes
    BY DEF TypeOK, Deal
  <2> QED  BY <1>2, <2>1 DEF Agrees
<1> QED  BY <1>1, <1>2

(* A deal that was just written. *)
LEMMA AgreesNow ==
  ASSUME NEW d \in Deals,
         deal'[d].at = "live" /\ ~deal'[d].odd =>
           /\ stage'[deal'[d].stage].at = "live" /\ deal'[d].status = StatusForStage(stage'[deal'[d].stage].type)
           /\ deal'[d].status = "open" => ~deal'[d].closed
  PROVE  Agrees(d)'
BY DEF Agrees

LEMMA StatusIs ==
  \A t \in StageTypeNames : StatusForStage(t) = t /\ t \in {"open", "won", "lost"}
BY DEF StageTypeNames, StatusForStage

(* What is left to show of a step that leaves pipelines and stages alone. *)
LEMMA DealsStep ==
  ASSUME TypeOK, BoardInv, pipe' = pipe, stage' = stage,
         \A i \in Slots : jobs'[i] = jobs[i] \/ jobs'[i].k \notin BoardKinds,
         \A d \in Deals : deal'[d].at = "live" => Made(deal'[d].stage),
         \A d \in Deals : Agrees(d)'
  PROVE  BoardInv'
<1>1. StagesInOrder'
  BY DEF BoardInv, StagesInOrder, Made
<1>2. DealsPlaced'
  BY DEF DealsPlaced, Made
<1>3. \A i \in Slots : JobPlaced(jobs[i])' /\ MoveFits(jobs[i])'
  <2>1. \A s \in Stages : Made(s) => stage'[s].at # "no"
    BY DEF Made
  <2> QED  BY <2>1, JobsKept
<1> QED  BY <1>1, <1>2, <1>3 DEF BoardInv

(* One deal changes, and a request that was not a sync may end. *)
LEMMA OneDeal ==
  ASSUME TypeOK, BoardInv, pipe' = pipe, stage' = stage, NEW d \in Deals, NEW row \in Deal,
         deal' = [deal EXCEPT ![d] = row],
         \/ jobs' = jobs
         \/ \E i \in Slots : jobs[i].k # "sync" /\ jobs' = [jobs EXCEPT ![i] = Idle],
         row.at = "live" => Made(row.stage),
         \/ row.at # "live"
         \/ /\ row.at = deal[d].at /\ row.stage = deal[d].stage /\ row.status = deal[d].status
            /\ row.closed = deal[d].closed /\ row.odd = deal[d].odd
         \/ row.odd
         \/ /\ stage[row.stage].at = "live" /\ row.status = StatusForStage(stage[row.stage].type)
            /\ row.status = "open" => ~row.closed
  PROVE  deal' \in [Deals -> Deal] /\ jobs' \in [Slots -> Job] /\ BoardInv'
<1>1. deal \in [Deals -> Deal] /\ jobs \in [Slots -> Job]
  BY DEF TypeOK
<1>2. deal' \in [Deals -> Deal] /\ \A e \in Deals : deal'[e] = IF e = d THEN row ELSE deal[e]
  BY <1>1
<1>3. jobs' \in [Slots -> Job] /\ \A i \in Slots : jobs'[i] = jobs[i] \/ (jobs[i].k # "sync" /\ jobs'[i] = Idle)
  BY <1>1 DEF Job
<1>4. \A i \in Slots : jobs'[i] = jobs[i] \/ jobs'[i].k \notin BoardKinds
  BY <1>3 DEF Idle, BoardKinds
<1>5. \A e \in Deals : deal'[e].at = "live" => Made(deal'[e].stage)
  BY <1>2 DEF BoardInv, DealsPlaced
<1>6. ASSUME NEW e \in Deals  PROVE Agrees(e)'
  <2>1. Agrees(e)
    BY DEF BoardInv
  <2>2. \A i \in Slots : jobs[i].k = "sync" => jobs'[i] = jobs[i]
    BY <1>3
  <2>3. CASE e # d
    BY <1>2, <2>1, <2>2, <2>3, AgreesStill
  <2>4. CASE e = d
    <3>1. deal'[d] = row
      BY <1>2
    <3>2. CASE \/ row.at # "live"
               \/ /\ row.at = deal[d].at /\ row.stage = deal[d].stage /\ row.status = deal[d].status
                  /\ row.closed = deal[d].closed /\ row.odd = deal[d].odd
      BY <2>1, <2>2, <2>4, <3>1, <3>2, AgreesStill
    <3>3. CASE row.odd \/ (/\ stage[row.stage].at = "live" /\ row.status = StatusForStage(stage[row.stage].type)
                           /\ row.status = "open" => ~row.closed)
      BY <2>4, <3>1, <3>3, AgreesNow
    <3> QED  BY <3>2, <3>3
  <2> QED  BY <2>3, <2>4
<1> QED  BY <1>2, <1>3, <1>4, <1>5, <1>6, DealsStep

LEMMA InsertDealStep ==
  ASSUME TypeOK, BoardInv, NEW i \in Slots, InsertDeal(i)
  PROVE  deal' \in [Deals -> Deal] /\ jobs' \in [Slots -> Job] /\ BoardInv'
<1> DEFINE j == jobs[i]
<1>1. /\ jobs \in [Slots -> Job] /\ j.k = "insert" /\ jobs' = [jobs EXCEPT ![i] = Idle] /\ pipe' = pipe /\ stage' = stage
      /\ stage \in [Stages -> [at: {"no", "live", "gone"}, pipe: Pipes, type: StageTypeNames]]
  BY DEF InsertDeal, Ends, TypeOK
<1>2. j \in InsertJob /\ JobPlaced(j)
  BY <1>1, JobIs DEF BoardInv
<1>3. PICK d \in Deals : deal' = [deal EXCEPT ![d] =
         [at |-> "live", stage |-> j.stage, status |-> StatusForStage(j.type),
          closed |-> FALSE, rank |-> j.rank, owner |-> j.owner,
          contact |-> j.contact, odd |-> Stale(j.stage, j.type)]]
  BY DEF InsertDeal, Fresh
<1> HIDE DEF j
<1>4. PICK st, od : st = StatusForStage(j.type) /\ od = Stale(j.stage, j.type)
  OBVIOUS
<1>5. PICK row : row = [at |-> "live", stage |-> j.stage, status |-> st, closed |-> FALSE, rank |-> j.rank,
                        owner |-> j.owner, contact |-> j.contact, odd |-> od]
  OBVIOUS
<1>6. st \in {"open", "won", "lost"} /\ od \in BOOLEAN /\ j.stage \in Stages
  BY <1>2, <1>4, StatusIs DEF InsertJob, Stale
<1>7. row \in Deal
  BY <1>2, <1>5, <1>6 DEF InsertJob, Deal
<1>8. row.at = "live" /\ row.stage = j.stage /\ row.status = st /\ row.closed = FALSE /\ row.odd = od
  BY <1>5
<1>9. Made(row.stage)
  BY <1>1, <1>2, <1>8 DEF JobPlaced
<1>10. row.odd \/ (/\ stage[row.stage].at = "live" /\ row.status = StatusForStage(stage[row.stage].type)
                   /\ row.status = "open" => ~row.closed)
  BY <1>4, <1>6, <1>8 DEF Stale
<1>11. deal' = [deal EXCEPT ![d] = row] /\ jobs[i].k # "sync"
  BY <1>1, <1>3, <1>4, <1>5 DEF j
<1> QED  BY <1>1, <1>7, <1>8, <1>9, <1>10, <1>11, OneDeal

LEMMA WriteMoveStep ==
  ASSUME TypeOK, BoardInv, NEW i \in Slots, WriteMove(i)
  PROVE  deal' \in [Deals -> Deal] /\ jobs' \in [Slots -> Job] /\ BoardInv'
<1> DEFINE j == jobs[i]
<1>1. /\ jobs \in [Slots -> Job] /\ j.k = "move" /\ jobs' = [jobs EXCEPT ![i] = Idle] /\ pipe' = pipe /\ stage' = stage
      /\ deal \in [Deals -> Deal]
      /\ deal' = [deal EXCEPT ![j.d] = IF j.stage = @.stage THEN [@ EXCEPT !.rank = j.rank] ELSE Restaged(@, j)]
  BY DEF WriteMove, Ends, TypeOK
<1>2. j \in MoveJob /\ JobPlaced(j)
  BY <1>1, JobIs DEF BoardInv
<1> HIDE DEF j
<1>3. j.d \in Deals /\ j.stage \in Stages /\ j.type \in StageTypeNames /\ j.rank \in Ranks /\ deal[j.d] \in Deal
  BY <1>1, <1>2 DEF MoveJob
<1>4. PICK row : row = IF j.stage = deal[j.d].stage THEN [deal[j.d] EXCEPT !.rank = j.rank] ELSE Restaged(deal[j.d], j)
  OBVIOUS
<1>5. deal' = [deal EXCEPT ![j.d] = row] /\ jobs[i].k # "sync"
  BY <1>1, <1>3, <1>4 DEF j
<1>6. CASE j.stage = deal[j.d].stage
  <2>1. row \in Deal /\ row.at = deal[j.d].at /\ row.stage = deal[j.d].stage /\ row.status = deal[j.d].status
        /\ row.closed = deal[j.d].closed /\ row.odd = deal[j.d].odd
    BY <1>3, <1>4, <1>6 DEF Deal
  <2>2. row.at = "live" => Made(row.stage)
    BY <1>3, <2>1 DEF BoardInv, DealsPlaced
  <2> QED  BY <1>1, <1>3, <1>5, <2>1, <2>2, OneDeal
<1>7. CASE j.stage # deal[j.d].stage
  <2>1. PICK st, od, cl : st = StatusForStage(j.type) /\ od = Stale(j.stage, j.type) /\ cl = (st # "open")
    OBVIOUS
  <2>2. st \in {"open", "won", "lost"} /\ od \in BOOLEAN /\ cl \in BOOLEAN
    BY <1>3, <2>1, StatusIs DEF Stale
  <2>3. row = [deal[j.d] EXCEPT !.stage = j.stage, !.status = st, !.rank = j.rank, !.closed = cl, !.odd = od]
    BY <1>4, <1>7, <2>1 DEF Restaged
  <2>4. row \in Deal /\ row.stage = j.stage /\ row.status = st /\ row.closed = cl /\ row.odd = od
    BY <1>3, <2>2, <2>3 DEF Deal
  <2>5. Made(row.stage)
    BY <1>1, <1>2, <2>4 DEF JobPlaced
  <2>6. row.odd \/ (/\ stage[row.stage].at = "live" /\ row.status = StatusForStage(stage[row.stage].type)
                    /\ row.status = "open" => ~row.closed)
    BY <2>1, <2>2, <2>4 DEF Stale
  <2> QED  BY <1>1, <1>3, <1>5, <2>4, <2>5, <2>6, OneDeal
<1> QED  BY <1>6, <1>7

LEMMA DealRequestSteps ==
  ASSUME TypeOK, BoardInv, NEW u \in Users, NEW d \in Deals, UpdateDeal(u, d) \/ DeleteDeal(u, d)
  PROVE  deal' \in [Deals -> Deal] /\ BoardInv'
<1>1. deal \in [Deals -> Deal] /\ pipe' = pipe /\ stage' = stage /\ jobs' = jobs
  BY DEF TypeOK, UpdateDeal, DeleteDeal
<1>2. CASE UpdateDeal(u, d)
  <2>1. PICK o \in Owners : deal' = [deal EXCEPT ![d].owner = o]
    BY <1>2 DEF UpdateDeal, Update
  <2>2. PICK row : row = [deal[d] EXCEPT !.owner = o]
    OBVIOUS
  <2>3. row \in Deal /\ row.at = deal[d].at /\ row.stage = deal[d].stage /\ row.status = deal[d].status
        /\ row.closed = deal[d].closed /\ row.odd = deal[d].odd
    BY <1>1, <2>2 DEF Deal
  <2>4. deal' = [deal EXCEPT ![d] = row]
    BY <1>1, <2>1, <2>2
  <2>5. row.at = "live" => Made(row.stage)
    BY <2>3 DEF BoardInv, DealsPlaced
  <2> QED  BY <1>1, <2>3, <2>4, <2>5, OneDeal
<1>3. CASE DeleteDeal(u, d)
  <2>1. deal' = [deal EXCEPT ![d] = GoneDeal]
    BY <1>3 DEF DeleteDeal, Delete
  <2>2. GoneDeal \in Deal /\ GoneDeal.at # "live"
    <3>1. 1 \in Stages /\ None \in Owners
      BY WorkAssumption DEF Stages, Owners
    <3> QED  BY <3>1, RankTypes DEF GoneDeal, NoDeal, Deal
  <2> QED  BY <1>1, <2>1, <2>2, OneDeal
<1> QED  BY <1>2, <1>3

(* The deals of a stage follow its new type. *)
LEMMA SyncRowIs ==
  ASSUME NEW row \in Deal, NEW st \in {"open", "won", "lost"}, NEW od \in BOOLEAN,
         NEW n, n = SyncStatus(row, st, od), row.odd \/ row.status # "open" \/ ~row.closed
  PROVE  /\ n \in Deal /\ n.at = row.at /\ n.stage = row.stage /\ n.status = st
         /\ od => n.odd
         /\ ~n.odd /\ n.status = "open" => ~n.closed
<1>1. CASE row.status = st
  <2>1. PICK x : x = (row.odd \/ od)
    OBVIOUS
  <2>2. x \in BOOLEAN /\ row.odd \in BOOLEAN
    BY <2>1 DEF Deal
  <2>3. n = [row EXCEPT !.odd = x]
    BY <1>1, <2>1 DEF SyncStatus
  <2>4. /\ n \in Deal /\ n.at = row.at /\ n.stage = row.stage /\ n.status = row.status /\ n.closed = row.closed
        /\ n.odd = x
    BY <2>2, <2>3 DEF Deal
  <2> QED  BY <1>1, <2>1, <2>2, <2>4
<1>2. CASE row.status # st
  <2>1. PICK x : x = (row.closed /\ st # "open")
    OBVIOUS
  <2>2. x \in BOOLEAN
    BY <2>1 DEF Deal
  <2>3. n = [row EXCEPT !.status = st, !.closed = x, !.odd = od]
    BY <1>2, <2>1 DEF SyncStatus
  <2>4. n \in Deal /\ n.at = row.at /\ n.stage = row.stage /\ n.status = st /\ n.closed = x /\ n.odd = od
    BY <2>2, <2>3 DEF Deal
  <2> QED  BY <2>1, <2>4
<1> QED  BY <1>1, <1>2

LEMMA SyncStatusStep ==
  ASSUME TypeOK, BoardInv, NEW i \in Slots, SyncStatusToStage(i)
  PROVE  deal' \in [Deals -> Deal] /\ jobs' \in [Slots -> Job] /\ BoardInv'
<1> DEFINE j == jobs[i]
<1>1. /\ jobs \in [Slots -> Job] /\ j.k = "sync" /\ jobs' = [jobs EXCEPT ![i] = Idle] /\ pipe' = pipe /\ stage' = stage
      /\ deal \in [Deals -> Deal]
      /\ stage \in [Stages -> [at: {"no", "live", "gone"}, pipe: Pipes, type: StageTypeNames]]
      /\ deal' = [d \in Deals |-> IF d \in Cards(j.stage)
                   THEN SyncStatus(deal[d], StatusForStage(j.type), Stale(j.stage, j.type)) ELSE deal[d]]
  BY DEF SyncStatusToStage, Ends, TypeOK
<1>2. j \in StageJob
  BY <1>1, JobIs
<1> HIDE DEF j
<1>3. j.stage \in Stages /\ j.type \in StageTypeNames
  BY <1>2 DEF StageJob
<1>4. PICK st, od : st = StatusForStage(j.type) /\ od = Stale(j.stage, j.type)
  OBVIOUS
<1>5. st \in {"open", "won", "lost"} /\ od \in BOOLEAN
  BY <1>3, <1>4, StatusIs DEF Stale
<1>6. \A d \in Deals : deal'[d] = IF d \in Cards(j.stage) THEN SyncStatus(deal[d], st, od) ELSE deal[d]
  BY <1>1, <1>4
<1>7. ASSUME NEW d \in Deals, d \in Cards(j.stage)
      PROVE  /\ deal'[d] \in Deal /\ deal'[d].at = deal[d].at /\ deal'[d].stage = deal[d].stage /\ deal'[d].status = st
             /\ od => deal'[d].odd
             /\ ~deal'[d].odd /\ deal'[d].status = "open" => ~deal'[d].closed
  <2>1. deal[d].at = "live" /\ Agrees(d)
    BY <1>7 DEF Cards, BoardInv
  <2>2. deal[d].odd \/ deal[d].status # "open" \/ ~deal[d].closed
    BY <2>1 DEF Agrees
  <2>3. deal[d] \in Deal /\ deal'[d] = SyncStatus(deal[d], st, od)
    BY <1>1, <1>6, <1>7
  <2> QED  BY <1>5, <2>2, <2>3, SyncRowIs
<1>8. \A d \in Deals : deal'[d] \in Deal /\ deal'[d].at = deal[d].at /\ deal'[d].stage = deal[d].stage
  BY <1>1, <1>6, <1>7
<1>9. deal' \in [Deals -> Deal]
  BY <1>1, <1>8
<1>10. jobs' \in [Slots -> Job] /\ \A x \in Slots : jobs'[x] = IF x = i THEN Idle ELSE jobs[x]
  BY <1>1 DEF Job
<1>11. \A x \in Slots : jobs'[x] = jobs[x] \/ jobs'[x].k \notin BoardKinds
  BY <1>10 DEF Idle, BoardKinds
<1>12. \A d \in Deals : deal'[d].at = "live" => Made(deal'[d].stage)
  BY <1>8 DEF BoardInv, DealsPlaced
<1>13. ASSUME NEW d \in Deals  PROVE Agrees(d)'
  <2>1. Agrees(d)
    BY DEF BoardInv
  <2>2. CASE d \in Cards(j.stage)
    <3>1. deal[d].stage = j.stage
      BY <2>2 DEF Cards
    <3>2. ~od => stage[j.stage].at = "live" /\ stage[j.stage].type = j.type
      BY <1>4 DEF Stale
    <3>3. deal'[d].at = "live" /\ ~deal'[d].odd =>
            /\ stage'[deal'[d].stage].at = "live" /\ deal'[d].status = StatusForStage(stage'[deal'[d].stage].type)
            /\ deal'[d].status = "open" => ~deal'[d].closed
      BY <1>1, <1>4, <1>7, <2>2, <3>1, <3>2
    <3> QED  BY <3>3, AgreesNow
  <2>3. CASE d \notin Cards(j.stage)
    <3>1. deal'[d] = deal[d]
      BY <1>6, <2>3
    <3>2. deal[d].at = "live" => deal[d].stage # j.stage
      BY <2>3 DEF Cards
    <3>3. deal[d].at = "live" => \A x \in Slots : jobs[x].k = "sync" /\ jobs[x].stage = deal[d].stage =>
             jobs'[x].k = "sync" /\ jobs'[x].stage = deal[d].stage
      BY <1>10, <3>2 DEF j
    <3> QED  BY <1>1, <2>1, <3>1, <3>3, AgreesStill
  <2> QED  BY <2>2, <2>3
<1> QED  BY <1>1, <1>9, <1>10, <1>11, <1>12, <1>13, DealsStep

(* A card whose stage goes away. *)
LEMMA SweptIs ==
  ASSUME TypeOK, NEW row \in Deal, NEW j \in RemoveJob, NEW n, n = Swept(row, j), j.to # j.stage
  PROVE  /\ n \in Deal /\ n.at = row.at
         /\ n.stage = IF j.to = 0 THEN row.stage ELSE j.to
         /\ ~n.odd => /\ j.to # 0 /\ stage[j.to].at = "live" /\ n.status = StatusForStage(stage[j.to].type)
                      /\ n.status = "open" => ~n.closed
<1>1. CASE j.to = 0
  <2>1. n = [row EXCEPT !.odd = TRUE]
    BY <1>1 DEF Swept
  <2>2. n \in Deal /\ n.at = row.at /\ n.stage = row.stage /\ n.odd = TRUE
    BY <2>1 DEF Deal
  <2> QED  BY <1>1, <2>2
<1>2. CASE j.to # 0
  <2>1. j.to \in Stages /\ j.type \in StageTypeNames
    BY <1>2 DEF RemoveJob
  <2>2. PICK st, od : st = StatusForStage(j.type) /\ od = (Stale(j.to, j.type) \/ (row.closed /\ j.type = "open"))
    OBVIOUS
  <2>3. st \in {"open", "won", "lost"} /\ st = j.type /\ od \in BOOLEAN /\ row.closed \in BOOLEAN
    BY <2>1, <2>2, StatusIs DEF Stale, Deal
  <2>4. n = [row EXCEPT !.stage = j.to, !.status = st, !.odd = od]
    BY <1>2, <2>2 DEF Swept
  <2>5. n \in Deal /\ n.at = row.at /\ n.stage = j.to /\ n.status = st /\ n.odd = od /\ n.closed = row.closed
    BY <2>1, <2>3, <2>4 DEF Deal
  <2>6. ~od => stage[j.to].at = "live" /\ stage[j.to].type = j.type /\ (j.type = "open" => ~row.closed)
    BY <2>2 DEF Stale
  <2> QED  BY <1>2, <2>2, <2>3, <2>5, <2>6
<1> QED  BY <1>1, <1>2

StageRow == [at: {"no", "live", "gone"}, pipe: Pipes, type: StageTypeNames]
PipeRow == [at: {"no", "live", "gone"}, default: BOOLEAN, archived: BOOLEAN]

(* What is left to show of a step that changes stages. *)
LEMMA StagesStep ==
  ASSUME TypeOK, BoardInv, StagesInOrder', \A s \in Stages : Made(s) => stage'[s].at # "no",
         \A i \in Slots : \/ jobs'[i] = jobs[i]
                          \/ jobs'[i].k \notin BoardKinds
                          \/ jobs'[i].k = "sync" /\ jobs[i].k = "save" /\ jobs'[i].stage = jobs[i].stage,
         \A d \in Deals : deal'[d].at = "live" => deal'[d].stage \in Stages /\ Made(deal'[d].stage),
         \A d \in Deals : Agrees(d)'
  PROVE  BoardInv'
<1>1. DealsPlaced'
  BY DEF DealsPlaced, Made
<1>2. \A i \in Slots : JobPlaced(jobs[i])' /\ MoveFits(jobs[i])'
  BY JobsKept
<1> QED  BY <1>1, <1>2 DEF BoardInv

(* A stage goes away, or is kept because it is the last open one. *)
LEMMA RemoveStageStep ==
  ASSUME TypeOK, BoardInv, NEW i \in Slots, RemoveStage(i)
  PROVE  /\ deal' \in [Deals -> Deal] /\ stage' \in [Stages -> StageRow] /\ jobs' \in [Slots -> Job]
         /\ BoardInv'
<1> DEFINE j == jobs[i]
<1>1. /\ jobs \in [Slots -> Job] /\ j.k = "remove" /\ jobs' = [jobs EXCEPT ![i] = Idle] /\ pipe' = pipe
      /\ deal \in [Deals -> Deal] /\ stage \in [Stages -> StageRow]
      /\ \/ deal' = deal /\ stage' = stage
         \/ /\ deal' = [d \in Deals |-> IF d \in Cards(j.stage) THEN Swept(deal[d], j) ELSE deal[d]]
            /\ stage' = [stage EXCEPT ![j.stage].at = "gone"]
  BY DEF RemoveStage, Ends, TypeOK, StageRow
<1>2. j \in RemoveJob /\ JobPlaced(j)
  BY <1>1, JobIs DEF BoardInv
<1>3. jobs' \in [Slots -> Job] /\ \A x \in Slots : jobs'[x] = IF x = i THEN Idle ELSE jobs[x]
  BY <1>1 DEF Job
<1>4. \A x \in Slots : jobs[x].k = "sync" => jobs'[x] = jobs[x]
  BY <1>1, <1>3
<1>5. CASE deal' = deal /\ stage' = stage
  <2>1. Idle.k \notin BoardKinds /\ jobs[i].k # "sync" /\ DOMAIN jobs = Slots
    BY <1>1 DEF Idle, BoardKinds
  <2>2. BoardInv'
    BY <1>1, <1>5, <2>1, BoardAside
  <2> QED  BY <1>1, <1>3, <1>5, <2>2
<1>6. CASE /\ deal' = [d \in Deals |-> IF d \in Cards(j.stage) THEN Swept(deal[d], j) ELSE deal[d]]
           /\ stage' = [stage EXCEPT ![j.stage].at = "gone"]
  <2> HIDE DEF j
  <2>1. j.stage \in Stages /\ j.to \in Stages \cup {0} /\ Made(j.stage) /\ (j.to # 0 => Made(j.to)) /\ j.to # j.stage
    <3>1. j.stage \in Stages /\ j.to \in Stages \cup {0}
      BY <1>2 DEF RemoveJob
    <3> QED  BY <1>1, <1>2, <3>1 DEF JobPlaced, Stages
  <2>2. PICK row : row = [stage[j.stage] EXCEPT !.at = "gone"]
    OBVIOUS
  <2>3. row \in StageRow /\ row.at = "gone" /\ stage' = [stage EXCEPT ![j.stage] = row]
    BY <1>1, <1>6, <2>1, <2>2 DEF StageRow
  <2>4. stage' \in [Stages -> StageRow] /\ \A s \in Stages : stage'[s] = IF s = j.stage THEN row ELSE stage[s]
    BY <1>1, <2>1, <2>3
  <2>5. \A s \in Stages : Made(s) <=> stage'[s].at # "no"
    BY <2>1, <2>3, <2>4 DEF Made
  <2>6. StagesInOrder'
    BY <2>5 DEF BoardInv, StagesInOrder, Made
  <2>7. \A d \in Deals : deal'[d] = IF d \in Cards(j.stage) THEN Swept(deal[d], j) ELSE deal[d]
    BY <1>6
  <2>8. ASSUME NEW d \in Deals, d \in Cards(j.stage)
        PROVE  /\ deal'[d] \in Deal
               /\ deal'[d].stage = IF j.to = 0 THEN deal[d].stage ELSE j.to
               /\ ~deal'[d].odd => /\ j.to # 0 /\ stage[j.to].at = "live"
                                   /\ deal'[d].status = StatusForStage(stage[j.to].type)
                                   /\ deal'[d].status = "open" => ~deal'[d].closed
    <3>1. deal[d] \in Deal /\ deal'[d] = Swept(deal[d], j)
      BY <1>1, <2>7, <2>8
    <3> QED  BY <1>2, <2>1, <3>1, SweptIs
  <2>9. deal' \in [Deals -> Deal]
    BY <1>1, <1>6, <2>7, <2>8
  <2>10. ASSUME NEW d \in Deals, deal'[d].at = "live"  PROVE deal'[d].stage \in Stages /\ Made(deal'[d].stage)
    <3>1. CASE d \in Cards(j.stage)
      <4>1. deal[d].stage = j.stage
        BY <3>1 DEF Cards
      <4>2. deal'[d].stage = IF j.to = 0 THEN deal[d].stage ELSE j.to
        BY <2>8, <3>1
      <4> QED  BY <2>1, <4>1, <4>2
    <3>2. CASE d \notin Cards(j.stage)
      BY <1>1, <2>7, <2>10, <3>2 DEF BoardInv, DealsPlaced, Deal
    <3> QED  BY <3>1, <3>2
  <2>11. ASSUME NEW d \in Deals  PROVE Agrees(d)'
    <3>1. Agrees(d)
      BY DEF BoardInv
    <3>2. CASE d \in Cards(j.stage)
      <4>1. deal'[d].at = "live" /\ ~deal'[d].odd =>
              /\ stage'[deal'[d].stage].at = "live" /\ deal'[d].status = StatusForStage(stage'[deal'[d].stage].type)
              /\ deal'[d].status = "open" => ~deal'[d].closed
        BY <2>1, <2>4, <2>8, <3>2
      <4> QED  BY <4>1, AgreesNow
    <3>3. CASE d \notin Cards(j.stage)
      <4>1. deal'[d] = deal[d] /\ deal[d].stage \in Stages
        BY <1>1, <2>7, <3>3 DEF Deal
      <4>2. deal[d].at = "live" => stage'[deal[d].stage] = stage[deal[d].stage]
        BY <2>4, <3>3, <4>1 DEF Cards
      <4> QED  BY <1>1, <1>4, <3>1, <4>1, <4>2, AgreesStill
    <3> QED  BY <3>2, <3>3
  <2>12. \A x \in Slots : jobs'[x] = jobs[x] \/ jobs'[x].k \notin BoardKinds
    BY <1>3 DEF Idle, BoardKinds
  <2>13. BoardInv'
    BY <2>5, <2>6, <2>10, <2>11, <2>12, StagesStep
  <2> QED  BY <1>3, <2>4, <2>9, <2>13
<1> QED  BY <1>1, <1>5, <1>6

(* A stage is saved with its new type; its deals are still to follow. *)
LEMMA SaveStageStep ==
  ASSUME TypeOK, BoardInv, NEW i \in Slots, SaveStage(i)
  PROVE  stage' \in [Stages -> StageRow] /\ jobs' \in [Slots -> Job] /\ BoardInv'
<1> DEFINE j == jobs[i]
<1>1. /\ jobs \in [Slots -> Job] /\ j.k = "save" /\ jobs' = [jobs EXCEPT ![i].k = "sync"] /\ pipe' = pipe /\ deal' = deal
      /\ deal \in [Deals -> Deal] /\ stage \in [Stages -> StageRow]
      /\ stage' = [stage EXCEPT ![j.stage].type = j.type, ![j.stage].at = "live"]
  BY DEF SaveStage, TypeOK, StageRow
<1>2. j \in StageJob /\ JobPlaced(j)
  BY <1>1, JobIs DEF BoardInv
<1>3. PICK n : n = [j EXCEPT !.k = "sync"]
  OBVIOUS
<1>4. jobs' = [jobs EXCEPT ![i] = n]
  BY <1>1, <1>3
<1> HIDE DEF j
<1>5. n \in StageJob /\ n.k = "sync" /\ n.stage = j.stage /\ j.stage \in Stages /\ j.type \in StageTypeNames
  BY <1>2, <1>3 DEF StageJob
<1>6. jobs' \in [Slots -> Job] /\ \A x \in Slots : jobs'[x] = IF x = i THEN n ELSE jobs[x]
  <2>1. n \in Job
    BY <1>5 DEF Job
  <2> QED  BY <1>1, <1>4, <2>1
<1>7. PICK row : row = [stage[j.stage] EXCEPT !.type = j.type, !.at = "live"]
  OBVIOUS
<1>8. row \in StageRow /\ row.at = "live" /\ row.pipe = stage[j.stage].pipe /\ stage' = [stage EXCEPT ![j.stage] = row]
  BY <1>1, <1>5, <1>7 DEF StageRow
<1>9. stage' \in [Stages -> StageRow] /\ \A s \in Stages : stage'[s] = IF s = j.stage THEN row ELSE stage[s]
  BY <1>1, <1>5, <1>8
<1>10. Made(j.stage)
  BY <1>1, <1>2 DEF JobPlaced
<1>11. \A s \in Stages : Made(s) <=> stage'[s].at # "no"
  BY <1>8, <1>9, <1>10 DEF Made
<1>12. StagesInOrder'
  BY <1>11 DEF BoardInv, StagesInOrder, Made
<1>13. \A d \in Deals : deal'[d].at = "live" => deal'[d].stage \in Stages /\ Made(deal'[d].stage)
  BY <1>1 DEF BoardInv, DealsPlaced, Deal
<1>14. ASSUME NEW d \in Deals  PROVE Agrees(d)'
  <2>1. Agrees(d)
    BY DEF BoardInv
  <2>2. CASE deal[d].stage = j.stage
    <3>1. jobs'[i].k = "sync" /\ jobs'[i].stage = deal'[d].stage
      BY <1>1, <1>5, <1>6, <2>2
    <3> QED  BY <1>1, <2>1, <3>1 DEF Agrees
  <2>3. CASE deal[d].stage # j.stage
    <3>1. deal[d].stage \in Stages
      BY <1>1 DEF Deal
    <3>2. stage'[deal[d].stage] = stage[deal[d].stage]
      BY <1>9, <2>3, <3>1
    <3>3. \A x \in Slots : jobs[x].k = "sync" => jobs'[x] = jobs[x]
      BY <1>1, <1>6 DEF j
    <3> QED  BY <1>1, <2>1, <3>2, <3>3, AgreesStill
  <2> QED  BY <2>2, <2>3
<1>15. \A x \in Slots : \/ jobs'[x] = jobs[x]
                        \/ jobs'[x].k = "sync" /\ jobs[x].k = "save" /\ jobs'[x].stage = jobs[x].stage
  BY <1>1, <1>5, <1>6 DEF j
<1>16. BoardInv'
  BY <1>11, <1>12, <1>13, <1>14, <1>15, StagesStep
<1> QED  BY <1>6, <1>9, <1>16

(* The process dies: nothing is under way, and what was waiting for its status *)
(* is marked.                                                                  *)
LEMMA RestartStep ==
  ASSUME TypeOK, BoardInv, Restart
  PROVE  deal' \in [Deals -> Deal] /\ jobs' \in [Slots -> Job] /\ BoardInv'
<1> DEFINE hit(d) == \E i \in Slots : jobs[i].k = "sync" /\ d \in Cards(jobs[i].stage)
<1>1. /\ jobs' = [i \in Slots |-> Idle] /\ deal \in [Deals -> Deal] /\ pipe' = pipe /\ stage' = stage
      /\ deal' = [d \in Deals |-> IF hit(d) THEN [deal[d] EXCEPT !.odd = TRUE] ELSE deal[d]]
  BY DEF Restart, TypeOK
<1> HIDE DEF hit
<1>2. jobs' \in [Slots -> Job] /\ \A i \in Slots : jobs'[i] = Idle
  <2>1. Idle \in Job
    BY DEF Job
  <2> QED  BY <1>1, <2>1
<1>3. \A d \in Deals : deal'[d] = IF hit(d) THEN [deal[d] EXCEPT !.odd = TRUE] ELSE deal[d]
  BY <1>1
<1>4. ASSUME NEW d \in Deals
      PROVE  /\ deal'[d] \in Deal /\ deal'[d].at = deal[d].at /\ deal'[d].stage = deal[d].stage
             /\ hit(d) => deal'[d].odd
  <2>1. deal[d] \in Deal
    BY <1>1
  <2>2. CASE hit(d)
    <3>1. deal'[d] = [deal[d] EXCEPT !.odd = TRUE]
      BY <1>3, <2>2
    <3> QED  BY <2>1, <3>1 DEF Deal
  <2> QED  BY <1>3, <2>1, <2>2
<1>5. deal' \in [Deals -> Deal]
  BY <1>1, <1>4
<1>6. \A i \in Slots : jobs'[i].k \notin BoardKinds
  BY <1>2 DEF Idle, BoardKinds
<1>7. \A d \in Deals : deal'[d].at = "live" => Made(deal'[d].stage)
  BY <1>4 DEF BoardInv, DealsPlaced
<1>8. ASSUME NEW d \in Deals  PROVE Agrees(d)'
  <2>1. Agrees(d)
    BY DEF BoardInv
  <2>2. CASE hit(d)
    <3>1. deal'[d].odd
      BY <1>4, <2>2
    <3> QED  BY <3>1, AgreesNow
  <2>3. CASE ~hit(d)
    <3>1. deal'[d] = deal[d]
      BY <1>3, <2>3
    <3>2. deal[d].at = "live" => ~\E i \in Slots : jobs[i].k = "sync" /\ jobs[i].stage = deal[d].stage
      BY <2>3 DEF hit, Cards
    <3> QED  BY <1>1, <2>1, <3>1, <3>2, AgreesStill
  <2> QED  BY <2>2, <2>3
<1> QED  BY <1>1, <1>2, <1>5, <1>6, <1>7, <1>8, DealsStep

(* Numbers that leave no gap are the first ones. *)
LEMMA FirstNumbers ==
  ASSUME NEW n \in Nat, NEW S, S \subseteq 1..n, \A s \in S : \A r \in 1..n : r < s => r \in S
  PROVE  Cardinality(S) \in Nat /\ S = 1..Cardinality(S)
<1> DEFINE U == {x \in Nat : x # 0 /\ x \notin S}
<1>1. n + 1 \in U /\ U \subseteq Nat
  OBVIOUS
<1>2. PICK u \in U : \A y \in U : u <= y
  BY <1>1, LeastNumber
<1>3. u \in Nat /\ u # 0 /\ u \notin S /\ u <= n + 1
  BY <1>1, <1>2
<1>4. \A x \in 1..(u - 1) : x \in S
  BY <1>2, <1>3
<1>5. \A x \in S : x \in 1..(u - 1)
  <2> SUFFICES ASSUME NEW x \in S  PROVE x \in 1..(u - 1)
    OBVIOUS
  <2>1. x \in 1..n
    OBVIOUS
  <2>2. ~(u < x)
    BY <1>3, <2>1
  <2>3. u # x
    BY <1>3
  <2> QED  BY <1>3, <2>1, <2>2, <2>3
<1>6. S = 1..(u - 1)
  BY <1>4, <1>5
<1>7. Cardinality(1..(u - 1)) = u - 1 /\ u - 1 \in Nat
  BY <1>3, FS_Interval
<1> QED  BY <1>6, <1>7

(* Another pipeline, with stages of its own. *)
LEMMA CreatePipelineStep ==
  ASSUME TypeOK, BoardInv, CreatePipeline
  PROVE  pipe' \in [Pipes -> PipeRow] /\ stage' \in [Stages -> StageRow] /\ BoardInv'
<1> DEFINE made == {s \in Stages : stage[s].at # "no"}
           used == Cardinality(made)
<1>1. PICK p \in Pipes :
        /\ pipe[p].at = "no"
        /\ pipe' = [pipe EXCEPT ![p] = [at |-> "live", archived |-> FALSE,
                                        default |-> \A q \in Pipes : pipe[q].at # "live"]]
        /\ stage' = [s \in Stages |-> IF s - used \in DOMAIN StageTypes
                      THEN [at |-> "live", pipe |-> p, type |-> StageTypes[s - used]] ELSE stage[s]]
  BY DEF CreatePipeline, Fresh
<1>2. deal' = deal /\ jobs' = jobs /\ deal \in [Deals -> Deal] /\ stage \in [Stages -> StageRow] /\ pipe \in [Pipes -> PipeRow]
  BY DEF CreatePipeline, TypeOK, StageRow, PipeRow
<1>3. used \in Nat /\ made = 1..used
  <2>1. \A s \in made : \A r \in 1..MaxStages : r < s => r \in made
    BY DEF BoardInv, StagesInOrder, Made, Stages
  <2> HIDE DEF made
  <2>2. MaxStages \in Nat
    BY WorkAssumption
  <2>3. made \subseteq 1..MaxStages
    BY DEF made, Stages
  <2> QED  BY <2>1, <2>2, <2>3, FirstNumbers
<1> HIDE DEF used
<1>4. Len(StageTypes) \in Nat /\ DOMAIN StageTypes = 1..Len(StageTypes) /\ \A x \in DOMAIN StageTypes : StageTypes[x] \in StageTypeNames
  BY WorkAssumption DEF StageTypeNames
<1>5. pipe' \in [Pipes -> PipeRow] /\ \A q \in Pipes : pipe[q].at = "gone" => pipe'[q].at = "gone"
  <2>1. PICK df : df = (\A q \in Pipes : pipe[q].at # "live")
    OBVIOUS
  <2>2. df \in BOOLEAN
    BY <2>1
  <2>3. [at |-> "live", archived |-> FALSE, default |-> df] \in PipeRow
    BY <2>2 DEF PipeRow
  <2> QED  BY <1>1, <1>2, <2>1, <2>3
<1>6. ASSUME NEW s \in Stages
      PROVE  /\ stage'[s] \in StageRow
             /\ Made(s) => stage'[s] = stage[s]
             /\ stage'[s].at # "no" <=> s \in 1..(used + Len(StageTypes))
  <2>1. s \in Nat /\ s # 0
    BY WorkAssumption DEF Stages
  <2>2. Made(s) <=> s \in 1..used
    BY <1>3 DEF Made
  <2>3. CASE s - used \in DOMAIN StageTypes
    <3>1. stage'[s] = [at |-> "live", pipe |-> p, type |-> StageTypes[s - used]]
      BY <1>1, <2>3
    <3>2. stage'[s] \in StageRow /\ stage'[s].at = "live"
      BY <1>4, <2>3, <3>1 DEF StageRow
    <3>3. s \in 1..(used + Len(StageTypes)) /\ s \notin 1..used
      BY <1>3, <1>4, <2>1, <2>3
    <3> QED  BY <2>2, <3>2, <3>3
  <2>4. CASE s - used \notin DOMAIN StageTypes
    <3>1. stage'[s] = stage[s] /\ stage[s] \in StageRow
      BY <1>1, <1>2, <2>4
    <3>2. s \in 1..used <=> s \in 1..(used + Len(StageTypes))
      BY <1>3, <1>4, <2>1, <2>4
    <3> QED  BY <2>2, <3>1, <3>2 DEF Made
  <2> QED  BY <2>3, <2>4
<1>7. stage' \in [Stages -> StageRow]
  BY <1>1, <1>6
<1>8. StagesInOrder'
  <2> SUFFICES ASSUME NEW s \in Stages, NEW t \in Stages, s < t, stage'[t].at # "no"  PROVE stage'[s].at # "no"
    BY DEF StagesInOrder, Made
  <2>1. s \in Nat /\ s # 0 /\ t \in Nat
    BY WorkAssumption DEF Stages
  <2> QED  BY <1>3, <1>4, <1>6, <2>1
<1>9. \A d \in Deals : deal[d].stage \in Stages /\ (deal[d].at = "live" => Made(deal[d].stage))
  BY <1>2 DEF BoardInv, DealsPlaced, Deal
<1>10. ASSUME NEW d \in Deals  PROVE Agrees(d)'
  <2>1. Agrees(d)
    BY DEF BoardInv
  <2>2. deal[d].at = "live" => stage'[deal[d].stage] = stage[deal[d].stage]
    BY <1>6, <1>9
  <2> QED  BY <1>2, <1>5, <2>1, <2>2, AgreesStill
<1>11. \A s \in Stages : Made(s) => stage'[s].at # "no"
  BY <1>6 DEF Made
<1>12. BoardInv'
  BY <1>2, <1>8, <1>9, <1>10, <1>11, StagesStep
<1> QED  BY <1>5, <1>7, <1>12

(* Another stage. *)
LEMMA CreateStageStep ==
  ASSUME TypeOK, BoardInv, NEW p \in Pipes, NEW t \in StageTypeNames, CreateStage(p, t)
  PROVE  stage' \in [Stages -> StageRow] /\ BoardInv'
<1>1. PICK s \in Stages : /\ stage[s].at = "no" /\ \A r \in Stages : r < s => stage[r].at # "no"
                          /\ stage' = [stage EXCEPT ![s] = [at |-> "live", pipe |-> p, type |-> t]]
  BY DEF CreateStage, Fresh
<1>2. /\ deal' = deal /\ jobs' = jobs /\ pipe' = pipe /\ deal \in [Deals -> Deal] /\ stage \in [Stages -> StageRow]
  BY DEF CreateStage, TypeOK, StageRow
<1>3. [at |-> "live", pipe |-> p, type |-> t] \in StageRow
  BY DEF StageRow
<1>4. stage' \in [Stages -> StageRow] /\ stage'[s].at = "live" /\ \A r \in Stages : r # s => stage'[r] = stage[r]
  BY <1>1, <1>2, <1>3
<1>5. \A r \in Stages : Made(r) => stage'[r] = stage[r]
  BY <1>1, <1>4 DEF Made
<1>6. StagesInOrder'
  <2> SUFFICES ASSUME NEW x \in Stages, NEW y \in Stages, x < y, stage'[y].at # "no"  PROVE stage'[x].at # "no"
    BY DEF StagesInOrder, Made
  <2>1. CASE y = s
    BY <1>1, <1>4, <2>1
  <2>2. CASE y # s
    BY <1>4, <2>2 DEF BoardInv, StagesInOrder, Made
  <2> QED  BY <2>1, <2>2
<1>7. \A d \in Deals : deal[d].stage \in Stages /\ (deal[d].at = "live" => Made(deal[d].stage))
  BY <1>2 DEF BoardInv, DealsPlaced, Deal
<1>8. ASSUME NEW d \in Deals  PROVE Agrees(d)'
  <2>1. Agrees(d)
    BY DEF BoardInv
  <2> QED  BY <1>2, <1>5, <1>7, <2>1, AgreesStill
<1>9. \A r \in Stages : Made(r) => stage'[r].at # "no"
  BY <1>5 DEF Made
<1>10. BoardInv'
  BY <1>2, <1>6, <1>7, <1>8, <1>9, StagesStep
<1> QED  BY <1>4, <1>10

(* A pipeline becomes the default one, is archived or is deleted. *)
LEMMA PipelineSteps ==
  ASSUME TypeOK, BoardInv, NEW p \in Pipes, UpdatePipeline(p) \/ ArchivePipeline(p) \/ DeletePipeline(p)
  PROVE  pipe' \in [Pipes -> PipeRow] /\ stage' \in [Stages -> StageRow] /\ BoardInv'
<1>1. deal' = deal /\ jobs' = jobs /\ deal \in [Deals -> Deal] /\ stage \in [Stages -> StageRow] /\ pipe \in [Pipes -> PipeRow]
  BY DEF UpdatePipeline, ArchivePipeline, DeletePipeline, TypeOK, StageRow, PipeRow
<1>2. \A d \in Deals : deal[d].stage \in Stages /\ (deal[d].at = "live" => Made(deal[d].stage))
  BY <1>1 DEF BoardInv, DealsPlaced, Deal
<1>3. CASE UpdatePipeline(p) \/ ArchivePipeline(p)
  <2>1. pipe' \in [Pipes -> PipeRow] /\ stage' = stage /\ \A q \in Pipes : pipe'[q].at = pipe[q].at
    <3>1. CASE UpdatePipeline(p)
      <4>1. pipe' = [q \in Pipes |-> [pipe[q] EXCEPT !.default = q = p]] /\ stage' = stage
        BY <3>1 DEF UpdatePipeline
      <4>2. ASSUME NEW q \in Pipes  PROVE pipe'[q] \in PipeRow /\ pipe'[q].at = pipe[q].at
        <5>1. PICK b : b = (q = p)
          OBVIOUS
        <5>2. b \in BOOLEAN /\ pipe'[q] = [pipe[q] EXCEPT !.default = b] /\ pipe[q] \in PipeRow
          BY <1>1, <4>1, <5>1
        <5> QED  BY <5>2 DEF PipeRow
      <4> QED  BY <4>1, <4>2
    <3>2. CASE ArchivePipeline(p)
      <4>1. pipe' = [pipe EXCEPT ![p].archived = TRUE] /\ stage' = stage
        BY <3>2 DEF ArchivePipeline
      <4> QED  BY <1>1, <4>1 DEF PipeRow
    <3> QED  BY <1>3, <3>1, <3>2
  <2>2. ASSUME NEW d \in Deals  PROVE Agrees(d)'
    <3>1. Agrees(d)
      BY DEF BoardInv
    <3> QED  BY <1>1, <2>1, <3>1, AgreesStill
  <2>3. StagesInOrder'
    BY <2>1 DEF BoardInv, StagesInOrder, Made
  <2>4. \A s \in Stages : Made(s) => stage'[s].at # "no"
    BY <2>1 DEF Made
  <2>5. BoardInv'
    BY <1>1, <1>2, <2>2, <2>3, <2>4, StagesStep
  <2> QED  BY <1>1, <2>1, <2>5
<1>4. CASE DeletePipeline(p)
  <2>1. /\ pipe' = [pipe EXCEPT ![p].at = "gone"]
        /\ stage' = [s \in Stages |-> IF stage[s].pipe = p /\ stage[s].at = "live"
                                      THEN [stage[s] EXCEPT !.at = "gone"] ELSE stage[s]]
        /\ \A d \in Deals : deal[d].at = "live" /\ stage[deal[d].stage].pipe = p => deal[d].status # "open"
    BY <1>4 DEF DeletePipeline
  <2>2. pipe' \in [Pipes -> PipeRow] /\ pipe'[p].at = "gone" /\ \A q \in Pipes : pipe[q].at = "gone" => pipe'[q].at = "gone"
    BY <1>1, <2>1 DEF PipeRow
  <2>3. ASSUME NEW s \in Stages
        PROVE  /\ stage'[s] \in StageRow /\ stage'[s].pipe = stage[s].pipe /\ (stage[s].pipe # p => stage'[s] = stage[s])
               /\ stage'[s].at # "no" <=> stage[s].at # "no"
    <3>1. stage[s] \in StageRow
      BY <1>1
    <3>2. CASE stage[s].pipe = p /\ stage[s].at = "live"
      <4>1. stage'[s] = [stage[s] EXCEPT !.at = "gone"]
        BY <2>1, <3>2
      <4> QED  BY <3>1, <3>2, <4>1 DEF StageRow
    <3>3. CASE ~(stage[s].pipe = p /\ stage[s].at = "live")
      BY <2>1, <3>1, <3>3
    <3> QED  BY <3>2, <3>3
  <2>4. stage' \in [Stages -> StageRow]
    BY <2>1, <2>3
  <2>5. StagesInOrder'
    BY <2>3 DEF BoardInv, StagesInOrder, Made
  <2>6. ASSUME NEW d \in Deals  PROVE Agrees(d)'
    <3>1. Agrees(d) /\ deal[d].stage \in Stages
      BY <1>2 DEF BoardInv
    <3>2. CASE stage[deal[d].stage].pipe = p
      <4>1. stage'[deal'[d].stage].pipe = p /\ (deal[d].at = "live" => deal[d].status # "open")
        BY <1>1, <2>1, <2>3, <3>1, <3>2
      <4> QED  BY <1>1, <2>2, <4>1 DEF Agrees
    <3>3. CASE stage[deal[d].stage].pipe # p
      BY <1>1, <2>2, <2>3, <3>1, <3>3, AgreesStill
    <3> QED  BY <3>2, <3>3
  <2>7. \A s \in Stages : Made(s) => stage'[s].at # "no"
    BY <2>3 DEF Made
  <2>8. BoardInv'
    BY <1>1, <1>2, <2>5, <2>6, <2>7, StagesStep
  <2> QED  BY <2>2, <2>4, <2>8
<1> QED  BY <1>3, <1>4

-----------------------------------------------------------------------------
(* Every step                                                                 *)

(* The second half of a request on deals, pipelines or stages. *)
LEMMA BoardContinues ==
  ASSUME WorkIInv, NEW i \in Slots,
         InsertDeal(i) \/ WriteMove(i) \/ SaveStage(i) \/ SyncStatusToStage(i) \/ RemoveStage(i)
  PROVE  WorkIInv'
<1>1. TypeOK /\ BoardInv /\ TaskInv /\ WalkOK /\ jobs \in [Slots -> Job]
  BY DEF WorkIInv, TypeOK
<1>2. contact' = contact /\ pipe' = pipe /\ type' = type /\ task' = task /\ pager' = pager /\ ops' = ops
  BY DEF InsertDeal, WriteMove, SaveStage, SyncStatusToStage, RemoveStage
<1>3. deal' \in [Deals -> Deal] /\ stage' \in [Stages -> StageRow] /\ jobs' \in [Slots -> Job] /\ BoardInv'
  <2>1. SaveStage(i) => deal' = deal
    BY DEF SaveStage
  <2>2. InsertDeal(i) \/ WriteMove(i) \/ SyncStatusToStage(i) => stage' = stage
    BY DEF InsertDeal, WriteMove, SyncStatusToStage
  <2>3. deal \in [Deals -> Deal] /\ stage \in [Stages -> StageRow]
    BY <1>1 DEF TypeOK, StageRow
  <2> QED  BY <1>1, <2>1, <2>2, <2>3, InsertDealStep, WriteMoveStep, SaveStageStep, SyncStatusStep, RemoveStageStep
<1>4. TypeOK'
  BY <1>1, <1>2, <1>3 DEF TypeOK, StageRow
<1>5. TaskInv'
  <2>1. jobs' = [jobs EXCEPT ![i] = Idle] \/ jobs' = [jobs EXCEPT ![i].k = "sync"]
    BY DEF InsertDeal, WriteMove, SaveStage, SyncStatusToStage, RemoveStage, Ends
  <2>2. \A x \in Slots : jobs'[x].k = "untype" => jobs'[x] = jobs[x]
    <3>1. CASE jobs' = [jobs EXCEPT ![i] = Idle]
      BY <1>1, <3>1 DEF Idle
    <3>2. CASE SaveStage(i)
      <4>1. jobs[i] \in StageJob /\ jobs' = [jobs EXCEPT ![i].k = "sync"]
        BY <1>1, <3>2, JobIs DEF SaveStage
      <4>2. PICK n : n = [jobs[i] EXCEPT !.k = "sync"]
        OBVIOUS
      <4>3. n.k = "sync" /\ jobs' = [jobs EXCEPT ![i] = n]
        BY <4>1, <4>2 DEF StageJob
      <4> QED  BY <1>1, <4>3
    <3> QED  BY <3>1, <3>2 DEF InsertDeal, WriteMove, SyncStatusToStage, RemoveStage, Ends
  <2> QED  BY <1>1, <1>2, <2>2, TasksUntouched
<1>6. WalkOK'
  BY <1>1, <1>2 DEF WalkOK, Less
<1> QED  BY <1>3, <1>4, <1>5, <1>6 DEF WorkIInv

(* The second half of a request on tasks and their types. *)
LEMMA TaskContinues ==
  ASSUME WorkIInv, NEW i \in Slots,
         \/ InsertTask(i) \/ WriteTask(i) \/ BulkStep(i) \/ NotifyTask(i)
         \/ SaveTaskType(i) \/ RemoveTaskType(i)
  PROVE  WorkIInv'
<1>1. TypeOK /\ BoardInv /\ TaskInv /\ WalkOK /\ jobs \in [Slots -> Job] /\ task \in [Tasks -> Task]
      /\ type \in [Types -> [at: {"no", "live", "gone"}, system: BOOLEAN, archived: BOOLEAN]]
  BY DEF WorkIInv, TypeOK
<1>2. contact' = contact /\ pipe' = pipe /\ stage' = stage /\ deal' = deal /\ pager' = pager /\ ops' = ops
  BY DEF InsertTask, WriteTask, BulkStep, NotifyTask, SaveTaskType, RemoveTaskType
<1>3. \E n : n.k \notin BoardKinds /\ jobs[i].k # "sync" /\ jobs' = [jobs EXCEPT ![i] = n]
  <2>1. CASE Ends(i) /\ jobs[i].k # "sync"
    BY <2>1 DEF Ends, Idle, BoardKinds
  <2>2. CASE BulkStep(i)
    <3>1. jobs[i].k = "bulk" /\ jobs[i] \in BulkJob
      BY <1>1, <2>2, JobIs DEF BulkStep
    <3>2. PICK t, n : /\ n = IF jobs[i].todo = {t} THEN Idle ELSE [jobs[i] EXCEPT !.todo = @ \ {t}]
                      /\ jobs' = [jobs EXCEPT ![i] = n]
      BY <2>2 DEF BulkStep
    <3>3. n.k \in {"idle", "bulk"}
      BY <3>1, <3>2 DEF BulkJob, Idle
    <3> QED  BY <3>1, <3>2, <3>3 DEF BoardKinds
  <2>3. CASE NotifyTask(i)
    <3>1. jobs[i].k = "notify" /\ jobs[i] \in NotifyJob
      BY <1>1, <2>3, JobIs DEF NotifyTask
    <3>2. PICK t, n : /\ n = IF jobs[i].batch = {t} THEN Idle ELSE [jobs[i] EXCEPT !.batch = @ \ {t}]
                      /\ jobs' = [jobs EXCEPT ![i] = n]
      BY <2>3 DEF NotifyTask
    <3>3. n.k \in {"idle", "notify"}
      BY <3>1, <3>2 DEF NotifyJob, Idle
    <3> QED  BY <3>1, <3>2, <3>3 DEF BoardKinds
  <2> QED  BY <2>1, <2>2, <2>3 DEF InsertTask, WriteTask, SaveTaskType, RemoveTaskType
<1>4. BoardInv'
  BY <1>1, <1>2, <1>3, BoardAside
<1>5. /\ task' \in [Tasks -> Task] /\ jobs' \in [Slots -> Job] /\ TaskInv'
      /\ type' \in [Types -> [at: {"no", "live", "gone"}, system: BOOLEAN, archived: BOOLEAN]]
  <2>1. CASE InsertTask(i) \/ WriteTask(i) \/ BulkStep(i) \/ NotifyTask(i)
    <3>1. type' = type
      BY <2>1 DEF InsertTask, WriteTask, BulkStep, NotifyTask
    <3> QED  BY <1>1, <2>1, <3>1, InsertTaskStep, WriteTaskStep, BulkTaskStep, NotifyTaskStep
  <2>2. CASE SaveTaskType(i) \/ RemoveTaskType(i)
    <3>1. task' = task /\ jobs' = [jobs EXCEPT ![i] = Idle]
      BY <2>2 DEF SaveTaskType, RemoveTaskType, Ends
    <3>2. jobs' \in [Slots -> Job]
      BY <1>1, <3>1 DEF Job
    <3> QED  BY <1>1, <2>2, <3>1, <3>2, SaveTaskTypeStep, RemoveTaskTypeStep
  <2> QED  BY <2>1, <2>2
<1>6. TypeOK'
  BY <1>1, <1>2, <1>5 DEF TypeOK
<1>7. WalkOK'
  BY <1>1, <1>2 DEF WalkOK, Less
<1> QED  BY <1>4, <1>5, <1>6, <1>7 DEF WorkIInv

(* Requests on pipelines, and those that write a deal at once. *)
LEMMA BoardRequests ==
  ASSUME WorkIInv,
         \/ \E u \in Users, d \in Deals : UpdateDeal(u, d) \/ DeleteDeal(u, d)
         \/ HandleCreatePipeline
         \/ \E p \in Pipes : HandleUpdatePipeline(p) \/ HandleDeletePipeline(p) \/ HandleCreateStage(p)
  PROVE  WorkIInv'
<1>1. TypeOK /\ BoardInv /\ TaskInv /\ WalkOK /\ deal \in [Deals -> Deal] /\ stage \in [Stages -> StageRow]
      /\ pipe \in [Pipes -> PipeRow]
  BY DEF WorkIInv, TypeOK, StageRow, PipeRow
<1>2. contact' = contact /\ type' = type /\ task' = task /\ pager' = pager /\ jobs' = jobs /\ Request
  BY DEF UpdateDeal, DeleteDeal, HandleCreatePipeline, HandleUpdatePipeline, HandleDeletePipeline, HandleCreateStage,
         CreatePipeline, UpdatePipeline, ArchivePipeline, DeletePipeline, CreateStage
<1>3. deal' \in [Deals -> Deal] /\ stage' \in [Stages -> StageRow] /\ pipe' \in [Pipes -> PipeRow] /\ BoardInv'
  <2>1. ASSUME NEW u \in Users, NEW d \in Deals, UpdateDeal(u, d) \/ DeleteDeal(u, d)
        PROVE  deal' \in [Deals -> Deal] /\ BoardInv' /\ stage' = stage /\ pipe' = pipe
    <3>1. deal' \in [Deals -> Deal] /\ BoardInv'
      BY <1>1, <2>1, DealRequestSteps
    <3> QED  BY <2>1, <3>1 DEF UpdateDeal, DeleteDeal
  <2>2. CASE HandleCreatePipeline
    <3>1. CreatePipeline /\ deal' = deal
      BY <2>2 DEF HandleCreatePipeline, CreatePipeline
    <3> QED  BY <1>1, <3>1, CreatePipelineStep
  <2>3. ASSUME NEW p \in Pipes, HandleUpdatePipeline(p) \/ HandleDeletePipeline(p)
        PROVE  stage' \in [Stages -> StageRow] /\ pipe' \in [Pipes -> PipeRow] /\ BoardInv' /\ deal' = deal
    <3>1. UpdatePipeline(p) \/ ArchivePipeline(p) \/ DeletePipeline(p)
      BY <2>3 DEF HandleUpdatePipeline, HandleDeletePipeline
    <3>2. deal' = deal
      BY <3>1 DEF UpdatePipeline, ArchivePipeline, DeletePipeline
    <3> QED  BY <1>1, <3>1, <3>2, PipelineSteps
  <2>4. ASSUME NEW p \in Pipes, HandleCreateStage(p)
        PROVE  stage' \in [Stages -> StageRow] /\ BoardInv' /\ deal' = deal /\ pipe' = pipe
    <3>1. PICK t \in StageTypeNames : CreateStage(p, t)
      BY <2>4 DEF HandleCreateStage, StageTypeNames
    <3>2. deal' = deal /\ pipe' = pipe
      BY <3>1 DEF CreateStage
    <3> QED  BY <1>1, <3>1, <3>2, CreateStageStep
  <2> QED  BY <1>1, <2>1, <2>2, <2>3, <2>4
<1>4. ops' \in 0..MaxOps
  BY <1>1, <1>2, RequestIs
<1>5. TypeOK'
  BY <1>1, <1>2, <1>3, <1>4 DEF TypeOK, StageRow, PipeRow
<1>6. TaskInv'
  BY <1>1, <1>2, TasksUntouched
<1>7. WalkOK'
  BY <1>1, <1>2 DEF WalkOK, Less
<1> QED  BY <1>3, <1>5, <1>6, <1>7 DEF WorkIInv

(* Requests that write a task or a type at once, and the clock. *)
LEMMA TaskRequests ==
  ASSUME WorkIInv,
         \/ \E u \in Users, t \in Tasks : ReassignTask(u, t) \/ DeleteTask(u, t)
         \/ CreateTaskType
         \/ \E t \in Tasks, k \in Kinds : Lapse(t, k)
  PROVE  WorkIInv'
<1>1. TypeOK /\ BoardInv /\ TaskInv /\ WalkOK /\ task \in [Tasks -> Task]
      /\ type \in [Types -> [at: {"no", "live", "gone"}, system: BOOLEAN, archived: BOOLEAN]]
  BY DEF WorkIInv, TypeOK
<1>2. contact' = contact /\ pipe' = pipe /\ stage' = stage /\ deal' = deal /\ pager' = pager /\ jobs' = jobs /\ Request
  BY DEF ReassignTask, DeleteTask, CreateTaskType, Lapse
<1>3. /\ task' \in [Tasks -> Task] /\ TaskInv'
      /\ type' \in [Types -> [at: {"no", "live", "gone"}, system: BOOLEAN, archived: BOOLEAN]]
  <2>1. ASSUME NEW u \in Users, NEW t \in Tasks, ReassignTask(u, t) \/ DeleteTask(u, t)
        PROVE  task' \in [Tasks -> Task] /\ TaskInv' /\ type' = type
    <3>1. type' = type
      BY <2>1 DEF ReassignTask, DeleteTask
    <3>2. PICK row : task' = [task EXCEPT ![t] = row] /\ (row \in Reassigned(task[t]) \/ row = GoneTask)
      BY <2>1 DEF ReassignTask, DeleteTask
    <3>3. task[t] \in Task /\ TaskOK(task[t])
      BY <1>1 DEF TaskInv
    <3>4. Becomes(task[t], row)
      BY <3>2, <3>3, ReassignedIs, GoneIs
    <3> QED  BY <1>1, <1>2, <3>1, <3>2, <3>4, OneTask
  <2>2. CASE CreateTaskType
    <3>1. task' = task
      BY <2>2 DEF CreateTaskType
    <3> QED  BY <1>1, <2>2, <3>1, CreateTaskTypeStep
  <2>3. ASSUME NEW t \in Tasks, NEW k \in Kinds, Lapse(t, k)
        PROVE  task' \in [Tasks -> Task] /\ TaskInv' /\ type' = type
    <3>1. type' = type
      BY <2>3 DEF Lapse
    <3> QED  BY <1>1, <2>3, <3>1, LapseStep
  <2> QED  BY <1>1, <2>1, <2>2, <2>3
<1>4. ops' \in 0..MaxOps
  BY <1>1, <1>2, RequestIs
<1>5. TypeOK'
  BY <1>1, <1>2, <1>3, <1>4 DEF TypeOK
<1>6. BoardInv'
  BY <1>1, <1>2, BoardUntouched
<1>7. WalkOK'
  BY <1>1, <1>2 DEF WalkOK, Less
<1> QED  BY <1>3, <1>5, <1>6, <1>7 DEF WorkIInv

(* Restarts, contacts that change elsewhere and someone who scrolls. *)
LEMMA OtherSteps ==
  ASSUME WorkIInv,
         \/ Restart
         \/ \E c \in Contacts : ContactChanges(c)
         \/ StageDeals \/ \E u \in Users, s \in Stages : Board(u, s)
  PROVE  WorkIInv'
<1>1. TypeOK /\ BoardInv /\ TaskInv /\ WalkOK
  BY DEF WorkIInv
<1>2. CASE Restart
  <2>1. /\ contact' = contact /\ pipe' = pipe /\ stage' = stage /\ type' = type /\ task' = task /\ pager' = pager
        /\ Request /\ jobs' = [i \in Slots |-> Idle]
    BY <1>2 DEF Restart
  <2>2. deal' \in [Deals -> Deal] /\ jobs' \in [Slots -> Job] /\ BoardInv'
    BY <1>1, <1>2, RestartStep
  <2>3. ops' \in 0..MaxOps
    BY <1>1, <2>1, RequestIs
  <2>4. TypeOK'
    BY <1>1, <2>1, <2>2, <2>3 DEF TypeOK
  <2>5. \A i \in Slots : jobs'[i].k # "untype"
    BY <2>1 DEF Idle
  <2>6. TaskInv'
    BY <1>1, <2>1, <2>5, TasksUntouched
  <2>7. WalkOK'
    BY <1>1, <2>1 DEF WalkOK, Less
  <2> QED  BY <2>2, <2>4, <2>6, <2>7 DEF WorkIInv
<1>3. ASSUME NEW c \in Contacts, ContactChanges(c)  PROVE WorkIInv'
  <2>1. /\ pipe' = pipe /\ stage' = stage /\ deal' = deal /\ type' = type /\ task' = task /\ jobs' = jobs
        /\ pager' = pager /\ Request
    BY <1>3 DEF ContactChanges
  <2>2. contact' \in [Contacts -> [live: BOOLEAN, agent: Owners, queue: BOOLEAN]]
    <3>1. contact \in [Contacts -> [live: BOOLEAN, agent: Owners, queue: BOOLEAN]]
      BY <1>1 DEF TypeOK
    <3>2. CASE \E f \in {"live", "queue"} : contact' = [contact EXCEPT ![c][f] = ~@]
      <4>1. PICK f \in {"live", "queue"} : contact' = [contact EXCEPT ![c][f] = ~@]
        BY <3>2
      <4>2. PICK b : b = ~contact[c][f]
        OBVIOUS
      <4>3. b \in BOOLEAN
        BY <4>2
      <4>4. PICK row : row = [contact[c] EXCEPT ![f] = b]
        OBVIOUS
      <4>5. row \in [live: BOOLEAN, agent: Owners, queue: BOOLEAN]
        BY <3>1, <4>3, <4>4
      <4>6. contact' = [contact EXCEPT ![c] = row]
        BY <3>1, <4>1, <4>2, <4>4, Zenon
      <4> QED  BY <3>1, <4>5, <4>6
    <3>3. CASE \E a \in Owners \ {contact[c].agent} : contact' = [contact EXCEPT ![c].agent = a]
      BY <3>1, <3>3
    <3> QED  BY <1>3, <3>2, <3>3 DEF ContactChanges
  <2>3. ops' \in 0..MaxOps
    BY <1>1, <2>1, RequestIs
  <2>4. TypeOK'
    BY <1>1, <2>1, <2>2, <2>3 DEF TypeOK
  <2>5. BoardInv'
    BY <1>1, <2>1, BoardUntouched
  <2>6. TaskInv'
    BY <1>1, <2>1, TasksUntouched
  <2>7. WalkOK'
    BY <1>1, <2>1 DEF WalkOK, Less
  <2> QED  BY <2>4, <2>5, <2>6, <2>7 DEF WorkIInv
<1>4. CASE StageDeals \/ \E u \in Users, s \in Stages : Board(u, s)
  <2>1. /\ contact' = contact /\ pipe' = pipe /\ stage' = stage /\ deal' = deal /\ type' = type /\ task' = task
        /\ jobs' = jobs /\ (Request \/ ops' = ops)
    BY <1>4 DEF StageDeals, Board
  <2>2. pager' \in Pager /\ WalkOK'
    <3>1. deal \in [Deals -> Deal] /\ pager \in Pager
      BY <1>1 DEF TypeOK
    <3> QED  BY <1>1, <1>4, <3>1, WalkStep
  <2>3. ops' \in 0..MaxOps
    BY <1>1, <2>1, RequestIs DEF TypeOK
  <2>4. TypeOK'
    BY <1>1, <2>1, <2>2, <2>3 DEF TypeOK
  <2>5. BoardInv'
    BY <1>1, <2>1, BoardUntouched
  <2>6. TaskInv'
    BY <1>1, <2>1, TasksUntouched
  <2> QED  BY <2>2, <2>4, <2>5, <2>6 DEF WorkIInv
<1> QED  BY <1>2, <1>3, <1>4

LEMMA WorkStep ==
  ASSUME WorkIInv, [Next]_vars  PROVE WorkIInv'
<1>1. CASE vars' = vars
  <2>1. /\ contact' = contact /\ pipe' = pipe /\ stage' = stage /\ deal' = deal /\ type' = type /\ task' = task
        /\ jobs' = jobs /\ pager' = pager /\ ops' = ops
    BY <1>1 DEF vars
  <2>2. TypeOK /\ BoardInv /\ TaskInv /\ WalkOK
    BY DEF WorkIInv
  <2>3. TypeOK'
    BY <2>1, <2>2 DEF TypeOK
  <2>4. BoardInv'
    BY <2>1, <2>2, BoardUntouched
  <2>5. TaskInv'
    BY <2>1, <2>2, TasksUntouched
  <2>6. WalkOK'
    BY <2>1, <2>2 DEF WalkOK, Less
  <2> QED  BY <2>3, <2>4, <2>5, <2>6 DEF WorkIInv
<1>2. CASE DealRequest
  <2>1. ASSUME NEW u \in Users, NEW c \in Contacts, CreateDeal(u, c)  PROVE WorkIInv'
    <3>1. PICK p \in Pipes \cup {0}, s \in Stages \cup {0}, o \in Owners : Request /\ Create(c, o, p, s)
      BY <2>1 DEF CreateDeal, Owners
    <3> QED  BY <3>1, CreateStep
  <2>2. ASSUME NEW c \in Contacts, ActionCreateDeal(c)  PROVE WorkIInv'
    <3>1. PICK p \in Pipes \cup {0}, s \in Stages \cup {0} : Request /\ Create(c, None, p, s)
      BY <2>2 DEF ActionCreateDeal
    <3>2. None \in Owners
      BY DEF Owners
    <3> QED  BY <3>1, <3>2, CreateStep
  <2>3. ASSUME NEW c \in Contacts, ActionMoveDeal(c)  PROVE WorkIInv'
    <3>1. PICK n \in Deals \cup {0}, s \in Stages : \E d \in ResolveDeal(n, c) : Request /\ Move(d, s, 0, 0)
      BY <2>3 DEF ActionMoveDeal
    <3>2. PICK d \in ResolveDeal(n, c) : Request /\ Move(d, s, 0, 0)
      BY <3>1
    <3>3. d \in Deals /\ 0 \in Deals \cup {0}
      BY <3>2 DEF ResolveDeal
    <3> QED  BY <3>2, <3>3, MoveStep
  <2>4. ASSUME NEW u \in Users, NEW d \in Deals, MoveDeal(u, d)  PROVE WorkIInv'
    <3>1. PICK s \in Stages, after \in Deals \cup {0}, before \in Deals \cup {0} : Request /\ Move(d, s, after, before)
      BY <2>4 DEF MoveDeal
    <3> QED  BY <3>1, MoveStep
  <2>5. ASSUME NEW s \in Stages, HandleUpdateStage(s) \/ HandleDeleteStage(s)  PROVE WorkIInv'
    BY <2>5, StageBeginSteps
  <2> QED  BY <1>2, <2>1, <2>2, <2>3, <2>4, <2>5, BoardRequests, OtherSteps DEF DealRequest
<1>3. CASE TaskRequest
  <2>1. ASSUME NEW u \in Users, NEW c \in Contacts, CreateTask(u, c)  PROVE WorkIInv'
    <3>1. PICK y \in Types, given \in Owners : Request /\ CreateTaskFor(c, y, given, u)
      BY <2>1 DEF CreateTask
    <3> QED  BY <3>1, CreateTaskForStep
  <2>2. ASSUME NEW c \in Contacts, ActionCreateTask(c)  PROVE WorkIInv'
    <3>1. PICK y \in Types, given \in Owners, author \in Users : Request /\ CreateTaskFor(c, y, given, author)
      BY <2>2 DEF ActionCreateTask
    <3> QED  BY <3>1, CreateTaskForStep
  <2>3. ASSUME NEW u \in Users, NEW t \in Tasks,
               \/ CloseTask(u, t, "completed") \/ CloseTask(u, t, "cancelled")
               \/ ReopenTask(u, t) \/ UpdateTask(u, t)
        PROVE  WorkIInv'
    BY <2>3, TaskBeginSteps
  <2>4. ASSUME NEW y \in Types, UpdateTaskType(y, TRUE) \/ UpdateTaskType(y, FALSE)  PROVE WorkIInv'
    <3>1. \E arch \in BOOLEAN : UpdateTaskType(y, arch)
      BY <2>4
    <3> QED  BY <3>1, OtherBeginSteps
  <2>5. ASSUME NEW y \in Types, DeleteTaskType(y)  PROVE WorkIInv'
    BY <2>5, DeleteTaskTypeStep
  <2>6. (\E u \in Users, ts \in SUBSET Tasks,
            act \in {"complete", "cancel", "reassign", "reschedule", "delete"} : BulkTasks(u, ts, act)) => WorkIInv'
    BY OtherBeginSteps
  <2>7. (\E u \in Users, t \in Tasks : ReassignTask(u, t) \/ DeleteTask(u, t)) \/ CreateTaskType => WorkIInv'
    BY TaskRequests
  <2> QED  BY <1>3, <2>1, <2>2, <2>3, <2>4, <2>5, <2>6, <2>7 DEF TaskRequest
<1>4. ASSUME NEW i \in Slots, Continue(i)  PROVE WorkIInv'
  BY <1>4, BoardContinues, TaskContinues DEF Continue
<1>5. CASE \E t \in Tasks, k \in Kinds : Lapse(t, k)
  BY <1>5, TaskRequests
<1>6. CASE \E k \in Kinds : NotifyDueTasks(k)
  BY <1>6, OtherBeginSteps
<1>7. CASE Restart \/ (\E c \in Contacts : ContactChanges(c)) \/ StageDeals
  BY <1>7, OtherSteps
<1> QED  BY <1>1, <1>2, <1>3, <1>4, <1>5, <1>6, <1>7 DEF Next

LEMMA WorkBegins == Init => WorkIInv
<1> SUFFICES ASSUME Init  PROVE WorkIInv
  OBVIOUS
<1>1. PICK b \in FirstBoard, c \in Contacts, u \in Users :
        /\ deal = [d \in Deals |-> IF d \in DOMAIN b
                     THEN [NoDeal EXCEPT !.at = "live", !.rank = b[d], !.contact = c] ELSE NoDeal]
        /\ task = [t \in Tasks |-> IF t = 1
                     THEN [NoTask EXCEPT !.at = "live", !.owner = u, !.contact = c, !.type = 2] ELSE NoTask]
  BY DEF Init
<1>2. 1 \in Stages /\ 1 \in Pipes /\ {1, 2} \subseteq Types /\ None \in Owners /\ u \in Owners /\ 1 \in DOMAIN StageTypes
  BY WorkAssumption DEF Stages, Pipes, Types, Owners
<1>3. jobs = [i \in Slots |-> Idle] /\ pager = NoPager /\ ops = 0 /\ SeedPipeline /\ SeedTypes
  BY DEF Init
<1>4. /\ jobs \in [Slots -> Job] /\ \A i \in Slots : jobs[i].k \notin BoardKinds /\ jobs[i].k # "untype"
  <2>1. Idle \in Job /\ Idle.k = "idle"
    BY DEF Job, Idle
  <2> QED  BY <1>3, <2>1 DEF BoardKinds
<1>5. pipe \in [Pipes -> PipeRow]
  <2>1. ASSUME NEW p \in Pipes, NEW a \in {"no", "live", "gone"}, NEW x, x = (p = 1)
        PROVE  [at |-> a, default |-> x, archived |-> FALSE] \in PipeRow
    BY <2>1 DEF PipeRow
  <2> QED  BY <1>3, <2>1 DEF SeedPipeline
<1>6. stage \in [Stages -> StageRow] /\ stage[1].at = "live" /\ stage[1].type = "open"
  <2>1. \A x \in DOMAIN StageTypes : StageTypes[x] \in StageTypeNames
    BY WorkAssumption DEF StageTypeNames
  <2>2. /\ \A t \in StageTypeNames : [at |-> "live", pipe |-> 1, type |-> t] \in StageRow
        /\ [at |-> "no", pipe |-> 1, type |-> "open"] \in StageRow
    BY <1>2 DEF StageRow, StageTypeNames
  <2>3. stage \in [Stages -> StageRow]
    BY <1>3, <2>1, <2>2 DEF SeedPipeline
  <2>4. stage[1] = [at |-> "live", pipe |-> 1, type |-> StageTypes[1]]
    BY <1>2, <1>3 DEF SeedPipeline
  <2> QED  BY <2>3, <2>4, WorkAssumption
<1>7. StagesInOrder
  <2> SUFFICES ASSUME NEW s \in Stages, NEW t \in Stages, s < t, stage[t].at # "no"  PROVE stage[s].at # "no"
    BY DEF StagesInOrder, Made
  <2>1. \A x \in Stages : stage[x].at # "no" <=> x \in DOMAIN StageTypes
    BY <1>3 DEF SeedPipeline
  <2>2. Len(StageTypes) \in Nat /\ DOMAIN StageTypes = 1..Len(StageTypes) /\ s \in Nat /\ s # 0 /\ t \in Nat
    BY WorkAssumption DEF Stages
  <2> QED  BY <2>1, <2>2
<1>8. ASSUME NEW d \in Deals
      PROVE  deal[d] \in Deal /\ deal[d].stage = 1 /\ deal[d].status = "open" /\ deal[d].closed = FALSE
  <2>1. NoDeal \in Deal /\ NoDeal.stage = 1 /\ NoDeal.status = "open" /\ NoDeal.closed = FALSE
    BY <1>2, RankTypes DEF NoDeal, Deal
  <2>2. CASE d \in DOMAIN b
    <3>1. deal[d] = [NoDeal EXCEPT !.at = "live", !.rank = b[d], !.contact = c] /\ b[d] \in Ranks
      BY <1>1, <2>2, WorkAssumption
    <3> QED  BY <2>1, <3>1 DEF Deal
  <2>3. CASE d \notin DOMAIN b
    BY <1>1, <2>1, <2>3
  <2> QED  BY <2>2, <2>3
<1>9. deal \in [Deals -> Deal]
  BY <1>1, <1>8
<1>10. BoardInv
  <2>1. DealsPlaced
    BY <1>6, <1>8 DEF DealsPlaced, Made
  <2>2. \A i \in Slots : JobPlaced(jobs[i]) /\ MoveFits(jobs[i])
    BY <1>4, OtherJob
  <2>3. ASSUME NEW d \in Deals  PROVE Agrees(d)
    BY <1>6, <1>8 DEF Agrees, StatusForStage
  <2> QED  BY <1>7, <2>1, <2>2, <2>3 DEF BoardInv
<1>11. ASSUME NEW t \in Tasks
       PROVE  task[t] \in Task /\ TaskOK(task[t]) /\ (task[t].at = "live" => task[t].type = 2)
  <2>1. PICK wh, st, to : /\ wh = [k \in Kinds |-> "later"] /\ st = [k \in Kinds |-> FALSE]
                          /\ to = [k \in Kinds |-> 0]
    OBVIOUS
  <2>2. wh \in [Kinds -> {"later", "past", "none"}] /\ st \in [Kinds -> BOOLEAN] /\ to \in [Kinds -> 0..2]
        /\ \A k \in Kinds : to[k] = 0 /\ ~st[k]
    BY <2>1
  <2>3. PICK n : n = [at |-> "no", status |-> "open", done |-> FALSE, cancelled |-> FALSE, owner |-> None,
                      contact |-> None, type |-> 1, when |-> wh, stamp |-> st, told |-> to, odd |-> {}]
    OBVIOUS
  <2>4. NoTask = n
    BY <2>1, <2>3 DEF NoTask
  <2>5. task[t] = n \/ task[t] = [n EXCEPT !.at = "live", !.owner = u, !.contact = c, !.type = 2]
    BY <1>1, <2>4
  <2>6. /\ task[t] \in Task /\ task[t].status = "open" /\ task[t].done = FALSE /\ task[t].cancelled = FALSE
        /\ task[t].stamp = st /\ task[t].told = to /\ (task[t].at = "live" => task[t].type = 2)
    <3>1. n \in Task
      BY <1>2, <2>2, <2>3 DEF Task
    <3>2. CASE task[t] = n
      BY <2>3, <3>1, <3>2
    <3>3. CASE task[t] = [n EXCEPT !.at = "live", !.owner = u, !.contact = c, !.type = 2]
      <4>1. task[t] = [at |-> "live", status |-> "open", done |-> FALSE, cancelled |-> FALSE, owner |-> u,
                       contact |-> c, type |-> 2, when |-> wh, stamp |-> st, told |-> to, odd |-> {}]
        BY <2>3, <3>3
      <4>2. task[t] \in Task
        BY <1>2, <2>2, <4>1 DEF Task
      <4> QED  BY <4>1, <4>2
    <3> QED  BY <2>5, <3>2, <3>3
  <2> QED  BY <2>2, <2>6 DEF TaskOK
<1>12. task \in [Tasks -> Task]
  BY <1>1, <1>11
<1>13. type \in [Types -> [at: {"no", "live", "gone"}, system: BOOLEAN, archived: BOOLEAN]] /\ type[2].at = "live"
  <2>1. type = [y \in Types |-> [at |-> IF y <= 2 THEN "live" ELSE "no", system |-> y = 1, archived |-> FALSE]]
    BY <1>3 DEF SeedTypes
  <2>2. type[2].at = "live"
    BY <1>2, <2>1
  <2>3. ASSUME NEW y \in Types, NEW a \in {"no", "live", "gone"}, NEW x, x = (y = 1)
        PROVE  [at |-> a, system |-> x, archived |-> FALSE] \in [at: {"no", "live", "gone"}, system: BOOLEAN, archived: BOOLEAN]
    BY <2>3
  <2> QED  BY <2>1, <2>2, <2>3
<1>14. TaskInv
  BY <1>4, <1>11, <1>13 DEF TaskInv, Typed
<1>15. pager \in Pager /\ WalkOK
  <2>1. NoPager.user \in Users
    BY DEF NoPager
  <2>2. NoPager \in Pager /\ NoPager.kept = {}
    BY <1>2, <2>1, RankTypes DEF NoPager, Pager
  <2> QED  BY <1>3, <2>2 DEF WalkOK
<1>16. contact \in [Contacts -> [live: BOOLEAN, agent: Owners, queue: BOOLEAN]]
  BY <1>2 DEF Init
<1>17. TypeOK
  BY <1>3, <1>4, <1>5, <1>6, <1>9, <1>12, <1>13, <1>15, <1>16, WorkAssumption DEF TypeOK, StageRow, PipeRow
<1> QED  BY <1>10, <1>14, <1>15, <1>17 DEF WorkIInv

(* What a user is shown can be opened, and the badge counts what is listed. *)
LEMMA ListsAgreeAlways == TypeOK => ListsAgree
<1> SUFFICES ASSUME TypeOK, NEW u \in Users
             PROVE  /\ \A d \in ListDeals(u) : VisibleDeal(u, d)
                    /\ ListTasks(u) = {t \in Tasks : CanSeeTask(u, t) /\ contact[task[t].contact].live}
                    /\ DueFor(u) \subseteq ListTasks(u)
  BY DEF ListsAgree
<1>1. \A d \in ListDeals(u) : VisibleDeal(u, d)
  BY DEF ListDeals, List, VisibleDeal
<1>2. ASSUME NEW t \in Tasks
      PROVE  t \in ListTasks(u) <=> CanSeeTask(u, t) /\ contact[task[t].contact].live
  BY DEF ListTasks, CanSeeTask, TaskScope, SeesContact
<1>3. DueFor(u) \subseteq ListTasks(u)
  BY DEF DueFor, ListTasks, TaskScope
<1>4. ListTasks(u) = {t \in Tasks : CanSeeTask(u, t) /\ contact[task[t].contact].live}
  BY <1>2 DEF ListTasks
<1> QED  BY <1>1, <1>3, <1>4

LEMMA WorkFollows == WorkIInv => WorkInv /\ BoardAgrees
<1> SUFFICES ASSUME WorkIInv  PROVE WorkInv /\ BoardAgrees
  OBVIOUS
<1>1. TypeOK /\ BoardInv /\ TaskInv /\ WalkOK
  BY DEF WorkIInv
<1>2. RankFits
  BY <1>1 DEF RankFits, BoardInv, MoveFits
<1>3. PagesComplete
  BY <1>1 DEF PagesComplete, WalkOK
<1>4. ListsAgree
  BY <1>1, ListsAgreeAlways
<1>5. DatesFollowStatus
  BY <1>1 DEF DatesFollowStatus, TaskInv, TaskOK
<1>6. ToldOnce
  <2> SUFFICES ASSUME NEW t \in Tasks, NEW k \in Kinds  PROVE task[t].told[k] <= 1
    BY DEF ToldOnce
  <2>1. task[t].told[k] = 0 \/ task[t].told[k] = 1
    BY <1>1 DEF TaskInv, TaskOK
  <2> QED  BY <2>1
<1>7. NewDeadlineNewPromise
  BY <1>1 DEF NewDeadlineNewPromise, TaskInv, TaskOK
<1>8. TypeKept
  BY <1>1 DEF TypeKept, TaskInv, Typed
<1>9. BoardAgrees
  BY <1>1 DEF BoardAgrees, BoardInv, Agrees
<1> QED  BY <1>1, <1>2, <1>3, <1>4, <1>5, <1>6, <1>7, <1>8, <1>9 DEF WorkInv

-----------------------------------------------------------------------------
(* Theorems                                                                   *)

(* The inductive invariant of deals and tasks, for any users, boards, page     *)
(* size and bounds: ranks, half-done requests, excuses and cursors agree with  *)
(* the rows they were read from (rank.go, service.go, board.go, jobs.go).      *)
THEOREM WorkInvariant == Spec => []WorkIInv
<1>1. WorkIInv /\ [Next]_vars => WorkIInv'
  BY WorkStep
<1> QED  BY WorkBegins, <1>1, PTL DEF Spec

(* Whoever edits at the same time, and whatever a restart interrupts: a card   *)
(* gets a rank between its neighbours (rankBetween), a column read to its end  *)
(* was shown whole (StageDeals), lists and routes agree, the dates of a task   *)
(* follow its status, nobody is told twice of a deadline (notifyTaskBatch), a  *)
(* new deadline is a new promise and no task loses its type (DeleteTaskType).  *)
THEOREM WorkIsSound == Spec => []WorkInv
<1>1. WorkIInv => WorkInv
  BY WorkFollows
<1> QED  BY WorkInvariant, <1>1, PTL

(* The stage of a deal exists and its status follows the stage's type, but for *)
(* the deals that BoardAgrees excuses: those of a stage being retyped, those   *)
(* two requests met on and the closed ones of a deleted pipeline (Move,        *)
(* syncStatusToStage, DeleteStage, DeletePipeline).                            *)
THEOREM BoardsAgree == Spec => []BoardAgrees
<1>1. WorkIInv => BoardAgrees
  BY WorkFollows
<1> QED  BY WorkInvariant, <1>1, PTL
=============================================================================
