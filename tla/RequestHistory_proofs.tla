----------------------- MODULE RequestHistory_proofs -----------------------
(***************************************************************************)
(* Theorems about RequestHistory, for every set of ids, every budget and   *)
(* sessions of any length.  The governor and the sanitizer are folds over  *)
(* sequences: the first lemmas turn a fold into the sequence of its        *)
(* intermediate values, by induction over sets of natural numbers.         *)
(***************************************************************************)
EXTENDS RequestHistory, WellFoundedInduction, TLAPS

-----------------------------------------------------------------------------
(* Induction *)

LEMMA SetInduction ==
  ASSUME NEW S \in SUBSET Nat, 0 \in S, \A n \in S : n + 1 \in S
  PROVE  S = Nat
<1> SUFFICES ASSUME S # Nat PROVE FALSE
  OBVIOUS
<1> DEFINE T == Nat \ S
           R == OpToRel(<, Nat)
<1>1. T \subseteq Nat /\ T # {}
  OBVIOUS
<1>2. IsWellFoundedOn(R, Nat)
  BY NatLessThanWellFounded
<1>3. \A y \in Nat, x \in Nat : y < x => <<y, x>> \in R
  BY DEF OpToRel
<1> HIDE DEF R, T
<1>4. PICK x \in T : \A y \in T : <<y, x>> \notin R
  BY <1>1, <1>2, WFMin
<1>5. x \in Nat /\ x - 1 \in T /\ x - 1 \in Nat
  BY <1>4 DEF T
<1>6. <<x - 1, x>> \in R
  BY <1>3, <1>5
<1> QED BY <1>4, <1>5, <1>6

\* the same for the numbers up to a bound
LEMMA UpTo ==
  ASSUME NEW N \in Nat, NEW S, 0 \in S, \A n \in 0 .. N - 1 : n \in S => n + 1 \in S
  PROVE  0 .. N \subseteq S
<1> DEFINE T == {n \in Nat : n <= N => n \in S}
<1>1. T = Nat
  <2>1. 0 \in T /\ \A n \in T : n + 1 \in T
    OBVIOUS
  <2> HIDE DEF T
  <2>2. T \in SUBSET Nat
    BY DEF T
  <2> QED BY <2>1, <2>2, SetInduction
<1> QED BY <1>1

LEMMA MinIs ==
  ASSUME NEW S \in SUBSET Int, NEW x \in S, \A y \in S : x <= y
  PROVE  Min(S) = x
<1> DEFINE m == CHOOSE z \in S : \A y \in S : z <= y
<1>1. m \in S /\ \A y \in S : m <= y
  OBVIOUS
<1>2. Min(S) = m
  BY DEF Min
<1> HIDE DEF m
<1>3. m <= x /\ x <= m /\ m \in Int /\ x \in Int
  BY <1>1
<1> QED BY <1>2, <1>3

LEMMA MaxIs ==
  ASSUME NEW S \in SUBSET Int, NEW x \in S, \A y \in S : y <= x
  PROVE  Max(S) = x
<1> DEFINE m == CHOOSE z \in S : \A y \in S : z >= y
<1>1. m \in S /\ \A y \in S : m >= y
  OBVIOUS
<1>2. Max(S) = m
  BY DEF Max
<1> HIDE DEF m
<1>3. m >= x /\ m <= x /\ m \in Int /\ x \in Int
  BY <1>1
<1> QED BY <1>2, <1>3

LEMMA MinElement ==
  ASSUME NEW S \in SUBSET Nat, S # {}
  PROVE  Min(S) \in S /\ \A x \in S : Min(S) <= x
<1> DEFINE R == OpToRel(<, Nat)
<1>1. IsWellFoundedOn(R, Nat)
  BY NatLessThanWellFounded
<1>2. \A y \in Nat, x \in Nat : y < x => <<y, x>> \in R
  BY DEF OpToRel
<1> HIDE DEF R
<1>3. PICK x \in S : \A y \in S : <<y, x>> \notin R
  BY <1>1, WFMin
<1>4. ASSUME NEW y \in S PROVE x <= y
  <2>1. x \in Nat /\ y \in Nat
    OBVIOUS
  <2>2. ~(y < x)
    BY <1>2, <1>3, <2>1
  <2> QED BY <2>1, <2>2
<1> QED BY <1>4, MinIs

-----------------------------------------------------------------------------
(* Folds: Runs(h, N, S, base, step) says that h lists the N + 1 values that *)
(* a fold goes through, which lie in S.                                     *)

Runs(h, N, S, base, step) ==
  /\ h \in [0 .. N -> S] /\ h[0] = base
  /\ \A k \in 1 .. N : h[k] = step[<<h[k - 1], k>>]

\* g satisfies the equations of the fold on the sets of indices; f satisfies
\* them where its values lie in S
Folding(g, N, S, base, step) ==
  /\ g \in [SUBSET (1 .. N) -> S]
  /\ \A s \in SUBSET (1 .. N) :
       g[s] = IF s = {} THEN base ELSE step[<<g[s \ {Max(s)}], Max(s)>>]

Follows(f, N, S, base, step) ==
  /\ f[{}] = base
  /\ \A s \in SUBSET (1 .. N) :
       s # {} /\ f[s \ {Max(s)}] \in S => f[s] = step[<<f[s \ {Max(s)}], Max(s)>>]

\* the function that MapThenFoldSet chooses exists
LEMMA FoldExists ==
  ASSUME NEW N \in Nat, NEW S, NEW base \in S, NEW step \in [S \X (1 .. N) -> S]
  PROVE  /\ \A s \in SUBSET (1 .. N) : s # {} => Max(s) \in 1 .. N
         /\ \E g : Folding(g, N, S, base, step)
<1> DEFINE Good(n) ==
      /\ \A s \in SUBSET (1 .. n) : s # {} => Max(s) \in 1 .. n
      /\ \E g \in [SUBSET (1 .. n) -> S] : \A s \in SUBSET (1 .. n) :
           g[s] = IF s = {} THEN base ELSE step[<<g[s \ {Max(s)}], Max(s)>>]
<1>1. Good(0)
  <2> DEFINE g == [s \in SUBSET (1 .. 0) |-> base]
  <2>1. \A s \in SUBSET (1 .. 0) : s = {}
    OBVIOUS
  <2>2. g \in [SUBSET (1 .. 0) -> S] /\ \A s \in SUBSET (1 .. 0) : g[s] = base
    OBVIOUS
  <2> QED BY <2>1, <2>2
<1>2. ASSUME NEW n \in 0 .. N - 1, Good(n) PROVE Good(n + 1)
  <2>1. PICK g \in [SUBSET (1 .. n) -> S] : \A s \in SUBSET (1 .. n) :
          g[s] = IF s = {} THEN base ELSE step[<<g[s \ {Max(s)}], Max(s)>>]
    BY <1>2
  <2> DEFINE h == [s \in SUBSET (1 .. n + 1) |->
                     IF n + 1 \in s THEN step[<<g[s \ {n + 1}], n + 1>>] ELSE g[s]]
  <2>2. \A s \in SUBSET (1 .. n + 1) : s \ {n + 1} \in SUBSET (1 .. n)
    OBVIOUS
  <2>3. n + 1 \in 1 .. N
    OBVIOUS
  <2>4. h \in [SUBSET (1 .. n + 1) -> S]
    <3> SUFFICES ASSUME NEW s \in SUBSET (1 .. n + 1)
                 PROVE  (IF n + 1 \in s THEN step[<<g[s \ {n + 1}], n + 1>>] ELSE g[s]) \in S
      OBVIOUS
    <3>1. g[s \ {n + 1}] \in S
      BY <2>1, <2>2
    <3>2. n + 1 \notin s => s \in SUBSET (1 .. n)
      BY <2>2
    <3> QED BY <2>1, <2>3, <3>1, <3>2
  <2>5. ASSUME NEW s \in SUBSET (1 .. n + 1), n + 1 \in s
        PROVE  Max(s) = n + 1 /\ h[s] = step[<<h[s \ {n + 1}], n + 1>>]
    <3>1. Max(s) = n + 1
      BY <2>5, MaxIs
    <3>2. h[s \ {n + 1}] = g[s \ {n + 1}]
      BY <2>2
    <3> QED BY <2>5, <3>1, <3>2
  <2>6. ASSUME NEW s \in SUBSET (1 .. n + 1), n + 1 \notin s
        PROVE  s \in SUBSET (1 .. n) /\ h[s] = g[s] /\ \A x : h[s \ {x}] = g[s \ {x}]
    BY <2>2, <2>6
  <2>7. ASSUME NEW s \in SUBSET (1 .. n + 1)
        PROVE  /\ s # {} => Max(s) \in 1 .. n + 1
               /\ h[s] = IF s = {} THEN base ELSE step[<<h[s \ {Max(s)}], Max(s)>>]
    <3>1. CASE n + 1 \in s
      BY <2>5, <3>1
    <3>2. CASE n + 1 \notin s
      <4> HIDE DEF h
      <4>1. s \in SUBSET (1 .. n) /\ h[s] = g[s] /\ h[s \ {Max(s)}] = g[s \ {Max(s)}]
        BY <2>6, <3>2
      <4>2. s # {} => Max(s) \in 1 .. n
        BY <1>2, <4>1
      <4> QED BY <2>1, <4>1, <4>2
    <3> QED BY <3>1, <3>2
  <2> HIDE DEF h
  <2> QED BY <2>4, <2>7
<1> HIDE DEF Good
<1>3. N \in {n \in 0 .. N : Good(n)}
  <2> DEFINE T == {n \in 0 .. N : Good(n)}
  <2>1. 0 \in T /\ \A n \in 0 .. N - 1 : n \in T => n + 1 \in T
    BY <1>1, <1>2
  <2> HIDE DEF T
  <2>2. 0 .. N \subseteq T
    BY <2>1, UpTo
  <2> QED BY <2>2 DEF T
<1> QED BY <1>3 DEF Good, Folding

LEMMA MaxUpTo ==
  ASSUME NEW N \in Nat, NEW s \in SUBSET (1 .. N), s # {}
  PROVE  Max(s) \in 1 .. N
<1> DEFINE step == [p \in {0} \X (1 .. N) |-> 0]
<1>1. step \in [{0} \X (1 .. N) -> {0}]
  OBVIOUS
<1> HIDE DEF step
<1> QED BY <1>1, FoldExists

\* its values on the prefixes are those the fold goes through
LEMMA FoldRuns ==
  ASSUME NEW N \in Nat, NEW S, NEW base \in S, NEW step \in [S \X (1 .. N) -> S],
         NEW g, Follows(g, N, S, base, step)
  PROVE  Runs([k \in 0 .. N |-> g[1 .. k]], N, S, base, step)
<1>1. ASSUME NEW k \in 1 .. N
      PROVE  /\ 1 .. k \in SUBSET (1 .. N) /\ 1 .. k # {} /\ Max(1 .. k) = k
             /\ (1 .. k) \ {k} = 1 .. (k - 1)
  <2>1. Max(1 .. k) = k
    <3>1. 1 .. k \in SUBSET Int /\ k \in 1 .. k /\ \A y \in 1 .. k : y <= k
      OBVIOUS
    <3> QED BY <3>1, MaxIs
  <2>2. k \in Nat /\ k - 1 \in Nat /\ k <= N /\ 1 .. k # {}
    OBVIOUS
  <2>3. (1 .. k) \ {k} = 1 .. (k - 1)
    BY <2>2
  <2> QED BY <2>1, <2>2, <2>3
<1>2. ASSUME NEW k \in 1 .. N, g[1 .. (k - 1)] \in S
      PROVE  g[1 .. k] = step[<<g[1 .. (k - 1)], k>>]
  BY <1>1, <1>2 DEF Follows
<1>3. ASSUME NEW k \in 0 .. N PROVE g[1 .. k] \in S
  <2> DEFINE T == {n \in 0 .. N : g[1 .. n] \in S}
  <2>1. 0 \in T
    <3>1. 1 .. 0 = {}
      OBVIOUS
    <3> QED BY <3>1 DEF Follows
  <2>2. ASSUME NEW n \in 0 .. N - 1, n \in T PROVE n + 1 \in T
    <3>1. n + 1 \in 1 .. N /\ (n + 1) - 1 = n
      OBVIOUS
    <3>2. g[1 .. (n + 1)] = step[<<g[1 .. n], n + 1>>]
      BY <1>2, <2>2, <3>1
    <3> QED BY <2>2, <3>1, <3>2
  <2> HIDE DEF T
  <2>3. 0 .. N \subseteq T
    BY <2>1, <2>2, UpTo
  <2> QED BY <2>3 DEF T
<1>4. 1 .. 0 = {}
  OBVIOUS
<1>5. \A k \in 1 .. N : k - 1 \in 0 .. N
  OBVIOUS
<1> DEFINE h == [k \in 0 .. N |-> g[1 .. k]]
<1>6. h \in [0 .. N -> S] /\ h[0] = base
  BY <1>3, <1>4 DEF Follows
<1>7. ASSUME NEW k \in 1 .. N PROVE h[k] = step[<<h[k - 1], k>>]
  <2>1. k \in 0 .. N /\ k - 1 \in 0 .. N
    OBVIOUS
  <2>2. h[k] = g[1 .. k] /\ h[k - 1] = g[1 .. (k - 1)] /\ g[1 .. (k - 1)] \in S
    BY <1>3, <2>1
  <2> HIDE DEF h
  <2> QED BY <1>2, <2>2
<1> QED BY <1>6, <1>7 DEF Runs


-----------------------------------------------------------------------------
(* Blocks and messages *)

Block == [kind : {"text", "use", "result"}, id : Ids \cup {None}, size : Nat]
Role == {"user", "assistant", "system"}
Message == [role : Role, blocks : Seq(Block)]

LEMMA BlockTypes ==
  /\ \A n \in Nat : Text(n) \in Block
  /\ \A i \in Ids, n \in Nat : Use(i, n) \in Block
  /\ \A i \in Ids : Result(i) \in Block
BY SizeAssumption DEF Block, Text, Use, Result

\* The governor's character count of one message goes through its blocks
LEMMA SizeRuns ==
  ASSUME NEW m \in Message
  PROVE  \E h \in [0 .. Len(m.blocks) -> Nat] :
           /\ h[0] = 0 /\ Size(m) = h[Len(m.blocks)]
           /\ \A k \in 1 .. Len(m.blocks) : h[k] = h[k - 1] + m.blocks[k].size
<1> DEFINE N == Len(m.blocks)
           S == Nat
           base == 0
           step == [p \in S \X (1 .. N) |-> p[1] + m.blocks[p[2]].size]
           Iter == CHOOSE iter : iter = [s \in SUBSET DOMAIN m.blocks |->
                     IF s = {} THEN base ELSE iter[s \ {Max(s)}] + m.blocks[Max(s)].size]
<1>1. N \in Nat /\ DOMAIN m.blocks = 1 .. N /\ \A k \in 1 .. N : m.blocks[k] \in Block
  BY DEF Message
<1>2. Size(m) = Iter[DOMAIN m.blocks]
  BY DEF Size, FoldLeft, MapThenFoldSet
<1>3. base \in S /\ \A v \in S, k \in 1 .. N : v + m.blocks[k].size \in S
  BY <1>1 DEF Block
<1>4. \A v \in S, k \in 1 .. N : step[<<v, k>>] = v + m.blocks[k].size
  OBVIOUS
<1>5. step \in [S \X (1 .. N) -> S]
  <2> HIDE DEF S
  <2> QED BY <1>3
<1> HIDE DEF step, S, base
<1>6. \A s \in SUBSET (1 .. N) : s # {} => Max(s) \in 1 .. N
  BY <1>1, MaxUpTo
<1>7. PICK g : Folding(g, N, S, base, step)
  BY <1>1, <1>3, <1>5, FoldExists
<1>8. \A s \in SUBSET (1 .. N) :
        g[s] = IF s = {} THEN base ELSE g[s \ {Max(s)}] + m.blocks[Max(s)].size
  BY <1>4, <1>6, <1>7 DEF Folding
<1>9. g = [s \in SUBSET DOMAIN m.blocks |->
             IF s = {} THEN base ELSE g[s \ {Max(s)}] + m.blocks[Max(s)].size]
  BY <1>1, <1>7, <1>8 DEF Folding
<1>10. Iter = [s \in SUBSET DOMAIN m.blocks |->
                 IF s = {} THEN base ELSE Iter[s \ {Max(s)}] + m.blocks[Max(s)].size]
  BY <1>9
<1> HIDE DEF Iter
<1>11. Follows(Iter, N, S, base, step)
  BY <1>1, <1>4, <1>6, <1>10 DEF Follows
<1> HIDE DEF N
<1> DEFINE h == [k \in 0 .. N |-> Iter[1 .. k]]
<1>12. Runs(h, N, S, base, step)
  BY <1>1, <1>3, <1>5, <1>11, FoldRuns
<1>13. h[N] = Iter[1 .. N]
  BY <1>1
<1> HIDE DEF h
<1>14. \A k \in 1 .. N : k - 1 \in 0 .. N
  BY <1>1
<1>15. /\ h \in [0 .. N -> S] /\ h[0] = base
       /\ \A k \in 1 .. N : h[k] = h[k - 1] + m.blocks[k].size
  BY <1>4, <1>12, <1>14 DEF Runs
<1> QED BY <1>1, <1>2, <1>13, <1>15 DEF N, S, base

LEMMA SizeType ==
  ASSUME NEW m \in Message
  PROVE  Size(m) \in Nat
<1>1. PICK h \in [0 .. Len(m.blocks) -> Nat] : Size(m) = h[Len(m.blocks)]
  BY SizeRuns
<1>2. Len(m.blocks) \in Nat
  BY DEF Message
<1> QED BY <1>1, <1>2

\* and that of a conversation through its messages
LEMMA CharsRuns ==
  ASSUME NEW ms \in Seq(Message)
  PROVE  \E h \in [0 .. Len(ms) -> Nat] :
           /\ h[0] = 0 /\ Chars(ms) = h[Len(ms)]
           /\ \A k \in 1 .. Len(ms) : h[k] = h[k - 1] + Size(ms[k])
<1> DEFINE N == Len(ms)
           S == Nat
           base == 0
           step == [p \in S \X (1 .. N) |-> p[1] + Size(ms[p[2]])]
           Iter == CHOOSE iter : iter = [s \in SUBSET DOMAIN ms |->
                     IF s = {} THEN base ELSE iter[s \ {Max(s)}] + Size(ms[Max(s)])]
<1>1. N \in Nat /\ DOMAIN ms = 1 .. N /\ \A k \in 1 .. N : ms[k] \in Message
  OBVIOUS
<1>2. Chars(ms) = Iter[DOMAIN ms]
  BY DEF Chars, FoldLeft, MapThenFoldSet
<1>3. base \in S /\ \A v \in S, k \in 1 .. N : v + Size(ms[k]) \in S
  BY <1>1, SizeType
<1>4. \A v \in S, k \in 1 .. N : step[<<v, k>>] = v + Size(ms[k])
  OBVIOUS
<1>5. step \in [S \X (1 .. N) -> S]
  <2> HIDE DEF S
  <2> QED BY <1>3
<1> HIDE DEF step, S, base
<1>6. \A s \in SUBSET (1 .. N) : s # {} => Max(s) \in 1 .. N
  BY <1>1, MaxUpTo
<1>7. PICK g : Folding(g, N, S, base, step)
  BY <1>1, <1>3, <1>5, FoldExists
<1>8. \A s \in SUBSET (1 .. N) :
        g[s] = IF s = {} THEN base ELSE g[s \ {Max(s)}] + Size(ms[Max(s)])
  BY <1>4, <1>6, <1>7 DEF Folding
<1>9. g = [s \in SUBSET DOMAIN ms |->
             IF s = {} THEN base ELSE g[s \ {Max(s)}] + Size(ms[Max(s)])]
  BY <1>1, <1>7, <1>8 DEF Folding
<1>10. Iter = [s \in SUBSET DOMAIN ms |->
                 IF s = {} THEN base ELSE Iter[s \ {Max(s)}] + Size(ms[Max(s)])]
  BY <1>9
<1> HIDE DEF Iter
<1>11. Follows(Iter, N, S, base, step)
  BY <1>1, <1>4, <1>6, <1>10 DEF Follows
<1> HIDE DEF N
<1> DEFINE h == [k \in 0 .. N |-> Iter[1 .. k]]
<1>12. Runs(h, N, S, base, step)
  BY <1>1, <1>3, <1>5, <1>11, FoldRuns
<1>13. h[N] = Iter[1 .. N]
  BY <1>1
<1> HIDE DEF h
<1>14. \A k \in 1 .. N : k - 1 \in 0 .. N
  BY <1>1
<1>15. /\ h \in [0 .. N -> S] /\ h[0] = base
       /\ \A k \in 1 .. N : h[k] = h[k - 1] + Size(ms[k])
  BY <1>4, <1>12, <1>14 DEF Runs
<1> QED BY <1>1, <1>2, <1>13, <1>15 DEF N, S, base

\* Removing the calls of a message goes through its blocks
LEMMA OtherBlocksRuns ==
  ASSUME NEW blocks \in Seq(Block)
  PROVE  \E h \in [0 .. Len(blocks) -> Seq(Block)] :
           /\ h[0] = <<>> /\ OtherBlocks(blocks) = h[Len(blocks)]
           /\ \A k \in 1 .. Len(blocks) : h[k] = (IF blocks[k].kind = "use" THEN h[k - 1] ELSE Append(h[k - 1], blocks[k]))
<1> DEFINE N == Len(blocks)
           S == Seq(Block)
           base == <<>>
           step == [p \in S \X (1 .. N) |-> (IF blocks[p[2]].kind = "use" THEN p[1] ELSE Append(p[1], blocks[p[2]]))]
           Iter == CHOOSE iter : iter = [s \in SUBSET DOMAIN blocks |->
                     IF s = {} THEN base ELSE (IF blocks[Max(s)].kind = "use" THEN iter[s \ {Max(s)}] ELSE Append(iter[s \ {Max(s)}], blocks[Max(s)]))]
<1>1. N \in Nat /\ DOMAIN blocks = 1 .. N /\ \A k \in 1 .. N : blocks[k] \in Block
  OBVIOUS
<1>2. OtherBlocks(blocks) = Iter[DOMAIN blocks]
  BY DEF OtherBlocks, FoldLeft, MapThenFoldSet
<1>3. base \in S /\ \A v \in S, k \in 1 .. N : (IF blocks[k].kind = "use" THEN v ELSE Append(v, blocks[k])) \in S
  BY <1>1
<1>4. \A v \in S, k \in 1 .. N : step[<<v, k>>] = (IF blocks[k].kind = "use" THEN v ELSE Append(v, blocks[k]))
  OBVIOUS
<1>5. step \in [S \X (1 .. N) -> S]
  <2> HIDE DEF S
  <2> QED BY <1>3
<1> HIDE DEF step, S, base
<1>6. \A s \in SUBSET (1 .. N) : s # {} => Max(s) \in 1 .. N
  BY <1>1, MaxUpTo
<1>7. PICK g : Folding(g, N, S, base, step)
  BY <1>1, <1>3, <1>5, FoldExists
<1>8. \A s \in SUBSET (1 .. N) :
        g[s] = IF s = {} THEN base ELSE (IF blocks[Max(s)].kind = "use" THEN g[s \ {Max(s)}] ELSE Append(g[s \ {Max(s)}], blocks[Max(s)]))
  BY <1>4, <1>6, <1>7 DEF Folding
<1>9. g = [s \in SUBSET DOMAIN blocks |->
             IF s = {} THEN base ELSE (IF blocks[Max(s)].kind = "use" THEN g[s \ {Max(s)}] ELSE Append(g[s \ {Max(s)}], blocks[Max(s)]))]
  BY <1>1, <1>7, <1>8 DEF Folding
<1>10. Iter = [s \in SUBSET DOMAIN blocks |->
                 IF s = {} THEN base ELSE (IF blocks[Max(s)].kind = "use" THEN Iter[s \ {Max(s)}] ELSE Append(Iter[s \ {Max(s)}], blocks[Max(s)]))]
  BY <1>9
<1> HIDE DEF Iter
<1>11. Follows(Iter, N, S, base, step)
  BY <1>1, <1>4, <1>6, <1>10 DEF Follows
<1> HIDE DEF N
<1> DEFINE h == [k \in 0 .. N |-> Iter[1 .. k]]
<1>12. Runs(h, N, S, base, step)
  BY <1>1, <1>3, <1>5, <1>11, FoldRuns
<1>13. h[N] = Iter[1 .. N]
  BY <1>1
<1> HIDE DEF h
<1>14. \A k \in 1 .. N : k - 1 \in 0 .. N
  BY <1>1
<1>15. /\ h \in [0 .. N -> S] /\ h[0] = base
       /\ \A k \in 1 .. N : h[k] = (IF blocks[k].kind = "use" THEN h[k - 1] ELSE Append(h[k - 1], blocks[k]))
  BY <1>4, <1>12, <1>14 DEF Runs
<1> QED BY <1>1, <1>2, <1>13, <1>15 DEF N, S, base

\* and removing what is left empty through the messages
LEMMA NonEmptyRuns ==
  ASSUME NEW ms \in Seq(Message)
  PROVE  \E h \in [0 .. Len(ms) -> Seq(Message)] :
           /\ h[0] = <<>> /\ NonEmpty(ms) = h[Len(ms)]
           /\ \A k \in 1 .. Len(ms) : h[k] = (IF ms[k].blocks = <<>> THEN h[k - 1] ELSE Append(h[k - 1], ms[k]))
<1> DEFINE N == Len(ms)
           S == Seq(Message)
           base == <<>>
           step == [p \in S \X (1 .. N) |-> (IF ms[p[2]].blocks = <<>> THEN p[1] ELSE Append(p[1], ms[p[2]]))]
           Iter == CHOOSE iter : iter = [s \in SUBSET DOMAIN ms |->
                     IF s = {} THEN base ELSE (IF ms[Max(s)].blocks = <<>> THEN iter[s \ {Max(s)}] ELSE Append(iter[s \ {Max(s)}], ms[Max(s)]))]
<1>1. N \in Nat /\ DOMAIN ms = 1 .. N /\ \A k \in 1 .. N : ms[k] \in Message
  OBVIOUS
<1>2. NonEmpty(ms) = Iter[DOMAIN ms]
  BY DEF NonEmpty, FoldLeft, MapThenFoldSet
<1>3. base \in S /\ \A v \in S, k \in 1 .. N : (IF ms[k].blocks = <<>> THEN v ELSE Append(v, ms[k])) \in S
  BY <1>1
<1>4. \A v \in S, k \in 1 .. N : step[<<v, k>>] = (IF ms[k].blocks = <<>> THEN v ELSE Append(v, ms[k]))
  OBVIOUS
<1>5. step \in [S \X (1 .. N) -> S]
  <2> HIDE DEF S
  <2> QED BY <1>3
<1> HIDE DEF step, S, base
<1>6. \A s \in SUBSET (1 .. N) : s # {} => Max(s) \in 1 .. N
  BY <1>1, MaxUpTo
<1>7. PICK g : Folding(g, N, S, base, step)
  BY <1>1, <1>3, <1>5, FoldExists
<1>8. \A s \in SUBSET (1 .. N) :
        g[s] = IF s = {} THEN base ELSE (IF ms[Max(s)].blocks = <<>> THEN g[s \ {Max(s)}] ELSE Append(g[s \ {Max(s)}], ms[Max(s)]))
  BY <1>4, <1>6, <1>7 DEF Folding
<1>9. g = [s \in SUBSET DOMAIN ms |->
             IF s = {} THEN base ELSE (IF ms[Max(s)].blocks = <<>> THEN g[s \ {Max(s)}] ELSE Append(g[s \ {Max(s)}], ms[Max(s)]))]
  BY <1>1, <1>7, <1>8 DEF Folding
<1>10. Iter = [s \in SUBSET DOMAIN ms |->
                 IF s = {} THEN base ELSE (IF ms[Max(s)].blocks = <<>> THEN Iter[s \ {Max(s)}] ELSE Append(Iter[s \ {Max(s)}], ms[Max(s)]))]
  BY <1>9
<1> HIDE DEF Iter
<1>11. Follows(Iter, N, S, base, step)
  BY <1>1, <1>4, <1>6, <1>10 DEF Follows
<1> HIDE DEF N
<1> DEFINE h == [k \in 0 .. N |-> Iter[1 .. k]]
<1>12. Runs(h, N, S, base, step)
  BY <1>1, <1>3, <1>5, <1>11, FoldRuns
<1>13. h[N] = Iter[1 .. N]
  BY <1>1
<1> HIDE DEF h
<1>14. \A k \in 1 .. N : k - 1 \in 0 .. N
  BY <1>1
<1>15. /\ h \in [0 .. N -> S] /\ h[0] = base
       /\ \A k \in 1 .. N : h[k] = (IF ms[k].blocks = <<>> THEN h[k - 1] ELSE Append(h[k - 1], ms[k]))
  BY <1>4, <1>12, <1>14 DEF Runs
<1> QED BY <1>1, <1>2, <1>13, <1>15 DEF N, S, base

LEMMA OtherBlocksType ==
  ASSUME NEW blocks \in Seq(Block)
  PROVE  OtherBlocks(blocks) \in Seq(Block)
<1>1. PICK h \in [0 .. Len(blocks) -> Seq(Block)] : OtherBlocks(blocks) = h[Len(blocks)]
  BY OtherBlocksRuns
<1>2. Len(blocks) \in Nat
  OBVIOUS
<1> QED BY <1>1, <1>2

\* what taking blocks, and the pass over the messages, carry along
Taken == [kept : Seq(Block), expected : SUBSET (Ids \cup {None})]
PassState == [out : Seq(Message), expected : SUBSET (Ids \cup {None}), pending : Nat]

LEMMA TakeBlockType ==
  ASSUME NEW role \in Role, NEW st \in Taken, NEW b \in Block
  PROVE  TakeBlock(role, st, b) \in Taken
<1>1. /\ st.kept \in Seq(Block) /\ st.expected \in SUBSET (Ids \cup {None})
      /\ st = [kept |-> st.kept, expected |-> st.expected]
  BY DEF Taken
<1>2. Append(st.kept, b) \in Seq(Block)
  BY <1>1
<1>3. /\ [st EXCEPT !.kept = Append(@, b)] = [kept |-> Append(st.kept, b), expected |-> st.expected]
      /\ [kept |-> Append(st.kept, b), expected |-> st.expected] \in Taken
      /\ [kept |-> Append(st.kept, b), expected |-> st.expected \ {b.id}] \in Taken
  <2> DEFINE kept == Append(st.kept, b)
  <2>1. [st EXCEPT !.kept = Append(@, b)] = [kept |-> kept, expected |-> st.expected]
    BY <1>1
  <2>2. kept \in Seq(Block) /\ st.expected \ {b.id} \in SUBSET (Ids \cup {None})
    BY <1>1, <1>2
  <2> HIDE DEF kept
  <2>3. /\ [kept |-> kept, expected |-> st.expected] \in Taken
        /\ [kept |-> kept, expected |-> st.expected \ {b.id}] \in Taken
    BY <1>1, <2>2 DEF Taken
  <2> QED BY <2>1, <2>3 DEF kept
<1> QED BY <1>3 DEF TakeBlock

\* The sanitizer takes the blocks of a message one by one
LEMMA TakeRuns ==
  ASSUME NEW role \in Role, NEW expected \in SUBSET (Ids \cup {None}), NEW blocks \in Seq(Block)
  PROVE  \E h \in [0 .. Len(blocks) -> Taken] :
           /\ h[0] = [kept |-> <<>>, expected |-> expected] /\ TakeBlocks(role, expected, blocks) = h[Len(blocks)]
           /\ \A k \in 1 .. Len(blocks) : h[k] = TakeBlock(role, h[k - 1], blocks[k])
<1> DEFINE N == Len(blocks)
           S == Taken
           base == [kept |-> <<>>, expected |-> expected]
           step == [p \in S \X (1 .. N) |-> TakeBlock(role, p[1], blocks[p[2]])]
           Iter == CHOOSE iter : iter = [s \in SUBSET DOMAIN blocks |->
                     IF s = {} THEN base ELSE TakeBlock(role, iter[s \ {Max(s)}], blocks[Max(s)])]
<1>1. N \in Nat /\ DOMAIN blocks = 1 .. N /\ \A k \in 1 .. N : blocks[k] \in Block
  OBVIOUS
<1>2. TakeBlocks(role, expected, blocks) = Iter[DOMAIN blocks]
  BY DEF TakeBlocks, FoldLeft, MapThenFoldSet
<1>3. base \in S /\ \A v \in S, k \in 1 .. N : TakeBlock(role, v, blocks[k]) \in S
  BY <1>1, TakeBlockType DEF Taken
<1>4. \A v \in S, k \in 1 .. N : step[<<v, k>>] = TakeBlock(role, v, blocks[k])
  OBVIOUS
<1>5. step \in [S \X (1 .. N) -> S]
  <2> HIDE DEF S
  <2> QED BY <1>3
<1> HIDE DEF step, S, base
<1>6. \A s \in SUBSET (1 .. N) : s # {} => Max(s) \in 1 .. N
  BY <1>1, MaxUpTo
<1>7. PICK g : Folding(g, N, S, base, step)
  BY <1>1, <1>3, <1>5, FoldExists
<1>8. \A s \in SUBSET (1 .. N) :
        g[s] = IF s = {} THEN base ELSE TakeBlock(role, g[s \ {Max(s)}], blocks[Max(s)])
  BY <1>4, <1>6, <1>7 DEF Folding
<1>9. g = [s \in SUBSET DOMAIN blocks |->
             IF s = {} THEN base ELSE TakeBlock(role, g[s \ {Max(s)}], blocks[Max(s)])]
  BY <1>1, <1>7, <1>8 DEF Folding
<1>10. Iter = [s \in SUBSET DOMAIN blocks |->
                 IF s = {} THEN base ELSE TakeBlock(role, Iter[s \ {Max(s)}], blocks[Max(s)])]
  BY <1>9
<1> HIDE DEF Iter
<1>11. Follows(Iter, N, S, base, step)
  BY <1>1, <1>4, <1>6, <1>10 DEF Follows
<1> HIDE DEF N
<1> DEFINE h == [k \in 0 .. N |-> Iter[1 .. k]]
<1>12. Runs(h, N, S, base, step)
  BY <1>1, <1>3, <1>5, <1>11, FoldRuns
<1>13. h[N] = Iter[1 .. N]
  BY <1>1
<1> HIDE DEF h
<1>14. \A k \in 1 .. N : k - 1 \in 0 .. N
  BY <1>1
<1>15. /\ h \in [0 .. N -> S] /\ h[0] = base
       /\ \A k \in 1 .. N : h[k] = TakeBlock(role, h[k - 1], blocks[k])
  BY <1>4, <1>12, <1>14 DEF Runs
<1> QED BY <1>1, <1>2, <1>13, <1>15 DEF N, S, base

LEMMA TakeBlocksType ==
  ASSUME NEW role \in Role, NEW expected \in SUBSET (Ids \cup {None}), NEW blocks \in Seq(Block)
  PROVE  TakeBlocks(role, expected, blocks) \in Taken
<1>1. PICK h \in [0 .. Len(blocks) -> Taken] :
        /\ h[0] = [kept |-> <<>>, expected |-> expected]
        /\ TakeBlocks(role, expected, blocks) = h[Len(blocks)]
        /\ \A k \in 1 .. Len(blocks) : h[k] = TakeBlock(role, h[k - 1], blocks[k])
  BY TakeRuns
<1>2. Len(blocks) \in Nat
  OBVIOUS
<1> QED BY <1>1, <1>2

LEMMA IdsOfType ==
  ASSUME NEW kind, NEW m \in Message
  PROVE  IdsOf(kind, m) \in SUBSET (Ids \cup {None})
<1>1. \A b \in Range(m.blocks) : b \in Block
  BY DEF Message, Range
<1> QED BY <1>1 DEF IdsOf, Block

LEMMA ExceptType ==
  ASSUME NEW S, NEW s \in Seq(S), NEW i \in DOMAIN s, NEW x \in S
  PROVE  [s EXCEPT ![i] = x] \in Seq(S)
OBVIOUS

LEMMA GiveUpType ==
  ASSUME NEW st \in PassState
  PROVE  GiveUp(st) \in PassState
<1>1. st.out \in Seq(Message)
  BY DEF PassState
<1>2. ASSUME NEW m \in Message PROVE RemoveToolUseBlocks(m) \in Message
  <2>1. m.blocks \in Seq(Block)
    BY DEF Message
  <2>2. OtherBlocks(m.blocks) \in Seq(Block)
    BY <2>1, OtherBlocksType
  <2> QED BY <2>2 DEF RemoveToolUseBlocks, Message
<1>3. [st.out EXCEPT ![st.pending] = RemoveToolUseBlocks(@)] \in Seq(Message)
  <2>1. CASE st.pending \in DOMAIN st.out
    <3>1. RemoveToolUseBlocks(st.out[st.pending]) \in Message
      BY <1>1, <1>2, <2>1
    <3> DEFINE m == RemoveToolUseBlocks(st.out[st.pending])
    <3>2. [st.out EXCEPT ![st.pending] = m] \in Seq(Message)
      <4> HIDE DEF m
      <4> QED BY <1>1, <2>1, <3>1, ExceptType DEF m
    <3> QED BY <3>2
  <2>2. CASE st.pending \notin DOMAIN st.out
    <3>1. [st.out EXCEPT ![st.pending] = RemoveToolUseBlocks(@)] = st.out
      BY <1>1, <2>2
    <3> QED BY <1>1, <3>1
  <2> QED BY <2>1, <2>2
<1> QED BY <1>3 DEF GiveUp, PassState

LEMMA SanitizeMessageType ==
  ASSUME NEW st \in PassState, NEW m \in Message
  PROVE  SanitizeMessage(st, m) \in PassState
<1> DEFINE now == IF Unmatched(st, m) THEN GiveUp(st) ELSE st
           took == TakeBlocks(m.role, now.expected, m.blocks)
           clean == [m EXCEPT !.blocks = took.kept]
<1>1. now \in PassState
  BY GiveUpType
<1> HIDE DEF now
<1>2. took \in Taken
  BY <1>1, TakeBlocksType DEF PassState, Message
<1> HIDE DEF took
<1>3. clean \in Message
  BY <1>2 DEF Taken, Message
<1>4. IdsOf("use", clean) \in SUBSET (Ids \cup {None})
  BY <1>3, IdsOfType
<1> HIDE DEF clean
<1>5. /\ now.out \in Seq(Message) /\ now.pending \in Nat /\ Len(now.out) + 1 \in Nat
      /\ took.expected \in SUBSET (Ids \cup {None}) /\ Append(now.out, clean) \in Seq(Message)
  BY <1>1, <1>2, <1>3 DEF PassState, Taken
<1>6. SanitizeMessage(st, m) =
        [out |-> IF took.kept = <<>> THEN now.out ELSE Append(now.out, clean),
         expected |-> IF m.role = "assistant" /\ IdsOf("use", clean) # {}
                      THEN IdsOf("use", clean) ELSE took.expected,
         pending |-> IF m.role = "assistant" /\ IdsOf("use", clean) # {}
                     THEN Len(now.out) + 1
                     ELSE IF took.expected = {} THEN 0 ELSE now.pending]
  BY DEF SanitizeMessage, now, took, clean
<1> QED BY <1>4, <1>5, <1>6 DEF PassState

\* and the messages of a conversation
LEMMA PassRuns ==
  ASSUME NEW ms \in Seq(Message)
  PROVE  \E h \in [0 .. Len(ms) -> PassState] :
           /\ h[0] = [out |-> <<>>, expected |-> {}, pending |-> 0] /\ SanitizePass(ms) = h[Len(ms)]
           /\ \A k \in 1 .. Len(ms) : h[k] = SanitizeMessage(h[k - 1], ms[k])
<1> DEFINE N == Len(ms)
           S == PassState
           base == [out |-> <<>>, expected |-> {}, pending |-> 0]
           step == [p \in S \X (1 .. N) |-> SanitizeMessage(p[1], ms[p[2]])]
           Iter == CHOOSE iter : iter = [s \in SUBSET DOMAIN ms |->
                     IF s = {} THEN base ELSE SanitizeMessage(iter[s \ {Max(s)}], ms[Max(s)])]
<1>1. N \in Nat /\ DOMAIN ms = 1 .. N /\ \A k \in 1 .. N : ms[k] \in Message
  OBVIOUS
<1>2. SanitizePass(ms) = Iter[DOMAIN ms]
  BY DEF SanitizePass, FoldLeft, MapThenFoldSet
<1>3. base \in S /\ \A v \in S, k \in 1 .. N : SanitizeMessage(v, ms[k]) \in S
  BY <1>1, SanitizeMessageType DEF PassState
<1>4. \A v \in S, k \in 1 .. N : step[<<v, k>>] = SanitizeMessage(v, ms[k])
  OBVIOUS
<1>5. step \in [S \X (1 .. N) -> S]
  <2> HIDE DEF S
  <2> QED BY <1>3
<1> HIDE DEF step, S, base
<1>6. \A s \in SUBSET (1 .. N) : s # {} => Max(s) \in 1 .. N
  BY <1>1, MaxUpTo
<1>7. PICK g : Folding(g, N, S, base, step)
  BY <1>1, <1>3, <1>5, FoldExists
<1>8. \A s \in SUBSET (1 .. N) :
        g[s] = IF s = {} THEN base ELSE SanitizeMessage(g[s \ {Max(s)}], ms[Max(s)])
  BY <1>4, <1>6, <1>7 DEF Folding
<1>9. g = [s \in SUBSET DOMAIN ms |->
             IF s = {} THEN base ELSE SanitizeMessage(g[s \ {Max(s)}], ms[Max(s)])]
  BY <1>1, <1>7, <1>8 DEF Folding
<1>10. Iter = [s \in SUBSET DOMAIN ms |->
                 IF s = {} THEN base ELSE SanitizeMessage(Iter[s \ {Max(s)}], ms[Max(s)])]
  BY <1>9
<1> HIDE DEF Iter
<1>11. Follows(Iter, N, S, base, step)
  BY <1>1, <1>4, <1>6, <1>10 DEF Follows
<1> HIDE DEF N
<1> DEFINE h == [k \in 0 .. N |-> Iter[1 .. k]]
<1>12. Runs(h, N, S, base, step)
  BY <1>1, <1>3, <1>5, <1>11, FoldRuns
<1>13. h[N] = Iter[1 .. N]
  BY <1>1
<1> HIDE DEF h
<1>14. \A k \in 1 .. N : k - 1 \in 0 .. N
  BY <1>1
<1>15. /\ h \in [0 .. N -> S] /\ h[0] = base
       /\ \A k \in 1 .. N : h[k] = SanitizeMessage(h[k - 1], ms[k])
  BY <1>4, <1>12, <1>14 DEF Runs
<1> QED BY <1>1, <1>2, <1>13, <1>15 DEF N, S, base

\* blocks without results are all kept
LEMMA TakeAll ==
  ASSUME NEW role \in Role, NEW expected \in SUBSET (Ids \cup {None}), NEW blocks \in Seq(Block),
         \A k \in 1 .. Len(blocks) : blocks[k].kind # "result"
  PROVE  TakeBlocks(role, expected, blocks) = [kept |-> blocks, expected |-> expected]
<1> DEFINE N == Len(blocks)
           Full(k) == [kept |-> SubSeq(blocks, 1, k), expected |-> expected]
<1>1. PICK h \in [0 .. N -> Taken] :
        /\ h[0] = [kept |-> <<>>, expected |-> expected]
        /\ TakeBlocks(role, expected, blocks) = h[N]
        /\ \A k \in 1 .. N : h[k] = TakeBlock(role, h[k - 1], blocks[k])
  BY TakeRuns
<1>2. N \in Nat /\ SubSeq(blocks, 1, 0) = <<>> /\ SubSeq(blocks, 1, N) = blocks
  OBVIOUS
<1>3. ASSUME NEW k \in 0 .. N - 1, h[k] = Full(k) PROVE h[k + 1] = Full(k + 1)
  <2>1. k + 1 \in 1 .. N /\ (k + 1) - 1 = k /\ blocks[k + 1].kind # "result"
    OBVIOUS
  <2>2. h[k + 1] = TakeBlock(role, Full(k), blocks[k + 1])
    BY <1>1, <1>3, <2>1
  <2>3. Append(SubSeq(blocks, 1, k), blocks[k + 1]) = SubSeq(blocks, 1, k + 1)
    BY <2>1
  <2> QED BY <2>1, <2>2, <2>3 DEF TakeBlock
<1> DEFINE T == {k \in 0 .. N : h[k] = Full(k)}
<1>4. 0 \in T
  <2>1. 0 \in 0 .. N /\ h[0] = Full(0)
    BY <1>1, <1>2
  <2> QED BY <2>1
<1>5. ASSUME NEW k \in 0 .. N - 1, k \in T PROVE k + 1 \in T
  <2>1. k + 1 \in 0 .. N
    BY <1>2
  <2> QED BY <1>3, <1>5, <2>1
<1> HIDE DEF N, T
<1>6. 0 .. N \subseteq T
  BY <1>2, <1>4, <1>5, UpTo
<1> QED BY <1>1, <1>2, <1>6 DEF T

\* a result alone is kept when it is expected
LEMMA TakeResult ==
  ASSUME NEW expected \in SUBSET (Ids \cup {None}), NEW i \in Ids
  PROVE  TakeBlocks("user", expected, <<Result(i)>>) =
           IF i \in expected
           THEN [kept |-> <<Result(i)>>, expected |-> expected \ {i}]
           ELSE [kept |-> <<>>, expected |-> expected]
<1> DEFINE blocks == <<Result(i)>>
<1>1. blocks \in Seq(Block) /\ Len(blocks) = 1 /\ blocks[1] = Result(i)
  BY BlockTypes
<1> HIDE DEF blocks
<1>2. PICK h \in [0 .. 1 -> Taken] :
        /\ h[0] = [kept |-> <<>>, expected |-> expected]
        /\ TakeBlocks("user", expected, blocks) = h[1]
        /\ \A k \in 1 .. 1 : h[k] = TakeBlock("user", h[k - 1], blocks[k])
  BY <1>1, TakeRuns DEF Role
<1>3. h[1] = TakeBlock("user", [kept |-> <<>>, expected |-> expected], Result(i))
  BY <1>1, <1>2
<1>4. Append(<<>>, Result(i)) = <<Result(i)>>
  OBVIOUS
<1>5. Result(i).kind = "result" /\ Result(i).id = i
  BY DEF Result
<1> HIDE DEF blocks
<1> QED BY <1>2, <1>3, <1>4, <1>5 DEF TakeBlock, blocks

-----------------------------------------------------------------------------
(* Conversations *)

\* The messages that occur: text alone, calls (with text before them), a result
Plain(m) == \E r \in Role, n \in Nat : m = Said(r, n)

Asking(m) ==
  /\ m \in Message /\ m.role = "assistant" /\ IdsOf("use", m) # {}
  /\ \A k \in 1 .. Len(m.blocks) : m.blocks[k].kind # "result"

IsAnswer(m) == \E i \in Ids : m = Returned(i)

LEMMA SingleBlock ==
  ASSUME NEW r \in Role, NEW b \in Block, NEW kind
  PROVE  LET m == [role |-> r, blocks |-> <<b>>]
         IN /\ m \in Message /\ Size(m) = b.size /\ m.blocks # <<>>
            /\ IdsOf(kind, m) = IF b.kind = kind THEN {b.id} ELSE {}
<1> DEFINE m == [role |-> r, blocks |-> <<b>>]
<1>1. m \in Message /\ m.blocks # <<>> /\ Len(m.blocks) = 1 /\ m.blocks[1] = b
  BY DEF Message
<1>2. Range(m.blocks) = {b}
  BY DEF Range
<1>3. IdsOf(kind, m) = IF b.kind = kind THEN {b.id} ELSE {}
  <2> HIDE DEF m
  <2> QED BY <1>2 DEF IdsOf
<1>4. Size(m) = b.size
  <2> HIDE DEF m
  <2>1. PICK h \in [0 .. 1 -> Nat] :
          /\ h[0] = 0 /\ Size(m) = h[1]
          /\ \A k \in 1 .. 1 : h[k] = h[k - 1] + m.blocks[k].size
    <3>1. \E h \in [0 .. Len(m.blocks) -> Nat] :
            /\ h[0] = 0 /\ Size(m) = h[Len(m.blocks)]
            /\ \A k \in 1 .. Len(m.blocks) : h[k] = h[k - 1] + m.blocks[k].size
      BY <1>1, SizeRuns
    <3>2. Len(m.blocks) = 1
      BY <1>1
    <3> QED BY ONLY <3>1, <3>2
  <2>2. b.size \in Nat
    BY DEF Block
  <2>3. h[1] = 0 + b.size
    <3>1. h[1] = h[1 - 1] + m.blocks[1].size
      BY <2>1
    <3> QED BY <1>1, <2>1, <3>1
  <2> QED BY <2>1, <2>2, <2>3
<1> QED BY <1>1, <1>3, <1>4

LEMMA PlainFacts ==
  ASSUME NEW r \in Role, NEW n \in Nat
  PROVE  /\ Said(r, n) \in Message /\ Size(Said(r, n)) = n /\ Said(r, n).blocks # <<>>
         /\ IdsOf("use", Said(r, n)) = {} /\ IdsOf("result", Said(r, n)) = {}
<1>1. Text(n) \in Block /\ Text(n).kind = "text" /\ Text(n).size = n
  BY BlockTypes DEF Text
<1> QED BY <1>1, SingleBlock DEF Said

LEMMA AnswerFacts ==
  ASSUME NEW i \in Ids
  PROVE  /\ Returned(i) \in Message /\ Size(Returned(i)) = Handle /\ Returned(i).blocks # <<>>
         /\ IdsOf("use", Returned(i)) = {} /\ IdsOf("result", Returned(i)) = {i}
         /\ Returned(i).role = "user" /\ ~Asking(Returned(i)) /\ ~Plain(Returned(i))
<1>1. Result(i) \in Block /\ Result(i).kind = "result" /\ Result(i).id = i /\ Result(i).size = Handle
  BY BlockTypes DEF Result
<1>2. "user" \in Role
  BY DEF Role
<1>3. /\ Returned(i) \in Message /\ Size(Returned(i)) = Handle /\ Returned(i).blocks # <<>>
      /\ IdsOf("use", Returned(i)) = {} /\ IdsOf("result", Returned(i)) = {i}
  BY <1>1, <1>2, SingleBlock DEF Returned
<1>4. Returned(i).role = "user"
  BY DEF Returned
<1>5. ~Asking(Returned(i))
  BY <1>4 DEF Asking
<1>6. ~Plain(Returned(i))
  <2> SUFFICES ASSUME NEW r \in Role, NEW n \in Nat, Returned(i) = Said(r, n) PROVE FALSE
    BY DEF Plain
  <2> QED BY <1>3, PlainFacts
<1> QED BY <1>3, <1>4, <1>5, <1>6

LEMMA CallFacts ==
  ASSUME NEW i \in Ids, NEW n \in Nat
  PROVE  LET m == Called(<<Use(i, n)>>)
         IN Asking(m) /\ Size(m) = n /\ IdsOf("use", m) = {i}
<1> DEFINE m == Called(<<Use(i, n)>>)
<1>1. Use(i, n) \in Block /\ Use(i, n).kind = "use" /\ Use(i, n).id = i /\ Use(i, n).size = n
  BY BlockTypes DEF Use
<1>2. "assistant" \in Role
  BY DEF Role
<1>3. m \in Message /\ Size(m) = n /\ IdsOf("use", m) = {i}
  BY <1>1, <1>2, SingleBlock DEF Called
<1>4. m.role = "assistant" /\ Len(m.blocks) = 1 /\ m.blocks[1] = Use(i, n)
  BY DEF Called
<1> HIDE DEF m
<1>5. Asking(m)
  BY <1>1, <1>3, <1>4 DEF Asking
<1> QED BY <1>3, <1>5 DEF m

LEMMA AskingFacts ==
  ASSUME NEW m, Asking(m)
  PROVE  /\ m \in Message /\ m.blocks # <<>> /\ IdsOf("result", m) = {} /\ ~Plain(m)
         /\ m.role = "assistant" /\ m.blocks \in Seq(Block)
<1>1. m \in Message /\ m.role = "assistant" /\ m.blocks \in Seq(Block)
  BY DEF Asking, Message
<1>2. \A b \in Range(m.blocks) : b.kind # "result"
  BY <1>1 DEF Asking, Range
<1>3. IdsOf("result", m) = {}
  BY <1>2 DEF IdsOf
<1>4. m.blocks # <<>>
  <2> SUFFICES ASSUME m.blocks = <<>> PROVE FALSE
    OBVIOUS
  <2>1. Range(m.blocks) = {}
    BY DEF Range
  <2> QED BY <2>1 DEF Asking, IdsOf
<1>5. ~Plain(m)
  BY PlainFacts DEF Plain, Asking
<1> QED BY <1>1, <1>3, <1>4, <1>5

-----------------------------------------------------------------------------
(* What the sanitizer does with one message *)

LEMMA SanitizeStep ==
  ASSUME NEW st, NEW m, ~Unmatched(st, m)
  PROVE  LET took == TakeBlocks(m.role, st.expected, m.blocks)
             clean == [m EXCEPT !.blocks = took.kept]
             asks == m.role = "assistant" /\ IdsOf("use", clean) # {}
         IN SanitizeMessage(st, m) =
              [out |-> IF took.kept = <<>> THEN st.out ELSE Append(st.out, clean),
               expected |-> IF asks THEN IdsOf("use", clean) ELSE took.expected,
               pending |-> IF asks THEN Len(st.out) + 1
                           ELSE IF took.expected = {} THEN 0 ELSE st.pending]
<1> DEFINE now == IF Unmatched(st, m) THEN GiveUp(st) ELSE st
           took == TakeBlocks(m.role, now.expected, m.blocks)
           clean == [m EXCEPT !.blocks = took.kept]
<1> HIDE DEF now, took, clean
<1>1. SanitizeMessage(st, m) =
        [out |-> IF took.kept = <<>> THEN now.out ELSE Append(now.out, clean),
         expected |-> IF m.role = "assistant" /\ IdsOf("use", clean) # {}
                      THEN IdsOf("use", clean) ELSE took.expected,
         pending |-> IF m.role = "assistant" /\ IdsOf("use", clean) # {}
                     THEN Len(now.out) + 1
                     ELSE IF took.expected = {} THEN 0 ELSE now.pending]
  BY DEF SanitizeMessage, now, took, clean
<1>2. now = st
  BY DEF now
<1> QED BY <1>1, <1>2 DEF took, clean

LEMMA SanitizePlain ==
  ASSUME NEW st \in PassState, st.pending = 0, st.expected = {}, NEW m, Plain(m)
  PROVE  SanitizeMessage(st, m) = [out |-> Append(st.out, m), expected |-> {}, pending |-> 0]
<1>1. PICK r \in Role, n \in Nat : m = Said(r, n)
  BY DEF Plain
<1>2. /\ m \in Message /\ m.blocks # <<>> /\ IdsOf("use", m) = {}
  BY <1>1, PlainFacts
<1>3. m.role \in Role /\ m.blocks \in Seq(Block)
  BY <1>2 DEF Message
<1>4. \A k \in 1 .. Len(m.blocks) : m.blocks[k].kind # "result"
  BY <1>1 DEF Said, Text
<1>5. TakeBlocks(m.role, st.expected, m.blocks) = [kept |-> m.blocks, expected |-> st.expected]
  BY <1>3, <1>4, TakeAll DEF PassState
<1>6. [m EXCEPT !.blocks = m.blocks] = m
  BY <1>2 DEF Message
<1>7. ~Unmatched(st, m)
  BY DEF Unmatched
<1> DEFINE took == TakeBlocks(m.role, st.expected, m.blocks)
           clean == [m EXCEPT !.blocks = took.kept]
<1> HIDE DEF took, clean
<1>8. SanitizeMessage(st, m) =
        [out |-> IF took.kept = <<>> THEN st.out ELSE Append(st.out, clean),
         expected |-> IF m.role = "assistant" /\ IdsOf("use", clean) # {}
                      THEN IdsOf("use", clean) ELSE took.expected,
         pending |-> IF m.role = "assistant" /\ IdsOf("use", clean) # {}
                     THEN Len(st.out) + 1
                     ELSE IF took.expected = {} THEN 0 ELSE st.pending]
  BY <1>7, SanitizeStep DEF took, clean
<1>9. took.kept = m.blocks /\ took.expected = {} /\ clean = m
  BY <1>5, <1>6 DEF took, clean
<1> QED BY <1>2, <1>8, <1>9

LEMMA SanitizeAsking ==
  ASSUME NEW st \in PassState, st.pending = 0, NEW m, Asking(m)
  PROVE  SanitizeMessage(st, m) =
           [out |-> Append(st.out, m), expected |-> IdsOf("use", m), pending |-> Len(st.out) + 1]
<1>1. m \in Message /\ m.blocks # <<>> /\ m.blocks \in Seq(Block) /\ m.role = "assistant"
  BY AskingFacts
<1>2. m.role \in Role /\ st.expected \in SUBSET (Ids \cup {None})
  BY <1>1 DEF Role, PassState
<1>3. TakeBlocks(m.role, st.expected, m.blocks) = [kept |-> m.blocks, expected |-> st.expected]
  BY <1>1, <1>2, TakeAll DEF Asking
<1>4. [m EXCEPT !.blocks = m.blocks] = m
  BY <1>1 DEF Message
<1>5. IdsOf("use", m) # {}
  BY DEF Asking
<1>6. ~Unmatched(st, m)
  BY DEF Unmatched
<1> QED BY <1>1, <1>3, <1>4, <1>5, <1>6, SanitizeStep

\* a result that nothing asked for is dropped
LEMMA SanitizeOrphan ==
  ASSUME NEW st \in PassState, st.pending = 0, st.expected = {}, NEW i \in Ids
  PROVE  SanitizeMessage(st, Returned(i)) = st
<1>1. Returned(i).role = "user" /\ Returned(i).blocks = <<Result(i)>>
  BY DEF Returned
<1>2. TakeBlocks(Returned(i).role, st.expected, Returned(i).blocks) =
        [kept |-> <<>>, expected |-> st.expected]
  BY <1>1, TakeResult DEF PassState
<1>3. st = [out |-> st.out, expected |-> {}, pending |-> 0]
  BY DEF PassState
<1>4. ~Unmatched(st, Returned(i))
  BY DEF Unmatched
<1> DEFINE took == TakeBlocks(Returned(i).role, st.expected, Returned(i).blocks)
           clean == [Returned(i) EXCEPT !.blocks = took.kept]
<1> HIDE DEF took, clean
<1>5. SanitizeMessage(st, Returned(i)) =
        [out |-> IF took.kept = <<>> THEN st.out ELSE Append(st.out, clean),
         expected |-> IF Returned(i).role = "assistant" /\ IdsOf("use", clean) # {}
                      THEN IdsOf("use", clean) ELSE took.expected,
         pending |-> IF Returned(i).role = "assistant" /\ IdsOf("use", clean) # {}
                     THEN Len(st.out) + 1
                     ELSE IF took.expected = {} THEN 0 ELSE st.pending]
  BY <1>4, SanitizeStep DEF took, clean
<1>6. took.kept = <<>> /\ took.expected = {} /\ Returned(i).role # "assistant"
  BY <1>1, <1>2 DEF took
<1> QED BY <1>3, <1>5, <1>6

LEMMA SanitizeAnswer ==
  ASSUME NEW st \in PassState, NEW i \in Ids, i \in st.expected
  PROVE  SanitizeMessage(st, Returned(i)) =
           [out |-> Append(st.out, Returned(i)), expected |-> st.expected \ {i},
            pending |-> IF st.expected \ {i} = {} THEN 0 ELSE st.pending]
<1>1. st.expected \in SUBSET (Ids \cup {None})
  BY DEF PassState
<1>2. /\ Returned(i).role = "user" /\ Returned(i).blocks = <<Result(i)>>
      /\ [Returned(i) EXCEPT !.blocks = <<Result(i)>>] = Returned(i)
  BY DEF Returned
<1>3. TakeBlocks(Returned(i).role, st.expected, Returned(i).blocks) =
        [kept |-> <<Result(i)>>, expected |-> st.expected \ {i}]
  BY <1>1, <1>2, TakeResult
<1>4. IdsOf("result", Returned(i)) = {i}
  BY AnswerFacts
<1>5. ~Unmatched(st, Returned(i))
  BY <1>2, <1>4 DEF Unmatched
<1> DEFINE took == TakeBlocks(Returned(i).role, st.expected, Returned(i).blocks)
           clean == [Returned(i) EXCEPT !.blocks = took.kept]
<1> HIDE DEF took, clean
<1>6. SanitizeMessage(st, Returned(i)) =
        [out |-> IF took.kept = <<>> THEN st.out ELSE Append(st.out, clean),
         expected |-> IF Returned(i).role = "assistant" /\ IdsOf("use", clean) # {}
                      THEN IdsOf("use", clean) ELSE took.expected,
         pending |-> IF Returned(i).role = "assistant" /\ IdsOf("use", clean) # {}
                     THEN Len(st.out) + 1
                     ELSE IF took.expected = {} THEN 0 ELSE st.pending]
  BY <1>5, SanitizeStep DEF took, clean
<1>7. /\ took.kept = <<Result(i)>> /\ took.expected = st.expected \ {i}
      /\ clean = Returned(i) /\ Returned(i).role # "assistant"
  BY <1>2, <1>3 DEF took, clean
<1> QED BY <1>6, <1>7

-----------------------------------------------------------------------------
(* The governor *)

LEMMA CharsAppend ==
  ASSUME NEW s \in Seq(Message), NEW m \in Message
  PROVE  Chars(Append(s, m)) = Chars(s) + Size(m) /\ Chars(s) \in Nat
<1> DEFINE t == Append(s, m)
           N == Len(s)
<1>1. PICK h \in [0 .. N -> Nat] :
        /\ h[0] = 0 /\ Chars(s) = h[N] /\ \A k \in 1 .. N : h[k] = h[k - 1] + Size(s[k])
  BY CharsRuns
<1>2. /\ t \in Seq(Message) /\ Len(t) = N + 1 /\ t[N + 1] = m /\ N \in Nat
      /\ \A k \in 1 .. N : t[k] = s[k]
  OBVIOUS
<1> HIDE DEF t, N
<1>3. PICK f \in [0 .. Len(t) -> Nat] :
        /\ f[0] = 0 /\ Chars(t) = f[Len(t)]
        /\ \A k \in 1 .. Len(t) : f[k] = f[k - 1] + Size(t[k])
  BY <1>2, CharsRuns
<1> DEFINE T == {k \in 0 .. N : f[k] = h[k]}
<1>4. 0 \in T
  <2>1. 0 \in 0 .. N
    BY <1>2
  <2> QED BY <1>1, <1>3, <2>1
<1>5. ASSUME NEW k \in 0 .. N - 1, k \in T PROVE k + 1 \in T
  <2>1. k + 1 \in 1 .. N /\ k + 1 \in 1 .. N + 1 /\ (k + 1) - 1 = k /\ k + 1 \in 0 .. N
    BY <1>2
  <2> QED BY <1>1, <1>2, <1>3, <1>5, <2>1
<1> HIDE DEF T
<1>6. 0 .. N \subseteq T
  BY <1>2, <1>4, <1>5, UpTo
<1>7. f[N] = h[N] /\ N + 1 \in 1 .. N + 1 /\ (N + 1) - 1 = N /\ h[N] \in Nat
  BY <1>2, <1>6 DEF T
<1> QED BY <1>1, <1>2, <1>3, <1>7 DEF t, N

LEMMA CharsEmpty == Chars(<<>>) = 0 /\ <<>> \in Seq(Message)
<1>1. <<>> \in Seq(Message) /\ Len(<<>>) = 0
  OBVIOUS
<1>2. PICK h \in [0 .. Len(<<>>) -> Nat] : h[0] = 0 /\ Chars(<<>>) = h[Len(<<>>)]
  BY <1>1, CharsRuns
<1> QED BY <1>1, <1>2

LEMMA CharsOne ==
  ASSUME NEW m \in Message
  PROVE  Chars(<<m>>) = Size(m)
<1>1. <<m>> = Append(<<>>, m)
  OBVIOUS
<1>2. Chars(Append(<<>>, m)) = Chars(<<>>) + Size(m)
  BY CharsAppend, CharsEmpty
<1>3. Size(m) \in Nat
  BY SizeType
<1> QED BY <1>1, <1>2, <1>3, CharsEmpty

LEMMA CharsTwo ==
  ASSUME NEW m \in Message, NEW n \in Message
  PROVE  Chars(<<m, n>>) = Size(m) + Size(n)
<1>1. <<m, n>> = Append(<<m>>, n) /\ <<m>> \in Seq(Message)
  OBVIOUS
<1> QED BY <1>1, CharsAppend, CharsOne

LEMMA SameSequence ==
  ASSUME NEW S, NEW s \in Seq(S), NEW t \in Seq(S), Len(s) = Len(t),
         \A i \in 1 .. Len(t) : s[i] = t[i]
  PROVE  s = t
OBVIOUS

LEMMA AppendLast ==
  ASSUME NEW S, NEW s \in Seq(S), NEW e \in S
  PROVE  /\ Append(s, e) \in Seq(S) /\ Len(Append(s, e)) = Len(s) + 1
         /\ Append(s, e) # <<>> /\ Last(Append(s, e)) = e
<1>1. Append(s, e)[Len(s) + 1] = e /\ Len(Append(s, e)) = Len(s) + 1 /\ Len(s) + 1 # 0
  OBVIOUS
<1> QED BY <1>1 DEF Last

\* what is cut away at the old end costs nothing any more
LEMMA FromFacts ==
  ASSUME NEW ms \in Seq(Message), NEW i \in 1 .. Len(ms) + 1
  PROVE  /\ From(ms, i) \in Seq(Message) /\ Len(From(ms, i)) = Len(ms) - i + 1
         /\ \A k \in 1 .. Len(ms) - i + 1 : From(ms, i)[k] = ms[i - 1 + k]
BY DEF From

LEMMA CharsSuffix ==
  ASSUME NEW ms \in Seq(Message), NEW i \in 1 .. Len(ms) + 1
  PROVE  Chars(From(ms, i)) <= Chars(ms) /\ Chars(From(ms, i)) \in Nat
<1> DEFINE t == From(ms, i)
           N == Len(ms)
           R == Len(ms) - i + 1
<1>1. /\ t \in Seq(Message) /\ Len(t) = R /\ \A k \in 1 .. R : t[k] = ms[i - 1 + k]
  BY FromFacts
<1>2. N \in Nat /\ R \in Nat /\ i - 1 \in 0 .. N /\ i - 1 \in Nat /\ i - 1 + R = N
  OBVIOUS
<1>3. PICK h \in [0 .. N -> Nat] :
        /\ h[0] = 0 /\ Chars(ms) = h[N] /\ \A k \in 1 .. N : h[k] = h[k - 1] + Size(ms[k])
  BY CharsRuns
<1> HIDE DEF t, N, R
<1>4. PICK f \in [0 .. R -> Nat] :
        /\ f[0] = 0 /\ Chars(t) = f[R] /\ \A k \in 1 .. R : f[k] = f[k - 1] + Size(t[k])
  BY <1>1, CharsRuns
<1> DEFINE T == {k \in 0 .. R : f[k] + h[i - 1] = h[i - 1 + k]}
<1>5. 0 \in T
  <2>1. 0 \in 0 .. R /\ i - 1 + 0 = i - 1 /\ h[i - 1] \in Nat
    BY <1>2, <1>3
  <2> QED BY <1>4, <2>1
<1>6. ASSUME NEW k \in 0 .. R - 1, k \in T PROVE k + 1 \in T
  <2>1. /\ k + 1 \in 1 .. R /\ (k + 1) - 1 = k /\ k + 1 \in 0 .. R
        /\ i - 1 + (k + 1) \in 1 .. N /\ (i - 1 + (k + 1)) - 1 = i - 1 + k
        /\ k \in 0 .. R /\ i - 1 + k \in 0 .. N
    BY <1>2
  <2>2. /\ f[k + 1] = f[k] + Size(t[k + 1])
        /\ h[i - 1 + (k + 1)] = h[i - 1 + k] + Size(ms[i - 1 + (k + 1)])
        /\ t[k + 1] = ms[i - 1 + (k + 1)]
    BY <1>1, <1>3, <1>4, <2>1
  <2>3. Size(t[k + 1]) \in Nat /\ f[k] \in Nat /\ h[i - 1] \in Nat /\ h[i - 1 + k] \in Nat
    <3>1. t[k + 1] \in Message
      BY <1>1, <2>1
    <3> QED BY <1>2, <1>3, <1>4, <2>1, <3>1, SizeType
  <2>4. f[k] + h[i - 1] = h[i - 1 + k]
    BY <1>6
  <2>5. f[k + 1] + h[i - 1] = h[i - 1 + (k + 1)]
    <3>1. ASSUME NEW a \in Nat, NEW b \in Nat, NEW c \in Nat, a + b = c, NEW d \in Nat
          PROVE  (a + d) + b = c + d
      BY <3>1
    <3>2. (f[k] + Size(t[k + 1])) + h[i - 1] = h[i - 1 + k] + Size(t[k + 1])
      BY ONLY <2>3, <2>4, <3>1
    <3> QED BY <2>2, <3>2
  <2> QED BY <2>1, <2>5
<1> HIDE DEF T
<1>7. 0 .. R \subseteq T
  BY <1>2, <1>5, <1>6, UpTo
<1>8. R \in 0 .. R
  BY <1>2
<1>9. f[R] + h[i - 1] = h[N] /\ f[R] \in Nat /\ h[i - 1] \in Nat /\ h[N] \in Nat
  <2>1. f[R] + h[i - 1] = h[i - 1 + R]
    BY <1>7, <1>8 DEF T
  <2>2. N \in 0 .. N
    BY <1>2
  <2> QED BY <1>2, <1>3, <1>4, <1>8, <2>1, <2>2
<1>10. Chars(t) <= Chars(ms) /\ Chars(t) \in Nat
  BY <1>3, <1>4, <1>9
<1> QED BY <1>10 DEF t

LEMMA FromFrom ==
  ASSUME NEW ms \in Seq(Message), NEW i \in DOMAIN ms, NEW j \in i .. Len(ms)
  PROVE  j - i + 1 \in DOMAIN From(ms, i) /\ From(From(ms, i), j - i + 1) = From(ms, j)
<1> DEFINE t == From(ms, i)
           k == j - i + 1
<1>1. /\ i \in 1 .. Len(ms) + 1 /\ j \in 1 .. Len(ms) + 1 /\ j \in DOMAIN ms
      /\ k \in 1 .. Len(ms) - i + 1 /\ Len(ms) \in Nat /\ i \in Nat /\ j \in Nat
      /\ 1 <= i /\ i <= j /\ j <= Len(ms)
  OBVIOUS
<1>2. /\ t \in Seq(Message) /\ Len(t) = Len(ms) - i + 1
      /\ \A l \in 1 .. Len(ms) - i + 1 : t[l] = ms[i - 1 + l]
  BY <1>1, FromFacts
<1>3. /\ From(ms, j) \in Seq(Message) /\ Len(From(ms, j)) = Len(ms) - j + 1
      /\ \A l \in 1 .. Len(ms) - j + 1 : From(ms, j)[l] = ms[j - 1 + l]
  BY <1>1, FromFacts
<1> HIDE DEF t
<1>4. k \in 1 .. Len(t) + 1 /\ k \in DOMAIN t
  BY <1>1, <1>2
<1>5. /\ From(t, k) \in Seq(Message) /\ Len(From(t, k)) = Len(t) - k + 1
      /\ \A l \in 1 .. Len(t) - k + 1 : From(t, k)[l] = t[k - 1 + l]
  BY <1>2, <1>4, FromFacts
<1>6. Len(From(t, k)) = Len(From(ms, j))
  <2>1. Len(t) - k + 1 = Len(ms) - j + 1
    BY <1>1, <1>2
  <2> QED BY <1>3, <1>5, <2>1
<1>7. ASSUME NEW l \in 1 .. Len(From(ms, j)) PROVE From(t, k)[l] = From(ms, j)[l]
  <2>1. /\ l \in 1 .. Len(t) - k + 1 /\ k - 1 + l \in 1 .. Len(ms) - i + 1
        /\ i - 1 + (k - 1 + l) = j - 1 + l /\ l \in 1 .. Len(ms) - j + 1
    <3> DEFINE L == Len(ms)
    <3>1. l \in Nat /\ 1 <= l /\ l <= L - j + 1
      BY <1>1, <1>3
    <3>2. i \in Nat /\ j \in Nat /\ L \in Nat /\ 1 <= i /\ i <= j /\ j <= L /\ l <= L - j + 1
      BY <1>1, <3>1
    <3>3. Len(t) = L - i + 1
      BY <1>2
    <3> HIDE DEF L
    <3>4. k - 1 + l = j - i + l /\ i - 1 + (k - 1 + l) = j - 1 + l
      BY <3>1, <3>2
    <3>5. j - i + l \in 1 .. L - i + 1
      BY <3>1, <3>2
    <3>6. l \in 1 .. (L - i + 1) - k + 1 /\ l \in 1 .. L - j + 1
      BY <3>1, <3>2
    <3> QED BY <3>3, <3>4, <3>5, <3>6 DEF L
  <2> QED BY <1>2, <1>3, <1>5, <2>1
<1>8. From(t, k) = From(ms, j)
  BY <1>3, <1>5, <1>6, <1>7, SameSequence
<1> QED BY <1>4, <1>8 DEF t

\* All limits of a request together
Fits(ms) == Tokens(ms) <= MaxTokens /\ Len(ms) <= MaxMessages /\ Chars(ms) <= MaxChars

LEMMA TokensType ==
  MaxTokens \in Int /\ \A s \in Seq(Message) : Chars(s) \in Nat => Tokens(s) \in Int
<1>1. ASSUME NEW s \in Seq(Message), Chars(s) \in Nat PROVE Tokens(s) \in Int
  BY <1>1 DEF Tokens
<1> QED BY <1>1, SizeAssumption

LEMMA TokensMono ==
  ASSUME NEW s \in Seq(Message), NEW t \in Seq(Message),
         Len(s) <= Len(t), Chars(s) <= Chars(t), Chars(s) \in Nat, Chars(t) \in Nat
  PROVE  Tokens(s) <= Tokens(t)
BY DEF Tokens

\* Trimming takes the longest rest of those at starts
Summary == <<Said("user", Notice)>>

LEMMA TrimIs ==
  ASSUME NEW ms \in Seq(Message), NEW starts \in SUBSET DOMAIN ms
  PROVE  \/ starts = {} /\ Trim(ms, starts) = Summary
         \/ \E i \in starts : Trim(ms, starts) = From(ms, i) /\ \A j \in starts : i <= j
<1>1. CASE starts = {}
  BY <1>1 DEF Trim, Summary
<1>2. CASE starts # {}
  <2>1. starts \in SUBSET Nat
    OBVIOUS
  <2>2. Min(starts) \in starts /\ \A j \in starts : Min(starts) <= j
    BY <1>2, <2>1, MinElement
  <2> QED BY <1>2, <2>2 DEF Trim
<1> QED BY <1>1, <1>2

LEMMA SummaryFacts ==
  /\ Summary \in Seq(Message) /\ Len(Summary) = 1 /\ Summary[1] = Said("user", Notice)
  /\ From(Summary, 1) = Summary /\ Plain(Said("user", Notice)) /\ Said("user", Notice) \in Message
<1>1. "user" \in Role /\ Notice \in Nat
  BY SizeAssumption DEF Role
<1>2. Said("user", Notice) \in Message /\ Plain(Said("user", Notice))
  BY <1>1, PlainFacts DEF Plain
<1>3. Summary \in Seq(Message) /\ Len(Summary) = 1 /\ Summary[1] = Said("user", Notice)
  BY <1>2 DEF Summary
<1>4. From(Summary, 1) = Summary
  BY <1>3 DEF From
<1> QED BY <1>2, <1>3, <1>4

LEMMA PreflightSummary == ApplyRequestPreflightLimits(Summary) = Summary
<1> DEFINE starts == {i \in DOMAIN Summary :
             Len(From(Summary, i)) <= MaxMessages /\ Chars(From(Summary, i)) <= MaxChars}
<1>1. Summary \in Seq(Message) /\ From(Summary, 1) = Summary /\ DOMAIN Summary = 1 .. 1
  BY SummaryFacts
<1>2. starts \in SUBSET DOMAIN Summary
  OBVIOUS
<1> HIDE DEF starts
<1>3. \/ starts = {} /\ Trim(Summary, starts) = Summary
      \/ \E i \in starts : Trim(Summary, starts) = From(Summary, i) /\ \A j \in starts : i <= j
  BY <1>1, <1>2, TrimIs
<1>4. Trim(Summary, starts) = Summary
  <2>1. \A i \in starts : i = 1
    BY <1>1, <1>2
  <2> QED BY <1>1, <1>3, <2>1
<1> QED BY <1>4 DEF ApplyRequestPreflightLimits, starts

\* ContextGovernor::admit trims twice, by tokens and then by count and size; the
\* two together give the longest rest of the conversation that fits all limits,
\* and the summary stands for everything only when no rest does.
THEOREM AdmitLongest ==
  ASSUME NEW ms \in Seq(Message)
  PROVE  \/ Admit(ms) = Summary /\ \A i \in DOMAIN ms : ~Fits(From(ms, i))
         \/ \E i \in DOMAIN ms :
              /\ Admit(ms) = From(ms, i) /\ Fits(From(ms, i))
              /\ \A j \in DOMAIN ms : Fits(From(ms, j)) => i <= j
<1> DEFINE starts == {i \in DOMAIN ms : Tokens(From(ms, i)) <= MaxTokens}
           rest == TokenBudgetGate(ms)
<1>1. starts \in SUBSET DOMAIN ms /\ rest = Trim(ms, starts)
  BY DEF TokenBudgetGate
<1>2. \A j \in DOMAIN ms : Fits(From(ms, j)) => j \in starts
  BY DEF Fits
<1>3. Admit(ms) = ApplyRequestPreflightLimits(rest)
  BY DEF Admit
<1>4. \A i \in starts : i \in DOMAIN ms /\ Tokens(From(ms, i)) <= MaxTokens
  OBVIOUS
<1> HIDE DEF starts, rest
<1>5. \/ starts = {} /\ rest = Summary
      \/ \E i \in starts : rest = From(ms, i) /\ \A j \in starts : i <= j
  BY <1>1, TrimIs DEF Summary
<1>6. CASE starts = {} /\ rest = Summary
  BY <1>2, <1>3, <1>6, PreflightSummary
<1>7. CASE \E i \in starts : rest = From(ms, i) /\ \A j \in starts : i <= j
  <2>1. PICK i \in starts : rest = From(ms, i) /\ \A j \in starts : i <= j
    BY <1>7
  <2>2. i \in DOMAIN ms /\ Tokens(From(ms, i)) <= MaxTokens
    BY <1>4
  <2>3. DOMAIN ms = 1 .. Len(ms) /\ Len(ms) \in Nat /\ i \in Nat /\ 1 <= i /\ i <= Len(ms)
    BY <2>2
  <2> DEFINE N == Len(ms) - i + 1
  <2>4. rest \in Seq(Message) /\ Len(rest) = N /\ DOMAIN rest = 1 .. N
    <3>1. i \in 1 .. Len(ms) + 1
      BY <2>3
    <3> QED BY <2>1, <3>1, FromFacts
  <2>5. ASSUME NEW j \in i .. Len(ms)
        PROVE  j - i + 1 \in DOMAIN rest /\ From(rest, j - i + 1) = From(ms, j)
    BY <2>1, <2>2, FromFrom
  <2>6. ASSUME NEW k \in DOMAIN rest
        PROVE  i + k - 1 \in i .. Len(ms) /\ From(rest, k) = From(ms, i + k - 1)
    <3>1. k \in Nat /\ 1 <= k /\ k <= Len(ms) - i + 1
      BY <2>3, <2>4
    <3>2. i + k - 1 \in i .. Len(ms) /\ (i + k - 1) - i + 1 = k
      BY <2>3, <3>1
    <3> QED BY <2>5, <3>2
  <2>7. ASSUME NEW j \in i .. Len(ms) PROVE Tokens(From(ms, j)) <= MaxTokens
    <3>1. j - i + 1 \in 1 .. Len(rest) + 1
      BY <2>3, <2>4
    <3>2. /\ From(rest, j - i + 1) \in Seq(Message)
          /\ Len(From(rest, j - i + 1)) = Len(rest) - (j - i + 1) + 1
          /\ Chars(From(rest, j - i + 1)) <= Chars(rest)
          /\ Chars(From(rest, j - i + 1)) \in Nat
      BY <2>4, <3>1, FromFacts, CharsSuffix
    <3>3. Chars(rest) \in Nat
      <4>1. 1 \in 1 .. Len(rest) + 1 /\ From(rest, 1) = rest
        BY <2>3, <2>4 DEF From
      <4> QED BY <2>4, <4>1, CharsSuffix
    <3>4. Len(From(rest, j - i + 1)) <= Len(rest)
      BY <2>3, <2>4, <3>2
    <3>5. Tokens(From(rest, j - i + 1)) <= Tokens(rest)
      BY <2>4, <3>2, <3>3, <3>4, TokensMono
    <3>6. Tokens(From(rest, j - i + 1)) \in Int /\ Tokens(rest) \in Int /\ MaxTokens \in Int
      BY <2>4, <3>2, <3>3, TokensType
    <3> QED BY <2>1, <2>2, <2>5, <3>5, <3>6
  <2> DEFINE starts2 == {k \in DOMAIN rest :
               Len(From(rest, k)) <= MaxMessages /\ Chars(From(rest, k)) <= MaxChars}
  <2>8. starts2 \in SUBSET DOMAIN rest /\ Admit(ms) = Trim(rest, starts2)
    BY <1>3 DEF ApplyRequestPreflightLimits
  <2>9. \A k \in DOMAIN rest : k \in starts2 <=> Fits(From(ms, i + k - 1))
    BY <2>6, <2>7 DEF Fits
  <2> HIDE DEF starts2
  <2>10. \A j \in DOMAIN ms : Fits(From(ms, j)) => j \in i .. Len(ms)
    BY <1>2, <2>1, <2>3
  <2>11. ASSUME NEW j \in DOMAIN ms, Fits(From(ms, j)) PROVE j - i + 1 \in starts2
    <3>1. j \in i .. Len(ms)
      BY <2>10, <2>11
    <3>2. j - i + 1 \in DOMAIN rest /\ i + (j - i + 1) - 1 = j
      BY <2>3, <2>5, <3>1
    <3> QED BY <2>9, <2>11, <3>2
  <2>12. \/ starts2 = {} /\ Admit(ms) = Summary
         \/ \E k \in starts2 : Admit(ms) = From(rest, k) /\ \A l \in starts2 : k <= l
    BY <2>4, <2>8, TrimIs
  <2>13. CASE starts2 = {} /\ Admit(ms) = Summary
    BY <2>11, <2>13
  <2>14. CASE \E k \in starts2 : Admit(ms) = From(rest, k) /\ \A l \in starts2 : k <= l
    <3>1. PICK k \in starts2 : Admit(ms) = From(rest, k) /\ \A l \in starts2 : k <= l
      BY <2>14
    <3>2. k \in DOMAIN rest
      BY <2>8
    <3>3. /\ i + k - 1 \in i .. Len(ms) /\ From(rest, k) = From(ms, i + k - 1)
          /\ Fits(From(ms, i + k - 1))
      BY <2>6, <2>9, <3>2
    <3>4. ASSUME NEW j \in DOMAIN ms, Fits(From(ms, j)) PROVE i + k - 1 <= j
      <4>1. k <= j - i + 1
        BY <2>11, <3>1, <3>4
      <4> QED BY <2>3, <2>4, <3>2, <4>1
    <3>5. i + k - 1 \in DOMAIN ms
      BY <2>3, <3>3
    <3> QED BY <3>1, <3>3, <3>4, <3>5
  <2> QED BY <2>12, <2>13, <2>14
<1> QED BY <1>5, <1>6, <1>7

-----------------------------------------------------------------------------
(* Well-formed conversations: right behind a message with calls come their  *)
(* results, one message each.  Results whose call is gone may stand        *)
(* anywhere; Done asks of a result that its call is there as well.         *)

Calls(ms, i, c) ==
  /\ i + Len(c) <= Len(ms)
  /\ \A k, l \in 1 .. Len(c) : c[k] = c[l] => k = l
  /\ IdsOf("use", ms[i]) = {c[k] : k \in 1 .. Len(c)}
  /\ \A k \in 1 .. Len(c) : ms[i + k] = Returned(c[k])

Kind(ms, i) ==
  \/ Plain(ms[i])
  \/ IsAnswer(ms[i])
  \/ Asking(ms[i]) /\ \E c \in Seq(Ids) : Calls(ms, i, c)

Owned(ms, i) ==
  \E p \in 1 .. i - 1 : \E c \in Seq(Ids) :
    Asking(ms[p]) /\ Calls(ms, p, c) /\ i - p <= Len(c)

Done(ms, i) == Kind(ms, i) /\ (IsAnswer(ms[i]) => Owned(ms, i))

WellFormed(ms) == ms \in Seq(Message) /\ \A i \in DOMAIN ms : Kind(ms, i)
Whole(ms) == ms \in Seq(Message) /\ \A i \in DOMAIN ms : Done(ms, i)

LEMMA WholeWellFormed ==
  ASSUME NEW ms, Whole(ms)
  PROVE  WellFormed(ms)
BY DEF Whole, WellFormed, Done

\* s from a position on is found d further in t
Embeds(s, i, t, d) == \A k \in i .. Len(s) : k + d \in DOMAIN t /\ t[k + d] = s[k]

LEMMA CallsMove ==
  ASSUME NEW s \in Seq(Message), NEW t \in Seq(Message), NEW d \in Int, NEW i \in DOMAIN s,
         Embeds(s, i, t, d), NEW c \in Seq(Ids), Calls(s, i, c)
  PROVE  Calls(t, i + d, c)
<1>1. /\ i \in Nat /\ 1 <= i /\ i <= Len(s) /\ Len(s) \in Nat /\ Len(c) \in Nat /\ Len(t) \in Nat
      /\ DOMAIN t = 1 .. Len(t) /\ i + Len(c) <= Len(s)
  BY DEF Calls
<1>2. ASSUME NEW k \in 0 .. Len(c) PROVE i + d + k \in DOMAIN t /\ t[i + d + k] = s[i + k]
  <2>1. i + k \in i .. Len(s) /\ (i + k) + d = i + d + k
    BY <1>1
  <2>2. (i + k) + d \in DOMAIN t /\ t[(i + k) + d] = s[i + k]
    BY <2>1 DEF Embeds
  <2> QED BY <2>1, <2>2
<1>3. i + d + Len(c) <= Len(t)
  <2>1. Len(c) \in 0 .. Len(c)
    BY <1>1
  <2> QED BY <1>1, <1>2, <2>1
<1>4. t[i + d] = s[i]
  <2>1. 0 \in 0 .. Len(c) /\ i + d + 0 = i + d /\ i + 0 = i
    BY <1>1
  <2> QED BY <1>2, <2>1
<1>5. \A k \in 1 .. Len(c) : t[i + d + k] = Returned(c[k])
  <2>1. ASSUME NEW k \in 1 .. Len(c) PROVE k \in 0 .. Len(c)
    OBVIOUS
  <2> QED BY <1>2, <2>1 DEF Calls
<1> QED BY <1>3, <1>4, <1>5 DEF Calls

LEMMA KindMove ==
  ASSUME NEW s \in Seq(Message), NEW t \in Seq(Message), NEW d \in Int, NEW i \in DOMAIN s,
         Embeds(s, i, t, d), Kind(s, i)
  PROVE  i + d \in DOMAIN t /\ t[i + d] = s[i] /\ Kind(t, i + d)
<1>1. i + d \in DOMAIN t /\ t[i + d] = s[i]
  <2>1. i \in i .. Len(s)
    OBVIOUS
  <2> QED BY <2>1 DEF Embeds
<1>2. ASSUME NEW c \in Seq(Ids), Calls(s, i, c) PROVE Calls(t, i + d, c)
  BY <1>2, CallsMove
<1> QED BY <1>1, <1>2 DEF Kind

LEMMA DoneMove ==
  ASSUME NEW s \in Seq(Message), NEW t \in Seq(Message), NEW d \in Nat, NEW i \in DOMAIN s,
         Embeds(s, 1, t, d), Done(s, i)
  PROVE  Done(t, i + d)
<1>1. ASSUME NEW j \in DOMAIN s PROVE Embeds(s, j, t, d) /\ t[j + d] = s[j]
  <2>1. /\ \A k \in j .. Len(s) : k \in 1 .. Len(s)
        /\ j \in 1 .. Len(s)
    OBVIOUS
  <2> QED BY <2>1 DEF Embeds
<1>2. Kind(t, i + d) /\ t[i + d] = s[i]
  BY <1>1, KindMove DEF Done
<1>3. ASSUME Owned(s, i) PROVE Owned(t, i + d)
  <2>1. PICK p \in 1 .. i - 1, c \in Seq(Ids) :
          Asking(s[p]) /\ Calls(s, p, c) /\ i - p <= Len(c)
    BY <1>3 DEF Owned
  <2>2. i \in 1 .. Len(s) /\ i \in Nat /\ Len(s) \in Nat
    OBVIOUS
  <2>3. /\ p \in DOMAIN s /\ p + d \in 1 .. (i + d) - 1
        /\ (i + d) - (p + d) = i - p
    BY <2>2
  <2>4. Calls(t, p + d, c) /\ Asking(t[p + d])
    BY <1>1, <2>1, <2>3, CallsMove
  <2> QED BY <2>1, <2>3, <2>4 DEF Owned
<1> QED BY <1>2, <1>3 DEF Done

LEMMA ConcatEmbeds ==
  ASSUME NEW S, NEW s \in Seq(S), NEW t \in Seq(S)
  PROVE  /\ s \o t \in Seq(S) /\ Len(s \o t) = Len(s) + Len(t)
         /\ Embeds(s, 1, s \o t, 0) /\ Embeds(t, 1, s \o t, Len(s))
<1>1. /\ s \o t \in Seq(S) /\ Len(s \o t) = Len(s) + Len(t)
      /\ DOMAIN (s \o t) = 1 .. Len(s) + Len(t) /\ Len(s) \in Nat /\ Len(t) \in Nat
      /\ DOMAIN s = 1 .. Len(s) /\ DOMAIN t = 1 .. Len(t)
  OBVIOUS
<1>2. ASSUME NEW k \in 1 .. Len(s) PROVE k + 0 \in DOMAIN (s \o t) /\ (s \o t)[k + 0] = s[k]
  <2>1. k + 0 = k /\ k \in 1 .. Len(s) + Len(t)
    BY <1>1
  <2>2. (s \o t)[k] = s[k]
    OBVIOUS
  <2> QED BY <1>1, <2>1, <2>2
<1>3. ASSUME NEW k \in 1 .. Len(t)
      PROVE  k + Len(s) \in DOMAIN (s \o t) /\ (s \o t)[k + Len(s)] = t[k]
  <2>1. k + Len(s) \in 1 .. Len(s) + Len(t)
    BY <1>1
  <2>2. (s \o t)[k + Len(s)] = t[k]
    BY <1>1, <2>1
  <2> QED BY <1>1, <2>1, <2>2
<1> QED BY <1>1, <1>2, <1>3 DEF Embeds

LEMMA ConcatDomain ==
  ASSUME NEW S, NEW s \in Seq(S), NEW t \in Seq(S), NEW i \in DOMAIN (s \o t)
  PROVE  \/ i \in DOMAIN s
         \/ i - Len(s) \in DOMAIN t /\ (i - Len(s)) + Len(s) = i
OBVIOUS

LEMMA EmbedsFrom ==
  ASSUME NEW s, NEW t, NEW d, Embeds(s, 1, t, d), NEW i \in Nat \ {0}
  PROVE  Embeds(s, i, t, d)
<1>1. \A k \in i .. Len(s) : k \in 1 .. Len(s)
  OBVIOUS
<1> QED BY <1>1 DEF Embeds

LEMMA WellFormedConcat ==
  ASSUME NEW s, WellFormed(s), NEW t, WellFormed(t)
  PROVE  WellFormed(s \o t)
<1>1. s \in Seq(Message) /\ t \in Seq(Message)
  BY DEF WellFormed
<1>2. ASSUME NEW i \in DOMAIN (s \o t) PROVE Kind(s \o t, i)
  <2>1. CASE i \in DOMAIN s
    <3>1. Embeds(s, i, s \o t, 0) /\ Kind(s, i) /\ s \o t \in Seq(Message) /\ i + 0 = i
      BY <1>1, <2>1, ConcatEmbeds, EmbedsFrom DEF WellFormed
    <3> DEFINE d == 0
               u == s \o t
    <3>2. Embeds(s, i, u, d) /\ u \in Seq(Message) /\ d \in Int
      BY <3>1
    <3> HIDE DEF d, u
    <3>3. Kind(u, i + d)
      BY <1>1, <2>1, <3>1, <3>2, KindMove
    <3> QED BY <3>1, <3>3 DEF d, u
  <2>2. CASE i - Len(s) \in DOMAIN t /\ (i - Len(s)) + Len(s) = i
    <3> DEFINE j == i - Len(s)
    <3>1. j \in Nat \ {0} /\ Len(s) \in Nat
      BY <1>1, <2>2
    <3>2. j \in DOMAIN t /\ j + Len(s) = i
      BY <2>2
    <3> HIDE DEF j
    <3>3. Embeds(t, j, s \o t, Len(s)) /\ Kind(t, j) /\ s \o t \in Seq(Message)
      BY <1>1, <3>1, <3>2, ConcatEmbeds, EmbedsFrom DEF WellFormed
    <3> DEFINE d == Len(s)
               u == s \o t
    <3>4. Embeds(t, j, u, d) /\ u \in Seq(Message) /\ d \in Int
      BY <3>1, <3>3
    <3> HIDE DEF d, u
    <3>5. Kind(u, j + d)
      BY <1>1, <3>2, <3>3, <3>4, KindMove
    <3> QED BY <3>2, <3>5 DEF d, u
  <2> QED BY <1>1, <2>1, <2>2, ConcatDomain
<1> QED BY <1>1, <1>2, ConcatEmbeds DEF WellFormed

LEMMA WholeConcat ==
  ASSUME NEW s, Whole(s), NEW t, Whole(t)
  PROVE  Whole(s \o t)
<1>1. s \in Seq(Message) /\ t \in Seq(Message)
  BY DEF Whole
<1>2. ASSUME NEW i \in DOMAIN (s \o t) PROVE Done(s \o t, i)
  <2>1. CASE i \in DOMAIN s
    <3>1. Embeds(s, 1, s \o t, 0) /\ Done(s, i) /\ s \o t \in Seq(Message) /\ i + 0 = i
      BY <1>1, <2>1, ConcatEmbeds DEF Whole
    <3> DEFINE d == 0
               u == s \o t
    <3>2. Embeds(s, 1, u, d) /\ u \in Seq(Message) /\ d \in Nat
      BY <3>1
    <3> HIDE DEF d, u
    <3>3. Done(u, i + d)
      BY <1>1, <2>1, <3>1, <3>2, DoneMove
    <3> QED BY <3>1, <3>3 DEF d, u
  <2>2. CASE i - Len(s) \in DOMAIN t /\ (i - Len(s)) + Len(s) = i
    <3> DEFINE j == i - Len(s)
    <3>1. j \in DOMAIN t /\ j + Len(s) = i /\ Len(s) \in Nat
      BY <1>1, <2>2
    <3> HIDE DEF j
    <3>2. Embeds(t, 1, s \o t, Len(s)) /\ Done(t, j) /\ s \o t \in Seq(Message)
      BY <1>1, <3>1, ConcatEmbeds DEF Whole
    <3> DEFINE d == Len(s)
               u == s \o t
    <3>3. Embeds(t, 1, u, d) /\ u \in Seq(Message) /\ d \in Nat
      BY <3>1, <3>2
    <3> HIDE DEF d, u
    <3>4. Done(u, j + d)
      BY <1>1, <3>1, <3>2, <3>3, DoneMove
    <3> QED BY <3>1, <3>4 DEF d, u
  <2> QED BY <1>1, <2>1, <2>2, ConcatDomain
<1> QED BY <1>1, <1>2, ConcatEmbeds DEF Whole

\* The end of a well-formed conversation is one: results follow their calls
LEMMA WellFormedSuffix ==
  ASSUME NEW ms, WellFormed(ms), NEW i \in 1 .. Len(ms) + 1
  PROVE  WellFormed(From(ms, i))
<1> DEFINE t == From(ms, i)
<1>1. ms \in Seq(Message) /\ Len(ms) \in Nat /\ i \in Nat /\ 1 <= i
  BY DEF WellFormed
<1>2. /\ t \in Seq(Message) /\ Len(t) = Len(ms) - i + 1
      /\ \A k \in 1 .. Len(ms) - i + 1 : t[k] = ms[i - 1 + k]
  BY <1>1, FromFacts
<1> HIDE DEF t
<1>3. ASSUME NEW j \in DOMAIN t PROVE Kind(t, j)
  <2> DEFINE k == i - 1 + j
             d == 1 - i
  <2>1. j \in Nat /\ 1 <= j /\ j <= Len(ms) - i + 1 /\ DOMAIN t = 1 .. Len(ms) - i + 1
    BY <1>1, <1>2
  <2>2. k \in DOMAIN ms /\ k + d = j /\ k \in Nat /\ i <= k /\ d \in Int
    BY <1>1, <2>1
  <2>3. ASSUME NEW l \in k .. Len(ms) PROVE l + d \in DOMAIN t /\ t[l + d] = ms[l]
    <3>1. l + d \in 1 .. Len(ms) - i + 1 /\ i - 1 + (l + d) = l
      BY <1>1, <2>2
    <3> QED BY <1>2, <2>1, <3>1
  <2> HIDE DEF k, d
  <2>4. Embeds(ms, k, t, d) /\ Kind(ms, k)
    BY <2>2, <2>3 DEF Embeds, WellFormed
  <2> QED BY <1>1, <1>2, <2>2, <2>4, KindMove
<1> QED BY <1>2, <1>3 DEF WellFormed, t

-----------------------------------------------------------------------------
(* A conversation in which every message is done is paired *)

LEMMA KindFacts ==
  ASSUME NEW ms, NEW i, Kind(ms, i)
  PROVE  /\ ms[i] \in Message /\ ms[i].blocks # <<>>
         /\ IdsOf("use", ms[i]) # {} =>
              Asking(ms[i]) /\ \E c \in Seq(Ids) : Calls(ms, i, c)
         /\ IdsOf("result", ms[i]) # {} => IsAnswer(ms[i])
<1>1. CASE Plain(ms[i])
  BY <1>1, PlainFacts DEF Plain
<1>2. CASE IsAnswer(ms[i])
  BY <1>2, AnswerFacts DEF IsAnswer
<1>3. CASE Asking(ms[i]) /\ \E c \in Seq(Ids) : Calls(ms, i, c)
  BY <1>3, AskingFacts
<1> QED BY <1>1, <1>2, <1>3 DEF Kind

Results(ms, i, c) ==
  \A k \in 1 .. Len(c) :
    /\ IdsOf("result", ms[i + k]) = {c[k]} /\ ms[i + k].role = "user"
    /\ c[k] \in IdsOf("use", ms[i])

LEMMA CallsResults ==
  ASSUME NEW ms, NEW i \in Nat, NEW c \in Seq(Ids), Calls(ms, i, c)
  PROVE  Results(ms, i, c)
<1> SUFFICES ASSUME NEW k \in 1 .. Len(c)
             PROVE  /\ IdsOf("result", ms[i + k]) = {c[k]} /\ ms[i + k].role = "user"
                    /\ c[k] \in IdsOf("use", ms[i])
  BY DEF Results
<1>1. ms[i + k] = Returned(c[k]) /\ c[k] \in Ids
  BY DEF Calls
<1>2. c[k] \in IdsOf("use", ms[i])
  BY DEF Calls
<1> QED BY <1>1, <1>2, AnswerFacts

LEMMA WholePaired ==
  ASSUME NEW ms, Whole(ms)
  PROVE  Paired(ms)
<1>1. ms \in Seq(Message) /\ DOMAIN ms = 1 .. Len(ms) /\ Len(ms) \in Nat
  BY DEF Whole
<1>2. ASSUME NEW i \in DOMAIN ms, IdsOf("use", ms[i]) # {}
      PROVE  \E j \in DOMAIN ms :
               /\ j > i
               /\ UNION {IdsOf("result", ms[k]) : k \in i + 1 .. j} = IdsOf("use", ms[i])
               /\ \A k \in i + 1 .. j : ms[k].role = "user" /\ IdsOf("result", ms[k]) # {}
  <2>1. PICK c \in Seq(Ids) : Calls(ms, i, c)
    BY <1>2, KindFacts DEF Whole, Done
  <2> DEFINE j == i + Len(c)
  <2>2. Len(c) \in Nat /\ i \in Nat /\ 1 <= i /\ j <= Len(ms)
    BY <1>1, <2>1 DEF Calls
  <2>11. \A k \in 1 .. Len(c) :
           IdsOf("result", ms[i + k]) = {c[k]} /\ ms[i + k].role = "user"
    <3>1. Results(ms, i, c)
      BY <1>1, <2>1, CallsResults
    <3> QED BY <3>1 DEF Results
  <2>3. IdsOf("use", ms[i]) = {c[k] : k \in 1 .. Len(c)}
    BY <2>1 DEF Calls
  <2>4. Len(c) # 0
    <3> SUFFICES ASSUME Len(c) = 0 PROVE FALSE
      OBVIOUS
    <3>1. 1 .. Len(c) = {}
      OBVIOUS
    <3> QED BY <1>2, <2>3, <3>1
  <2>5. ASSUME NEW k \in 1 .. Len(c)
        PROVE  /\ i + k \in i + 1 .. j
               /\ IdsOf("result", ms[i + k]) = {c[k]} /\ ms[i + k].role = "user"
    <3>1. IdsOf("result", ms[i + k]) = {c[k]} /\ ms[i + k].role = "user"
      BY <2>11
    <3>2. i + k \in i + 1 .. j
      BY <2>2
    <3> QED BY <3>1, <3>2
  <2>6. ASSUME NEW k \in i + 1 .. j PROVE k - i \in 1 .. Len(c) /\ i + (k - i) = k
    BY <2>2
  <2>7. \A k \in i + 1 .. j : ms[k].role = "user" /\ IdsOf("result", ms[k]) = {c[k - i]}
    <3> SUFFICES ASSUME NEW k \in i + 1 .. j
                 PROVE  ms[k].role = "user" /\ IdsOf("result", ms[k]) = {c[k - i]}
      OBVIOUS
    <3> DEFINE l == k - i
    <3>1. l \in 1 .. Len(c) /\ i + l = k
      BY <2>6
    <3> HIDE DEF l
    <3>2. IdsOf("result", ms[i + l]) = {c[l]} /\ ms[i + l].role = "user"
      BY <2>5, <3>1
    <3> QED BY <3>1, <3>2 DEF l
  <2>8. UNION {IdsOf("result", ms[k]) : k \in i + 1 .. j} = {c[k] : k \in 1 .. Len(c)}
    <3>1. ASSUME NEW k \in i + 1 .. j, NEW x \in IdsOf("result", ms[k])
          PROVE  x \in {c[l] : l \in 1 .. Len(c)}
      BY <2>6, <2>7, <3>1
    <3>2. ASSUME NEW l \in 1 .. Len(c)
          PROVE  \E k \in i + 1 .. j : c[l] \in IdsOf("result", ms[k])
      BY <2>5
    <3> QED BY <3>1, <3>2
  <2>9. j \in DOMAIN ms /\ j > i
    BY <1>1, <2>2, <2>4
  <2>10. \A k \in i + 1 .. j : ms[k].role = "user" /\ IdsOf("result", ms[k]) # {}
    BY <2>7
  <2> QED BY <2>3, <2>8, <2>9, <2>10
<1>3. ASSUME NEW i \in DOMAIN ms, IdsOf("result", ms[i]) # {}
      PROVE  \E h \in 1 .. i - 1 :
               /\ IdsOf("result", ms[i]) \subseteq IdsOf("use", ms[h])
               /\ \A k \in h + 1 .. i - 1 :
                    /\ IdsOf("result", ms[k]) # {}
                    /\ IdsOf("result", ms[k]) \cap IdsOf("result", ms[i]) = {}
  <2>1. IsAnswer(ms[i]) /\ Owned(ms, i)
    BY <1>3, KindFacts DEF Whole, Done
  <2>2. PICK p \in 1 .. i - 1, c \in Seq(Ids) : Calls(ms, p, c) /\ i - p <= Len(c)
    BY <2>1 DEF Owned
  <2>3. i \in Nat /\ p \in Nat /\ p < i /\ Len(c) \in Nat
    BY <1>1
  <2>7. \A k \in 1 .. Len(c) :
           IdsOf("result", ms[p + k]) = {c[k]} /\ c[k] \in IdsOf("use", ms[p])
    <3>1. Results(ms, p, c)
      BY <2>2, <2>3, CallsResults
    <3> QED BY <3>1 DEF Results
  <2> DEFINE r == i - p
  <2>4. r \in 1 .. Len(c) /\ p + r = i
    BY <2>2, <2>3
  <2> HIDE DEF r
  <2>5. IdsOf("result", ms[i]) = {c[r]} /\ c[r] \in IdsOf("use", ms[p])
    <3>1. IdsOf("result", ms[p + r]) = {c[r]} /\ c[r] \in IdsOf("use", ms[p])
      BY <2>7, <2>4
    <3> QED BY <2>4, <3>1
  <2>6. ASSUME NEW k \in p + 1 .. i - 1
        PROVE  /\ IdsOf("result", ms[k]) # {}
               /\ IdsOf("result", ms[k]) \cap IdsOf("result", ms[i]) = {}
    <3> DEFINE l == k - p
    <3>1. l \in 1 .. Len(c) /\ p + l = k /\ l # r
      BY <2>3, <2>4
    <3> HIDE DEF l
    <3>2. IdsOf("result", ms[k]) = {c[l]}
      <4>1. IdsOf("result", ms[p + l]) = {c[l]}
        BY <2>7, <3>1
      <4> QED BY <3>1, <4>1
    <3>3. c[l] # c[r]
      BY <2>2, <2>4, <3>1 DEF Calls
    <3> QED BY <2>5, <3>2, <3>3
  <2> QED BY <2>5, <2>6
<1> QED BY <1>2, <1>3 DEF Paired

-----------------------------------------------------------------------------
(* The pass of the sanitizer over a well-formed conversation ms: behind n    *)
(* messages it is idle, with all of its output done, or in a batch: r of   *)
(* the calls c of its pending message are answered, and the others are the *)
(* next messages.  It never has to give up a message with calls.           *)

Idle(ms, n, st) ==
  st.pending = 0 /\ st.expected = {} /\ Whole(st.out) /\ (n > 0 => ~Asking(ms[n]))

Batch(ms, n, st, c, r) ==
  /\ c \in Seq(Ids) /\ r \in 0 .. Len(c) - 1
  /\ st.pending > 0 /\ Len(st.out) = st.pending + r
  /\ \A i \in 1 .. st.pending - 1 : Done(st.out, i)
  /\ Asking(st.out[st.pending])
  /\ IdsOf("use", st.out[st.pending]) = {c[k] : k \in 1 .. Len(c)}
  /\ \A k, l \in 1 .. Len(c) : c[k] = c[l] => k = l
  /\ \A k \in 1 .. r : st.out[st.pending + k] = Returned(c[k])
  /\ st.expected = {c[k] : k \in r + 1 .. Len(c)}
  /\ n + (Len(c) - r) <= Len(ms)
  /\ \A k \in 1 .. Len(c) - r : ms[n + k] = Returned(c[r + k])

Underway(ms, n, st) == Idle(ms, n, st) \/ \E c, r : Batch(ms, n, st, c, r)

LEMMA DoneAppend ==
  ASSUME NEW s \in Seq(Message), NEW m \in Message, NEW i \in DOMAIN s, Done(s, i)
  PROVE  Done(Append(s, m), i)
<1> DEFINE t == Append(s, m)
           d == 0
<1>1. t \in Seq(Message) /\ d \in Nat /\ i + d = i
  OBVIOUS
<1>2. \A k \in 1 .. Len(s) : k + d = k /\ k \in DOMAIN t /\ t[k] = s[k]
  OBVIOUS
<1>3. Embeds(s, 1, t, d)
  BY <1>2 DEF Embeds
<1> HIDE DEF t, d
<1>4. Done(t, i + d)
  BY <1>1, <1>3, DoneMove
<1> QED BY <1>1, <1>4 DEF t

LEMMA KindMessage ==
  ASSUME NEW m, Plain(m) \/ Asking(m) \/ IsAnswer(m)
  PROVE  m \in Message /\ (IsAnswer(m) => ~Plain(m) /\ ~Asking(m)) /\ (Plain(m) => ~Asking(m))
<1>1. Plain(m) => m \in Message
  BY PlainFacts DEF Plain
<1>2. IsAnswer(m) => m \in Message /\ ~Plain(m) /\ ~Asking(m)
  BY AnswerFacts DEF IsAnswer
<1>3. Asking(m) => m \in Message /\ ~Plain(m)
  BY AskingFacts
<1> QED BY <1>1, <1>2, <1>3

LEMMA PlainWhole ==
  ASSUME NEW s, Whole(s), NEW m, Plain(m)
  PROVE  Whole(Append(s, m))
<1>1. m \in Message /\ ~IsAnswer(m)
  BY KindMessage
<1>2. /\ s \in Seq(Message) /\ Append(s, m) \in Seq(Message)
      /\ Len(s) \in Nat /\ DOMAIN Append(s, m) = 1 .. Len(s) + 1 /\ DOMAIN s = 1 .. Len(s)
      /\ Append(s, m)[Len(s) + 1] = m
  BY <1>1 DEF Whole
<1>3. Done(Append(s, m), Len(s) + 1)
  BY <1>1, <1>2 DEF Done, Kind
<1>4. ASSUME NEW i \in 1 .. Len(s) PROVE Done(Append(s, m), i)
  BY <1>1, <1>2, DoneAppend DEF Whole
<1>5. \A i \in 1 .. Len(s) + 1 : i \in 1 .. Len(s) \/ i = Len(s) + 1
  BY <1>2
<1> QED BY <1>2, <1>3, <1>4, <1>5 DEF Whole

LEMMA IdleStep ==
  ASSUME NEW ms, WellFormed(ms), NEW n \in 0 .. Len(ms) - 1, NEW st \in PassState,
         Idle(ms, n, st)
  PROVE  LET m == ms[n + 1]
             next == SanitizeMessage(st, m)
         IN /\ Underway(ms, n + 1, next)
            /\ \/ next.out = Append(st.out, m)
               \/ next.out = st.out /\ IsAnswer(m) /\ (n > 0 => ~Asking(ms[n]))
<1> DEFINE m == ms[n + 1]
           next == SanitizeMessage(st, m)
           s == st.out
<1>1. /\ Kind(ms, n + 1) /\ n + 1 > 0 /\ Len(ms) \in Nat /\ n \in Nat /\ n + 1 \in Nat
  BY DEF WellFormed
<1>2. st.pending = 0 /\ st.expected = {} /\ Whole(s) /\ (n > 0 => ~Asking(ms[n]))
  BY DEF Idle
<1>3. s \in Seq(Message) /\ Len(s) \in Nat
  BY DEF PassState
<1> HIDE DEF m
<1>4. CASE Plain(m)
  <2>1. next = [out |-> Append(s, m), expected |-> {}, pending |-> 0]
    BY <1>2, <1>4, SanitizePlain
  <2>2. ~Asking(m) /\ Whole(Append(s, m))
    BY <1>2, <1>4, KindMessage, PlainWhole
  <2> HIDE DEF next, s
  <2>3. Idle(ms, n + 1, next)
    BY <2>1, <2>2 DEF Idle, m
  <2> QED BY <2>1, <2>3 DEF Underway, next, m, s
<1>5. CASE IsAnswer(m)
  <2>1. PICK i \in Ids : m = Returned(i)
    BY <1>5 DEF IsAnswer
  <2>2. next = st
    BY <1>2, <2>1, SanitizeOrphan
  <2>3. ~Asking(m)
    BY <1>5, KindMessage
  <2> HIDE DEF next
  <2>4. Idle(ms, n + 1, next)
    BY <1>2, <2>2, <2>3 DEF Idle, m
  <2> QED BY <1>2, <1>5, <2>2, <2>4 DEF Underway, next, m
<1>6. CASE Asking(m) /\ \E c \in Seq(Ids) : Calls(ms, n + 1, c)
  <2>1. PICK c \in Seq(Ids) : Calls(ms, n + 1, c)
    BY <1>6
  <2>2. next = [out |-> Append(s, m), expected |-> IdsOf("use", m), pending |-> Len(s) + 1]
    BY <1>2, <1>6, SanitizeAsking
  <2>3. /\ n + 1 + Len(c) <= Len(ms) /\ Len(c) \in Nat
        /\ \A k, l \in 1 .. Len(c) : c[k] = c[l] => k = l
        /\ IdsOf("use", m) = {c[k] : k \in 1 .. Len(c)}
        /\ \A k \in 1 .. Len(c) : ms[n + 1 + k] = Returned(c[k])
    BY <2>1 DEF Calls, m
  <2>4. Len(c) # 0
    <3> SUFFICES ASSUME Len(c) = 0 PROVE FALSE
      OBVIOUS
    <3>1. 1 .. Len(c) = {}
      OBVIOUS
    <3> QED BY <1>6, <2>3, <3>1 DEF Asking
  <2>5. m \in Message
    BY <1>6, KindMessage
  <2> HIDE DEF next, s
  <2>6. /\ Append(s, m) \in Seq(Message) /\ Len(Append(s, m)) = Len(s) + 1
        /\ Append(s, m)[Len(s) + 1] = m
    BY <1>3, <2>5
  <2>7. ASSUME NEW i \in 1 .. (Len(s) + 1) - 1 PROVE Done(Append(s, m), i)
    <3>1. i \in DOMAIN s
      BY <1>3
    <3> QED BY <1>2, <1>3, <2>5, <3>1, DoneAppend DEF Whole
  <2>8. /\ next.out = Append(s, m) /\ next.pending = Len(s) + 1
        /\ next.expected = {c[k] : k \in 1 .. Len(c)}
    BY <2>2, <2>3
  <2>9. Batch(ms, n + 1, next, c, 0)
    <3>1. 0 \in 0 .. Len(c) - 1 /\ Len(s) + 1 > 0 /\ Len(s) + 1 = Len(s) + 1 + 0
      BY <1>3, <2>3, <2>4
    <3>2. \A k \in 1 .. 0 : FALSE
      OBVIOUS
    <3>3. Len(c) - 0 = Len(c) /\ 0 + 1 = 1 /\ n + 1 + (Len(c) - 0) <= Len(ms)
      BY <2>3
    <3>4. \A k \in 1 .. Len(c) : 0 + k = k
      OBVIOUS
    <3> QED BY <1>6, <2>3, <2>6, <2>7, <2>8, <3>1, <3>2, <3>3, <3>4 DEF Batch
  <2> QED BY <2>8, <2>9 DEF Underway, next, m, s
<1> QED BY <1>1, <1>4, <1>5, <1>6 DEF Kind, m

LEMMA BatchStep ==
  ASSUME NEW ms, ms \in Seq(Message), NEW n \in 0 .. Len(ms) - 1, NEW st \in PassState,
         NEW c, NEW r, Batch(ms, n, st, c, r)
  PROVE  LET m == ms[n + 1]
             next == SanitizeMessage(st, m)
         IN Underway(ms, n + 1, next) /\ next.out = Append(st.out, m)
<1> DEFINE m == ms[n + 1]
           next == SanitizeMessage(st, m)
           s == st.out
           t == Append(st.out, m)
           q == st.pending
<1>1. /\ c \in Seq(Ids) /\ Len(c) \in Nat /\ r \in Nat /\ r < Len(c) /\ r + 1 \in 1 .. Len(c)
      /\ n \in Nat /\ Len(ms) \in Nat /\ q \in Nat /\ q > 0
      /\ s \in Seq(Message) /\ Len(s) = q + r
  <2>1. c \in Seq(Ids) /\ r \in 0 .. Len(c) - 1 /\ q > 0 /\ Len(s) = q + r
    BY DEF Batch
  <2>2. s \in Seq(Message) /\ q \in Nat
    BY DEF PassState
  <2>3. Len(c) \in Nat /\ n \in Nat /\ Len(ms) \in Nat
    BY <2>1
  <2> HIDE DEF q, s
  <2>4. r \in Nat /\ r < Len(c) /\ r + 1 \in 1 .. Len(c)
    BY <2>1, <2>3
  <2> QED BY <2>1, <2>2, <2>3, <2>4
<1>2. m = Returned(c[r + 1]) /\ c[r + 1] \in Ids
  <2>1. 1 \in 1 .. Len(c) - r
    BY <1>1
  <2>2. ms[n + 1] = Returned(c[r + 1])
    BY <2>1 DEF Batch
  <2> QED BY <1>1, <2>2
<1>3. c[r + 1] \in st.expected
  <2>1. r + 1 \in r + 1 .. Len(c)
    BY <1>1
  <2> QED BY <2>1 DEF Batch
<1>4. \A k, l \in 1 .. Len(c) : c[k] = c[l] => k = l
  BY DEF Batch
<1>5. st.expected \ {c[r + 1]} = {c[k] : k \in r + 2 .. Len(c)}
  <2>1. st.expected = {c[k] : k \in r + 1 .. Len(c)}
    BY DEF Batch
  <2>2. \A k \in r + 1 .. Len(c) : k \in 1 .. Len(c) /\ (k = r + 1 \/ k \in r + 2 .. Len(c))
    BY <1>1
  <2>3. \A k \in r + 2 .. Len(c) : k \in r + 1 .. Len(c) /\ k # r + 1 /\ k \in 1 .. Len(c)
    BY <1>1
  <2>4. \A k \in r + 2 .. Len(c) : c[k] # c[r + 1]
    BY <1>1, <1>4, <2>3
  <2> QED BY <2>1, <2>2, <2>3, <2>4
<1> HIDE DEF m
<1>6. m \in Message /\ IsAnswer(m)
  BY <1>2, AnswerFacts DEF IsAnswer
<1>7. next = [out |-> t, expected |-> {c[k] : k \in r + 2 .. Len(c)},
              pending |-> IF {c[k] : k \in r + 2 .. Len(c)} = {} THEN 0 ELSE q]
  BY <1>2, <1>3, <1>5, SanitizeAnswer
<1>8. /\ t \in Seq(Message) /\ Len(t) = q + (r + 1) /\ t[q + (r + 1)] = m
      /\ \A i \in 1 .. q + r : t[i] = s[i]
  <2> HIDE DEF s, q
  <2>1. /\ Append(s, m) \in Seq(Message) /\ Len(Append(s, m)) = Len(s) + 1
        /\ Append(s, m)[Len(s) + 1] = m
        /\ \A i \in 1 .. Len(s) : Append(s, m)[i] = s[i]
    BY <1>1, <1>6
  <2>2. Len(s) = q + r /\ Len(s) + 1 = q + (r + 1)
    BY <1>1
  <2>3. t = Append(s, m)
    BY DEF s
  <2> HIDE DEF t
  <2> QED BY <2>1, <2>2, <2>3
<1>9. ASSUME NEW i \in 1 .. q - 1 PROVE Done(t, i)
  <2>1. i \in DOMAIN s /\ Done(s, i)
    BY <1>1 DEF Batch
  <2> QED BY <1>1, <1>6, <2>1, DoneAppend
<1>10. Asking(t[q]) /\ IdsOf("use", t[q]) = {c[k] : k \in 1 .. Len(c)}
  <2>1. q \in 1 .. q + r
    BY <1>1
  <2> QED BY <1>8, <2>1 DEF Batch
<1>11. ASSUME NEW k \in 1 .. r + 1 PROVE t[q + k] = Returned(c[k])
  <2>1. CASE k = r + 1
    BY <1>2, <1>8, <2>1
  <2>2. CASE k # r + 1
    <3>1. k \in 1 .. r /\ q + k \in 1 .. q + r
      BY <1>1, <2>2
    <3> QED BY <1>8, <3>1 DEF Batch
  <2> QED BY <2>1, <2>2
<1> HIDE DEF next, s, t, q
<1>12. CASE r + 1 < Len(c)
  <2>1. r + 2 \in r + 2 .. Len(c)
    BY <1>1, <1>12
  <2>2. /\ next.out = t /\ next.pending = q
        /\ next.expected = {c[k] : k \in (r + 1) + 1 .. Len(c)}
    <3>1. {c[k] : k \in r + 2 .. Len(c)} # {}
      BY <2>1
    <3>2. (r + 1) + 1 = r + 2
      BY <1>1
    <3> QED BY <1>7, <3>1, <3>2
  <2>3. (n + 1) + (Len(c) - (r + 1)) <= Len(ms)
    <3>1. n + (Len(c) - r) <= Len(ms)
      BY DEF Batch
    <3> QED BY <1>1, <3>1
  <2>4. ASSUME NEW k \in 1 .. Len(c) - (r + 1) PROVE ms[(n + 1) + k] = Returned(c[(r + 1) + k])
    <3> DEFINE l == k + 1
    <3>1. l \in 1 .. Len(c) - r /\ n + l = (n + 1) + k /\ r + l = (r + 1) + k
      BY <1>1
    <3> HIDE DEF l
    <3>2. ms[n + l] = Returned(c[r + l])
      BY <3>1 DEF Batch
    <3> QED BY <3>1, <3>2
  <2>5. r + 1 \in 0 .. Len(c) - 1
    BY <1>1, <1>12
  <2>6. Batch(ms, n + 1, next, c, r + 1)
    BY <1>1, <1>4, <1>8, <1>9, <1>10, <1>11, <2>2, <2>3, <2>4, <2>5 DEF Batch
  <2> QED BY <2>2, <2>6 DEF Underway, next, m, s, t
<1>13. CASE r + 1 = Len(c)
  <2>1. {c[k] : k \in r + 2 .. Len(c)} = {}
    BY <1>1, <1>13
  <2>2. next.out = t /\ next.pending = 0 /\ next.expected = {}
    BY <1>7, <2>1
  <2>3. Calls(t, q, c)
    <3>1. q + Len(c) <= Len(t)
      BY <1>1, <1>8, <1>13
    <3>2. \A k \in 1 .. Len(c) : t[q + k] = Returned(c[k])
      BY <1>11, <1>13
    <3> QED BY <1>4, <1>10, <3>1, <3>2 DEF Calls
  <2>4. ASSUME NEW i \in 1 .. q + (r + 1) PROVE Done(t, i)
    <3>1. CASE i < q
      <4>1. i \in 1 .. q - 1
        BY <1>1, <3>1
      <4> QED BY <1>9, <4>1
    <3>2. CASE i = q
      BY <1>1, <1>10, <2>3, <3>2, KindMessage DEF Done, Kind
    <3>3. CASE i > q
      <4> DEFINE k == i - q
      <4>1. k \in 1 .. r + 1 /\ q + k = i /\ k \in 1 .. Len(c) /\ q \in 1 .. i - 1 /\ k <= Len(c)
        BY <1>1, <1>13, <3>3
      <4>2. t[i] = Returned(c[k]) /\ c[k] \in Ids
        <5> HIDE DEF k
        <5>1. t[q + k] = Returned(c[k])
          BY <1>11, <4>1
        <5>2. c[k] \in Ids
          BY <1>1, <4>1
        <5> QED BY <4>1, <5>1, <5>2
      <4>3. IsAnswer(t[i])
        BY <4>2 DEF IsAnswer
      <4>4. Owned(t, i)
        BY <1>1, <1>10, <2>3, <4>1 DEF Owned
      <4> QED BY <4>3, <4>4 DEF Done, Kind
    <3> QED BY <1>1, <3>1, <3>2, <3>3
  <2>5. Whole(t)
    BY <1>8, <2>4 DEF Whole
  <2>6. ~Asking(m)
    BY <1>6, KindMessage
  <2>7. Idle(ms, n + 1, next)
    BY <2>2, <2>5, <2>6 DEF Idle, m
  <2> QED BY <2>2, <2>7 DEF Underway, next, m, s, t
<1> QED BY <1>1, <1>12, <1>13

\* What is known of the pass behind n messages, f listing the characters of the
\* first messages of ms
Newest(ms, n) ==
  n > 0 /\ (Plain(ms[n]) \/ Asking(ms[n]) \/ (n > 1 /\ Asking(ms[n - 1])))

Sound(ms, f, n, st) ==
  /\ st \in PassState /\ Underway(ms, n, st)
  /\ Newest(ms, n) => st.out # <<>> /\ Last(st.out) = ms[n]
  /\ Len(st.out) <= n /\ Chars(st.out) <= f[n]

LEMMA SoundStep ==
  ASSUME NEW ms, WellFormed(ms), NEW n \in 0 .. Len(ms) - 1,
         NEW f \in [0 .. Len(ms) -> Nat], f[n + 1] = f[n] + Size(ms[n + 1]),
         NEW st, Sound(ms, f, n, st)
  PROVE  Sound(ms, f, n + 1, SanitizeMessage(st, ms[n + 1]))
<1> DEFINE m == ms[n + 1]
           next == SanitizeMessage(st, m)
<1>1. /\ st \in PassState /\ Underway(ms, n, st) /\ Len(st.out) <= n /\ Chars(st.out) <= f[n]
      /\ ms \in Seq(Message)
  BY DEF Sound, WellFormed
<1>2. n \in Nat /\ Len(ms) \in Nat /\ n + 1 \in DOMAIN ms /\ n \in 0 .. Len(ms) /\ (n + 1) - 1 = n
  BY <1>1
<1>3. m \in Message /\ Size(m) \in Nat /\ next \in PassState /\ f[n] \in Nat
  BY <1>1, <1>2, SizeType, SanitizeMessageType
<1>4. /\ Underway(ms, n + 1, next)
      /\ \/ next.out = Append(st.out, m)
         \/ next.out = st.out /\ IsAnswer(m) /\ (n > 0 => ~Asking(ms[n]))
  <2>1. CASE Idle(ms, n, st)
    BY <1>1, <2>1, IdleStep
  <2>2. CASE \E c, r : Batch(ms, n, st, c, r)
    BY <1>1, <2>2, BatchStep
  <2> QED BY <1>1, <2>1, <2>2 DEF Underway
<1>5. st.out \in Seq(Message) /\ Len(st.out) \in Nat
  BY <1>1 DEF PassState
<1> HIDE DEF next
<1>6. CASE next.out = Append(st.out, m)
  <2>1. Len(next.out) = Len(st.out) + 1 /\ next.out # <<>> /\ Last(next.out) = m
    <3> DEFINE s == st.out
    <3>1. s \in Seq(Message) /\ Len(s) \in Nat /\ next.out = Append(s, m)
      BY <1>5, <1>6
    <3> HIDE DEF m, s
    <3>2. /\ Len(Append(s, m)) = Len(s) + 1 /\ Append(s, m) # <<>>
          /\ Last(Append(s, m)) = m
      BY <1>3, <3>1, AppendLast
    <3> QED BY <3>1, <3>2 DEF s
  <2>2. Chars(next.out) = Chars(st.out) + Size(m) /\ Chars(st.out) \in Nat
    BY <1>3, <1>5, <1>6, CharsAppend
  <2>3. Len(next.out) <= n + 1 /\ Chars(next.out) <= f[n + 1]
    BY <1>1, <1>2, <1>3, <1>5, <2>1, <2>2
  <2>4. Sound(ms, f, n + 1, next)
    BY <1>3, <1>4, <2>1, <2>3 DEF Sound
  <2> QED BY <2>4 DEF next
<1>7. CASE next.out = st.out /\ IsAnswer(m) /\ (n > 0 => ~Asking(ms[n]))
  <2>1. ~Plain(m) /\ ~Asking(m)
    BY <1>7, KindMessage
  <2>2. ~Newest(ms, n + 1)
    BY <1>2, <1>7, <2>1 DEF Newest
  <2>3. Chars(st.out) \in Nat
    BY <1>3, <1>5, CharsAppend
  <2>4. Len(next.out) <= n + 1 /\ Chars(next.out) <= f[n + 1]
    BY <1>1, <1>2, <1>3, <1>5, <1>7, <2>3
  <2>5. Sound(ms, f, n + 1, next)
    BY <1>3, <1>4, <2>2, <2>4 DEF Sound
  <2> QED BY <2>5 DEF next
<1> QED BY <1>4, <1>6, <1>7

\* Nothing is left empty, so that the last filter keeps everything
LEMMA NonEmptyAll ==
  ASSUME NEW ms \in Seq(Message), \A k \in DOMAIN ms : ms[k].blocks # <<>>
  PROVE  NonEmpty(ms) = ms
<1> DEFINE N == Len(ms)
<1>1. PICK h \in [0 .. N -> Seq(Message)] :
        /\ h[0] = <<>> /\ NonEmpty(ms) = h[N]
        /\ \A k \in 1 .. N : h[k] = IF ms[k].blocks = <<>> THEN h[k - 1] ELSE Append(h[k - 1], ms[k])
  BY NonEmptyRuns
<1>2. N \in Nat /\ SubSeq(ms, 1, 0) = <<>> /\ SubSeq(ms, 1, N) = ms /\ DOMAIN ms = 1 .. N
  OBVIOUS
<1> DEFINE T == {k \in 0 .. N : h[k] = SubSeq(ms, 1, k)}
<1>3. 0 \in T
  <2>1. 0 \in 0 .. N /\ h[0] = SubSeq(ms, 1, 0)
    BY <1>1, <1>2
  <2> QED BY <2>1
<1>4. ASSUME NEW k \in 0 .. N - 1, k \in T PROVE k + 1 \in T
  <2>1. k + 1 \in 1 .. N /\ (k + 1) - 1 = k /\ k + 1 \in 0 .. N
    BY <1>2
  <2>2. h[k] = SubSeq(ms, 1, k)
    BY <1>4
  <2>3. h[k + 1] = Append(SubSeq(ms, 1, k), ms[k + 1])
    BY <1>1, <1>2, <2>1, <2>2
  <2>4. Append(SubSeq(ms, 1, k), ms[k + 1]) = SubSeq(ms, 1, k + 1)
    BY <2>1
  <2> QED BY <2>1, <2>3, <2>4
<1> HIDE DEF N, T
<1>5. 0 .. N \subseteq T
  BY <1>2, <1>3, <1>4, UpTo
<1>6. N \in 0 .. N
  BY <1>2
<1> QED BY <1>1, <1>2, <1>5, <1>6 DEF T

\* sanitize_messages_for_provider, in one pass over what turns and compactions can
\* leave, gives a conversation whose calls and results are whole, never a longer
\* one, and keeps the newest message unless it is a result without its call.
THEOREM SanitizeSound ==
  ASSUME NEW ms, WellFormed(ms)
  PROVE  /\ Whole(Sanitize(ms)) /\ Len(Sanitize(ms)) <= Len(ms)
         /\ Chars(Sanitize(ms)) <= Chars(ms)
         /\ Newest(ms, Len(ms)) => Sanitize(ms) # <<>> /\ Last(Sanitize(ms)) = Last(ms)
<1> DEFINE N == Len(ms)
<1>1. ms \in Seq(Message) /\ N \in Nat
  BY DEF WellFormed
<1>2. PICK h \in [0 .. N -> PassState] :
        /\ h[0] = [out |-> <<>>, expected |-> {}, pending |-> 0] /\ SanitizePass(ms) = h[N]
        /\ \A k \in 1 .. N : h[k] = SanitizeMessage(h[k - 1], ms[k])
  BY <1>1, PassRuns
<1>3. PICK f \in [0 .. N -> Nat] :
        /\ f[0] = 0 /\ Chars(ms) = f[N] /\ \A k \in 1 .. N : f[k] = f[k - 1] + Size(ms[k])
  BY <1>1, CharsRuns
<1> DEFINE T == {k \in 0 .. N : Sound(ms, f, k, h[k])}
<1>4. 0 \in T
  <2> DEFINE st == h[0]
  <2>1. 0 \in 0 .. N
    BY <1>1
  <2>2. st \in PassState /\ st.out = <<>> /\ st.expected = {} /\ st.pending = 0
    <3>1. st = [out |-> <<>>, expected |-> {}, pending |-> 0]
      BY <1>2
    <3>2. st \in PassState
      BY <1>2, <2>1
    <3> HIDE DEF st
    <3> QED BY <3>1, <3>2
  <2> HIDE DEF st
  <2>3. Whole(<<>>)
    BY DEF Whole
  <2>4. Idle(ms, 0, st) /\ ~Newest(ms, 0)
    BY <2>2, <2>3 DEF Idle, Newest
  <2>5. Len(st.out) <= 0 /\ Chars(st.out) <= f[0]
    BY <1>3, <2>2, CharsEmpty
  <2>6. Sound(ms, f, 0, st)
    BY <2>2, <2>4, <2>5 DEF Sound, Underway
  <2> QED BY <2>1, <2>6 DEF st
<1>5. ASSUME NEW k \in 0 .. N - 1, k \in T PROVE k + 1 \in T
  <2>1. k + 1 \in 1 .. N /\ (k + 1) - 1 = k /\ k + 1 \in 0 .. N
    BY <1>1
  <2>2. Sound(ms, f, k, h[k])
    BY <1>5
  <2>3. f[k + 1] = f[k] + Size(ms[k + 1]) /\ h[k + 1] = SanitizeMessage(h[k], ms[k + 1])
    BY <1>2, <1>3, <2>1
  <2>4. Sound(ms, f, k + 1, SanitizeMessage(h[k], ms[k + 1]))
    BY <2>2, <2>3, SoundStep
  <2> QED BY <2>1, <2>3, <2>4
<1> HIDE DEF T
<1>6. 0 .. N \subseteq T
  <2> HIDE DEF N
  <2> QED BY <1>1, <1>4, <1>5, UpTo
<1> DEFINE st == SanitizePass(ms)
<1>7. Sound(ms, f, N, st)
  <2>1. N \in 0 .. N
    BY <1>1
  <2> QED BY <1>2, <1>6, <2>1 DEF T
<1> HIDE DEF st
<1>8. st.pending = 0 /\ Whole(st.out)
  <2>1. ASSUME NEW c, NEW r, Batch(ms, N, st, c, r) PROVE FALSE
    <3>1. c \in Seq(Ids) /\ r \in 0 .. Len(c) - 1 /\ N + (Len(c) - r) <= Len(ms)
      BY <2>1 DEF Batch
    <3>2. Len(c) \in Nat
      BY <3>1
    <3> QED BY <1>1, <3>1, <3>2
  <2>2. Idle(ms, N, st)
    BY <1>7, <2>1 DEF Sound, Underway
  <2> QED BY <2>2 DEF Idle
<1>9. NonEmpty(st.out) = st.out
  <2>1. st.out \in Seq(Message) /\ \A k \in DOMAIN st.out : Kind(st.out, k)
    BY <1>8 DEF Whole, Done
  <2>2. \A k \in DOMAIN st.out : st.out[k].blocks # <<>>
    BY <2>1, KindFacts
  <2> QED BY <2>1, <2>2, NonEmptyAll
<1>10. Sanitize(ms) = st.out
  BY <1>8, <1>9 DEF Sanitize, st
<1>11. Last(ms) = ms[N]
  BY DEF Last
<1> QED BY <1>3, <1>7, <1>8, <1>10, <1>11 DEF Sound

-----------------------------------------------------------------------------
(* A request *)

\* The end of what the model gets is new: a question, or the result of the call
\* right before it
EndsNew(ms) ==
  /\ ms # <<>>
  /\ \/ Plain(ms[Len(ms)])
     \/ /\ Len(ms) >= 2
        /\ \E i \in Ids, n \in Sizes :
             ms[Len(ms) - 1] = Called(<<Use(i, n)>>) /\ ms[Len(ms)] = Returned(i)

LEMMA FromFirst ==
  ASSUME NEW s \in Seq(Message)
  PROVE  From(s, 1) = s
BY DEF From

LEMMA FromLast ==
  ASSUME NEW s \in Seq(Message), s # <<>>
  PROVE  Len(s) \in DOMAIN s /\ From(s, Len(s)) = <<s[Len(s)]>>
<1>1. /\ Len(s) \in Nat /\ Len(s) >= 1 /\ Len(s) \in DOMAIN s /\ Len(s) \in 1 .. Len(s) + 1
      /\ Len(s) - Len(s) + 1 = 1 /\ Len(s) - 1 + 1 = Len(s)
  OBVIOUS
<1>2. /\ From(s, Len(s)) \in Seq(Message) /\ Len(From(s, Len(s))) = 1
      /\ \A k \in 1 .. 1 : From(s, Len(s))[k] = s[Len(s) - 1 + k]
  BY <1>1, FromFacts
<1> DEFINE t == From(s, Len(s))
<1>3. t \in Seq(Message) /\ Len(t) = 1 /\ t[1] = s[Len(s)]
  BY <1>1, <1>2
<1> HIDE DEF t
<1>4. t = <<s[Len(s)]>>
  BY <1>3
<1> QED BY <1>1, <1>4 DEF t

LEMMA AdmitFits ==
  ASSUME NEW s \in Seq(Message), NEW i \in DOMAIN s, Fits(From(s, i))
  PROVE  \E j \in 1 .. i : Admit(s) = From(s, j)
<1>1. PICK j \in DOMAIN s : Admit(s) = From(s, j) /\ \A k \in DOMAIN s : Fits(From(s, k)) => j <= k
  BY AdmitLongest
<1>2. j \in 1 .. i
  BY <1>1
<1> QED BY <1>1, <1>2

\* with the notice before it, a conversation that fits comes through whole, with
\* the notice or without it
LEMMA NoticeFacts ==
  ASSUME NEW s, Whole(s)
  PROVE  /\ Summary \o s \in Seq(Message) /\ DOMAIN (Summary \o s) = 1 .. 1 + Len(s)
         /\ Whole(Summary) /\ Whole(Summary \o s)
         /\ From(Summary \o s, 1) = Summary \o s
         /\ s # <<>> => From(Summary \o s, 2) = s /\ Last(Summary \o s) = Last(s)
<1> DEFINE x == Summary \o s
<1>1. s \in Seq(Message) /\ Len(s) \in Nat
  BY DEF Whole
<1>2. Summary \in Seq(Message) /\ Len(Summary) = 1
  BY SummaryFacts
<1>3. Whole(Summary)
  <2>1. Whole(<<>>) /\ Summary = Append(<<>>, Said("user", Notice))
    BY DEF Whole, Summary
  <2> QED BY <2>1, SummaryFacts, PlainWhole
<1>4. Whole(x)
  BY <1>3, WholeConcat
<1>5. /\ x \in Seq(Message) /\ Len(x) = 1 + Len(s) /\ DOMAIN x = 1 .. 1 + Len(s)
      /\ \A k \in 1 .. Len(s) : x[1 + k] = s[k]
  <2>1. x \in Seq(Message) /\ Len(x) = Len(Summary) + Len(s) /\ Embeds(s, 1, x, Len(Summary))
    BY <1>1, <1>2, ConcatEmbeds
  <2> HIDE DEF x
  <2>2. Len(x) = 1 + Len(s) /\ DOMAIN x = 1 .. 1 + Len(s)
    BY <1>1, <1>2, <2>1
  <2>3. ASSUME NEW k \in 1 .. Len(s) PROVE x[1 + k] = s[k]
    <3>1. x[k + Len(Summary)] = s[k]
      BY <2>1 DEF Embeds
    <3>2. k + Len(Summary) = 1 + k
      BY <1>2
    <3> QED BY <3>1, <3>2
  <2> QED BY <2>1, <2>2, <2>3
<1> HIDE DEF x
<1>6. From(x, 1) = x
  BY <1>5, FromFirst
<1>7. ASSUME s # <<>> PROVE From(x, 2) = s /\ Last(x) = Last(s)
  <2>1. Len(s) >= 1
    BY <1>1, <1>7
  <2>2. 2 \in 1 .. Len(x) + 1 /\ Len(x) - 2 + 1 = Len(s)
    BY <1>1, <1>5, <2>1
  <2>3. /\ From(x, 2) \in Seq(Message) /\ Len(From(x, 2)) = Len(s)
        /\ \A k \in 1 .. Len(s) : From(x, 2)[k] = x[2 - 1 + k]
    <3>1. /\ From(x, 2) \in Seq(Message) /\ Len(From(x, 2)) = Len(x) - 2 + 1
          /\ \A k \in 1 .. Len(x) - 2 + 1 : From(x, 2)[k] = x[2 - 1 + k]
      BY <1>5, <2>2, FromFacts
    <3> QED BY <2>2, <3>1
  <2>4. \A k \in 1 .. Len(s) : From(x, 2)[k] = s[k]
    BY <1>5, <2>3
  <2>5. From(x, 2) = s
    BY <1>1, <2>3, <2>4
  <2>6. x[1 + Len(s)] = s[Len(s)]
    BY <1>1, <1>5, <2>1
  <2> QED BY <1>5, <2>5, <2>6 DEF Last
<1> QED BY <1>3, <1>4, <1>5, <1>6, <1>7 DEF x

\* An end that is new and does not fit a request by itself; a result with its
\* call always fits
LEMMA PairAdmitted ==
  ASSUME NEW ms \in Seq(Message), Len(ms) >= 2, NEW i \in Ids, NEW n \in Sizes,
         ms[Len(ms) - 1] = Called(<<Use(i, n)>>), ms[Len(ms)] = Returned(i)
  PROVE  /\ Len(ms) - 1 \in DOMAIN ms /\ Fits(From(ms, Len(ms) - 1))
         /\ Asking(ms[Len(ms) - 1])
<1> DEFINE a == Called(<<Use(i, n)>>)
           b == Returned(i)
           t == From(ms, Len(ms) - 1)
<1>1. n \in Nat /\ Handle \in Nat
  BY SizeAssumption
<1>2. Asking(a) /\ Size(a) = n /\ a \in Message
  BY <1>1, CallFacts, AskingFacts
<1>3. b \in Message /\ Size(b) = Handle
  BY AnswerFacts
<1>4. /\ Len(ms) \in Nat /\ Len(ms) - 1 \in 1 .. Len(ms) + 1 /\ Len(ms) - 1 \in DOMAIN ms
      /\ Len(ms) - (Len(ms) - 1) + 1 = 2 /\ (Len(ms) - 1) - 1 + 1 = Len(ms) - 1
      /\ (Len(ms) - 1) - 1 + 2 = Len(ms)
  OBVIOUS
<1>5. /\ t \in Seq(Message) /\ Len(t) = 2
      /\ \A k \in 1 .. 2 : t[k] = ms[(Len(ms) - 1) - 1 + k]
  BY <1>4, FromFacts
<1> HIDE DEF a, b, t
<1>6. t[1] = a /\ t[2] = b
  BY <1>4, <1>5 DEF a, b
<1>7. t = <<a, b>>
  BY <1>2, <1>3, <1>5, <1>6
<1>8. Chars(t) = n + Handle
  BY <1>2, <1>3, <1>7, CharsTwo
<1>9. Tokens(t) = (n + Handle) \div 4 + 1 + 2
  BY <1>5, <1>8 DEF Tokens
<1>10. n + Handle <= MaxChars /\ MaxMessages >= 2 /\ (n + Handle) \div 4 + 3 <= MaxTokens
  BY PairFits
<1>11. (n + Handle) \div 4 + 1 + 2 = (n + Handle) \div 4 + 3
  BY <1>1
<1>12. Fits(t)
  <2>1. Len(t) <= MaxMessages
    BY <1>5, <1>10, SizeAssumption
  <2>2. Tokens(t) <= MaxTokens
    BY <1>9, <1>10, <1>11
  <2>3. Chars(t) <= MaxChars
    BY <1>8, <1>10
  <2> QED BY <2>1, <2>2, <2>3 DEF Fits
<1> QED BY <1>2, <1>4, <1>12 DEF a, t

LEMMA NothingAdmitted ==
  ASSUME NEW ms \in Seq(Message), EndsNew(ms), \A i \in DOMAIN ms : ~Fits(From(ms, i)), NEW r
  PROVE  EndsWithNewest(r, Last(ms))
<1> DEFINE m == ms[Len(ms)]
<1>1. Len(ms) \in DOMAIN ms /\ From(ms, Len(ms)) = <<m>>
  BY FromLast DEF EndsNew
<1>2. ~Fits(<<m>>)
  BY <1>1
<1>3. m \in Message
  BY <1>1
<1>4. Len(<<m>>) = 1 /\ Chars(<<m>>) \in Nat
  BY <1>3, CharsOne, SizeType
<1>5. Len(<<m>>) <= MaxMessages /\ MaxChars \in Nat /\ MaxTokens \in Nat
  BY <1>4, SizeAssumption
<1>6. Tokens(<<m>>) \in Nat
  BY <1>4 DEF Tokens
<1>7. Chars(<<m>>) > MaxChars \/ Tokens(<<m>>) > MaxTokens
  BY <1>2, <1>4, <1>5, <1>6 DEF Fits
<1> QED BY <1>7 DEF EndsWithNewest, Last

\* trimming again changes nothing but the notice
LEMMA AdmitClean ==
  ASSUME NEW s, Whole(s), Fits(s) \/ s = <<>>, NEW x, x = s \/ x = Summary \o s
  PROVE  Whole(Admit(x)) /\ (s # <<>> => Last(Admit(x)) = Last(s))
<1>1. /\ s \in Seq(Message) /\ Len(s) \in Nat /\ From(s, 1) = s
  BY FromFirst DEF Whole
<1>2. /\ Summary \o s \in Seq(Message) /\ DOMAIN (Summary \o s) = 1 .. 1 + Len(s)
      /\ Whole(Summary) /\ Whole(Summary \o s) /\ From(Summary \o s, 1) = Summary \o s
      /\ s # <<>> => From(Summary \o s, 2) = s /\ Last(Summary \o s) = Last(s)
  BY NoticeFacts
<1>3. CASE s = <<>>
  <2>1. x \in Seq(Message) /\ \A i \in DOMAIN x : From(x, i) = Summary
    <3>1. CASE x = s
      BY <1>3, <3>1
    <3>2. CASE x = Summary \o s
      <4>1. Summary \o s = Summary /\ Summary \in Seq(Message) /\ DOMAIN Summary = 1 .. 1
        BY <1>3, SummaryFacts
      <4> QED BY <3>2, <4>1, SummaryFacts
    <3> QED BY <3>1, <3>2
  <2>2. Admit(x) = Summary
    BY <2>1, AdmitLongest
  <2> QED BY <1>2, <1>3, <2>2
<1>4. CASE s # <<>> /\ x = s
  <2>1. 1 \in DOMAIN s /\ Fits(From(s, 1))
    BY <1>1, <1>4
  <2>2. \E j \in 1 .. 1 : Admit(s) = From(s, j)
    BY <1>1, <2>1, AdmitFits
  <2>3. Admit(s) = s
    BY <1>1, <2>2
  <2> QED BY <1>4, <2>3
<1>5. CASE s # <<>> /\ x = Summary \o s
  <2>1. 2 \in DOMAIN x /\ Fits(From(x, 2)) /\ x \in Seq(Message)
    <3>1. Len(s) >= 1
      BY <1>1, <1>5
    <3> QED BY <1>1, <1>2, <1>5, <3>1
  <2>2. \E j \in 1 .. 2 : Admit(x) = From(x, j)
    BY <2>1, AdmitFits
  <2>3. Admit(x) = x \/ Admit(x) = s
    <3>1. \A j \in 1 .. 2 : j = 1 \/ j = 2
      OBVIOUS
    <3> QED BY <1>2, <1>5, <2>2, <3>1
  <2> QED BY <1>2, <1>5, <2>3
<1> QED BY <1>3, <1>4, <1>5

\* What a request is, whatever the conversation it is built from
LEMMA BuildRequestSound ==
  ASSUME NEW ms, WellFormed(ms)
  PROVE  /\ Whole(BuildRequest(ms))
         /\ EndsNew(ms) => EndsWithNewest(BuildRequest(ms), Last(ms))
<1> DEFINE first == Admit(ms)
           clean == Sanitize(first)
           changed == Len(first) < Len(ms) \/ Chars(first) < Chars(ms) \/ clean # first
           x == IF changed THEN Summary \o clean ELSE clean
<1>1. BuildRequest(ms) = Admit(x)
  BY DEF BuildRequest, Summary
<1>2. x = clean \/ x = Summary \o clean
  OBVIOUS
<1>3. ms \in Seq(Message)
  BY DEF WellFormed
<1> HIDE DEF x, changed, clean, first
<1>4. CASE first = Summary /\ \A i \in DOMAIN ms : ~Fits(From(ms, i))
  <2>1. Whole(Summary) /\ Summary \in Seq(Message) /\ Len(Summary) = 1
    <3>1. Whole(<<>>)
      BY DEF Whole
    <3> QED BY <3>1, NoticeFacts, SummaryFacts
  <2>2. WellFormed(first)
    BY <1>4, <2>1, WholeWellFormed
  <2>3. /\ Whole(clean) /\ Len(clean) <= Len(first)
        /\ Newest(first, Len(first)) => clean # <<>> /\ Last(clean) = Last(first)
    BY <2>2, SanitizeSound DEF clean
  <2>4. Newest(first, Len(first))
    <3>1. Len(first) = 1 /\ Plain(first[1])
      BY <1>4, <2>1, SummaryFacts
    <3>2. Plain(first[Len(first)]) /\ Len(first) > 0
      BY <3>1
    <3> QED BY <3>2 DEF Newest
  <2>5. clean = Summary
    <3>1. clean \in Seq(Message) /\ clean # <<>> /\ Len(clean) <= 1 /\ Last(clean) = Last(Summary)
      BY <1>4, <2>1, <2>3, <2>4 DEF Whole
    <3>2. Len(clean) = 1
      <4>1. Len(clean) \in DOMAIN clean /\ clean \in Seq(Message) /\ Len(clean) <= 1
        BY <3>1, FromLast
      <4>2. Len(clean) \in Nat /\ Len(clean) >= 1 /\ Len(clean) <= 1
        BY <4>1
      <4> DEFINE l == Len(clean)
      <4>3. l \in Nat /\ l >= 1 /\ l <= 1
        BY <4>2
      <4> HIDE DEF l
      <4>4. l = 1
        BY <4>3
      <4> QED BY <4>4 DEF l
    <3>3. clean[1] = Summary[1]
      BY <2>1, <3>1, <3>2 DEF Last
    <3> QED BY <2>1, <3>1, <3>2, <3>3
  <2>6. Whole(Admit(x))
    <3>1. \A j \in DOMAIN x : Whole(From(x, j))
      <4>1. CASE x = Summary
        <5>1. \A j \in DOMAIN Summary : j = 1
          BY <2>1
        <5> QED BY <2>1, <4>1, <5>1, SummaryFacts
      <4>2. CASE x = Summary \o Summary
        <5>1. /\ DOMAIN x = 1 .. 1 + 1 /\ Whole(x) /\ From(x, 1) = x
              /\ From(x, 2) = Summary
          <6>1. Summary # <<>>
            BY <2>1
          <6> QED BY <2>1, <4>2, <6>1, NoticeFacts
        <5>2. \A j \in DOMAIN x : j = 1 \/ j = 2
          BY <5>1
        <5> QED BY <2>1, <5>1, <5>2
      <4> QED BY <1>2, <2>5, <4>1, <4>2
    <3>2. x \in Seq(Message)
      <4>1. Summary \o Summary \in Seq(Message)
        BY <2>1
      <4> QED BY <1>2, <2>1, <2>5, <4>1
    <3>3. Admit(x) = Summary \/ \E j \in DOMAIN x : Admit(x) = From(x, j)
      BY <3>2, AdmitLongest
    <3> QED BY <2>1, <3>1, <3>3
  <2>7. EndsNew(ms) => EndsWithNewest(BuildRequest(ms), Last(ms))
    BY <1>3, <1>4, NothingAdmitted
  <2> QED BY <1>1, <2>6, <2>7
<1>5. CASE \E i \in DOMAIN ms :
             /\ first = From(ms, i) /\ Fits(From(ms, i))
             /\ \A j \in DOMAIN ms : Fits(From(ms, j)) => i <= j
  <2>1. PICK i \in DOMAIN ms :
          /\ first = From(ms, i) /\ Fits(From(ms, i))
          /\ \A j \in DOMAIN ms : Fits(From(ms, j)) => i <= j
    BY <1>5
  <2>2. /\ DOMAIN ms = 1 .. Len(ms) /\ Len(ms) \in Nat /\ i \in Nat /\ 1 <= i /\ i <= Len(ms)
        /\ i \in 1 .. Len(ms) + 1
    BY <1>3
  <2>3. /\ first \in Seq(Message) /\ Len(first) = Len(ms) - i + 1
        /\ \A k \in 1 .. Len(ms) - i + 1 : first[k] = ms[i - 1 + k]
    BY <1>3, <2>1, <2>2, FromFacts
  <2>4. WellFormed(first)
    BY <2>1, <2>2, WellFormedSuffix
  <2>5. /\ Whole(clean) /\ Len(clean) <= Len(first) /\ Chars(clean) <= Chars(first)
        /\ Newest(first, Len(first)) => clean # <<>> /\ Last(clean) = Last(first)
    BY <2>4, SanitizeSound DEF clean
  <2>6. Fits(clean)
    <3>1. clean \in Seq(Message) /\ Len(clean) \in Nat /\ Len(first) \in Nat
      BY <2>3, <2>5 DEF Whole
    <3>2. Chars(clean) \in Nat /\ Chars(first) \in Nat
      <4>1. \A s \in Seq(Message) : 1 \in 1 .. Len(s) + 1
        OBVIOUS
      <4> QED BY <2>3, <3>1, <4>1, CharsSuffix, FromFirst
    <3>3. Tokens(clean) <= Tokens(first) /\ Tokens(clean) \in Nat /\ Tokens(first) \in Nat
      <4>1. Tokens(clean) \in Nat /\ Tokens(first) \in Nat
        BY <3>1, <3>2 DEF Tokens
      <4> QED BY <2>3, <2>5, <3>1, <3>2, <4>1, TokensMono
    <3>4. MaxTokens \in Nat /\ MaxMessages \in Nat /\ MaxChars \in Nat
      BY SizeAssumption
    <3> QED BY <2>1, <2>5, <3>1, <3>2, <3>3, <3>4 DEF Fits
  <2>7. Whole(Admit(x)) /\ (clean # <<>> => Last(Admit(x)) = Last(clean))
    BY <1>2, <2>5, <2>6, AdmitClean
  <2>8. Len(first) \in 1 .. Len(ms) - i + 1 /\ first[Len(first)] = ms[Len(ms)] /\ Len(first) > 0
    <3> DEFINE k == Len(ms) - i + 1
    <3>1. k \in 1 .. Len(ms) - i + 1 /\ i - 1 + k = Len(ms) /\ k > 0
      BY <2>2
    <3> HIDE DEF k
    <3>2. first[k] = ms[Len(ms)] /\ Len(first) = k
      BY <2>3, <3>1 DEF k
    <3> QED BY <3>1, <3>2
  <2>9. ASSUME EndsNew(ms) PROVE Newest(first, Len(first))
    <3>1. CASE Plain(ms[Len(ms)])
      <4>1. Plain(first[Len(first)]) /\ Len(first) > 0
        BY <2>8, <3>1
      <4> QED BY <4>1 DEF Newest
    <3>2. CASE /\ Len(ms) >= 2
               /\ \E j \in Ids, n \in Sizes :
                    ms[Len(ms) - 1] = Called(<<Use(j, n)>>) /\ ms[Len(ms)] = Returned(j)
      <4>1. PICK j \in Ids, n \in Sizes :
              ms[Len(ms) - 1] = Called(<<Use(j, n)>>) /\ ms[Len(ms)] = Returned(j)
        BY <3>2
      <4>2. /\ Len(ms) - 1 \in DOMAIN ms /\ Fits(From(ms, Len(ms) - 1))
            /\ Asking(ms[Len(ms) - 1])
        BY <1>3, <3>2, <4>1, PairAdmitted
      <4>3. i <= Len(ms) - 1
        BY <2>1, <4>2
      <4> DEFINE k == Len(ms) - i
      <4>4. k \in 1 .. Len(ms) - i + 1 /\ i - 1 + k = Len(ms) - 1 /\ k >= 1 /\ k \in Nat
            /\ Len(ms) - i + 1 = k + 1
        BY <2>2, <4>3
      <4> HIDE DEF k
      <4>5. first[k] = ms[Len(ms) - 1] /\ Len(first) = k + 1
        BY <2>3, <4>4
      <4>6. Len(first) - 1 = k /\ Len(first) > 1
        BY <4>4, <4>5
      <4> QED BY <2>8, <4>2, <4>5, <4>6 DEF Newest
    <3> QED BY <2>9, <3>1, <3>2 DEF EndsNew
  <2>10. ASSUME EndsNew(ms) PROVE EndsWithNewest(BuildRequest(ms), Last(ms))
    <3>1. clean # <<>> /\ Last(clean) = Last(first)
      BY <2>5, <2>9, <2>10
    <3>2. Last(first) = Last(ms)
      BY <2>8 DEF Last
    <3> QED BY <1>1, <2>7, <3>1, <3>2 DEF EndsWithNewest
  <2> QED BY <1>1, <2>7, <2>10
<1>6. \/ first = Summary /\ \A i \in DOMAIN ms : ~Fits(From(ms, i))
      \/ \E i \in DOMAIN ms :
           /\ first = From(ms, i) /\ Fits(From(ms, i))
           /\ \A j \in DOMAIN ms : Fits(From(ms, j)) => i <= j
  BY <1>3, AdmitLongest DEF first
<1> QED BY <1>4, <1>5, <1>6

-----------------------------------------------------------------------------
(* What the turns and the compactions put together is well-formed *)

LEMMA PlainWellFormed ==
  ASSUME NEW m, Plain(m)
  PROVE  WellFormed(<<m>>) /\ <<m>> \in Seq(Message)
<1>1. Whole(<<>>) /\ <<m>> = Append(<<>>, m)
  BY DEF Whole
<1>2. Whole(<<m>>)
  BY <1>1, PlainWhole
<1> QED BY <1>2, WholeWellFormed DEF Whole

\* The second trimming leaves nothing too large
LEMMA BuildRequestFits ==
  ASSUME NEW ms, WellFormed(ms)
  PROVE  Fits(BuildRequest(ms)) \/ BuildRequest(ms) = Summary
<1> DEFINE first == Admit(ms)
           clean == Sanitize(first)
           changed == Len(first) < Len(ms) \/ Chars(first) < Chars(ms) \/ clean # first
           x == IF changed THEN Summary \o clean ELSE clean
<1>1. BuildRequest(ms) = Admit(x)
  BY DEF BuildRequest, Summary
<1>2. x = clean \/ x = Summary \o clean
  OBVIOUS
<1>3. ms \in Seq(Message)
  BY DEF WellFormed
<1> HIDE DEF x, changed
<1>4. WellFormed(first)
  <2>1. first = Summary \/ \E i \in DOMAIN ms : first = From(ms, i)
    BY <1>3, AdmitLongest
  <2>2. ASSUME NEW i \in DOMAIN ms PROVE WellFormed(From(ms, i))
    BY <1>3, WellFormedSuffix
  <2>3. WellFormed(Summary)
    BY SummaryFacts, PlainWellFormed DEF Summary
  <2> HIDE DEF first
  <2> QED BY <2>1, <2>2, <2>3
<1> HIDE DEF first
<1>5. clean \in Seq(Message) /\ Summary \in Seq(Message)
  BY <1>4, SanitizeSound, SummaryFacts DEF Whole
<1> HIDE DEF clean
<1>6. Summary \o clean \in Seq(Message)
  BY <1>5
<1>7. x \in Seq(Message)
  BY <1>2, <1>5, <1>6
<1> QED BY <1>1, <1>7, AdmitLongest

LEMMA BatchWellFormed ==
  ASSUME NEW m, Asking(m), NEW c \in Seq(Ids), c # <<>>,
         \A k, l \in 1 .. Len(c) : c[k] = c[l] => k = l,
         IdsOf("use", m) = {c[k] : k \in 1 .. Len(c)}
  PROVE  WellFormed(<<m>> \o Answers(c))
<1> DEFINE s == <<m>>
           t == Answers(c)
           x == s \o t
<1>1. m \in Message
  BY AskingFacts
<1>2. Len(c) \in Nat /\ DOMAIN c = 1 .. Len(c) /\ \A k \in 1 .. Len(c) : c[k] \in Ids
  OBVIOUS
<1>3. s \in Seq(Message) /\ Len(s) = 1 /\ s[1] = m /\ DOMAIN s = 1 .. 1
  BY <1>1
<1>4. /\ t \in Seq(Message) /\ Len(t) = Len(c)
      /\ \A k \in 1 .. Len(c) : t[k] = Returned(c[k])
  <2>1. \A k \in 1 .. Len(c) : Returned(c[k]) \in Message
    BY <1>2, AnswerFacts
  <2> QED BY <1>2, <2>1 DEF Answers
<1> HIDE DEF s, t
<1>5. /\ x \in Seq(Message) /\ Len(x) = Len(s) + Len(t)
      /\ Embeds(s, 1, x, 0) /\ Embeds(t, 1, x, Len(s))
  BY <1>3, <1>4, ConcatEmbeds
<1> HIDE DEF x
<1>6. Len(x) = 1 + Len(c)
  BY <1>2, <1>3, <1>4, <1>5
<1>7. x[1] = m
  <2>1. 1 \in 1 .. Len(s) /\ 1 + 0 = 1
    BY <1>3
  <2>2. x[1 + 0] = s[1]
    BY <1>5, <2>1 DEF Embeds
  <2> QED BY <1>3, <2>1, <2>2
<1>8. ASSUME NEW k \in 1 .. Len(c) PROVE x[1 + k] = Returned(c[k])
  <2>1. k \in 1 .. Len(t) /\ k + Len(s) = 1 + k
    BY <1>2, <1>3, <1>4
  <2>2. x[k + Len(s)] = t[k]
    BY <1>5, <2>1 DEF Embeds
  <2> QED BY <1>4, <2>1, <2>2
<1>9. Calls(x, 1, c)
  BY <1>2, <1>6, <1>7, <1>8 DEF Calls
<1>10. ASSUME NEW i \in 1 .. 1 + Len(c) PROVE Kind(x, i)
  <2>1. CASE i = 1
    BY <1>7, <1>9, <2>1 DEF Kind
  <2>2. CASE i # 1
    <3> DEFINE k == i - 1
    <3>1. k \in 1 .. Len(c) /\ 1 + k = i
      BY <1>2, <2>2
    <3> HIDE DEF k
    <3>2. x[i] = Returned(c[k]) /\ c[k] \in Ids
      <4>1. x[1 + k] = Returned(c[k])
        BY <1>8, <3>1
      <4> QED BY <1>2, <3>1, <4>1
    <3> QED BY <3>2 DEF Kind, IsAnswer
  <2> QED BY <2>1, <2>2
<1>11. DOMAIN x = 1 .. 1 + Len(c)
  BY <1>5, <1>6
<1> QED BY <1>5, <1>10, <1>11 DEF WellFormed, x, s, t

LEMMA PairWellFormed ==
  ASSUME NEW i \in Ids, NEW n \in Nat
  PROVE  /\ WellFormed(Pair(i, n)) /\ Pair(i, n) \in Seq(Message) /\ Len(Pair(i, n)) = 2
         /\ Pair(i, n)[1] = Called(<<Use(i, n)>>) /\ Pair(i, n)[2] = Returned(i)
<1> DEFINE m == Called(<<Use(i, n)>>)
           c == <<i>>
           t == Answers(c)
<1>1. Asking(m) /\ IdsOf("use", m) = {i} /\ m \in Message /\ Returned(i) \in Message
  BY CallFacts, AskingFacts, AnswerFacts
<1>2. /\ c \in Seq(Ids) /\ c # <<>> /\ Len(c) = 1 /\ DOMAIN c = 1 .. 1 /\ c[1] = i
      /\ \A k, l \in 1 .. Len(c) : c[k] = c[l] => k = l
      /\ {c[k] : k \in 1 .. Len(c)} = {i}
  OBVIOUS
<1> HIDE DEF m, c
<1>3. WellFormed(<<m>> \o t)
  BY <1>1, <1>2, BatchWellFormed
<1>4. t = <<Returned(i)>>
  BY <1>2 DEF Answers
<1>5. Pair(i, n) = <<m>> \o t
  BY <1>4 DEF Pair, m
<1>6. /\ Pair(i, n) \in Seq(Message) /\ Len(Pair(i, n)) = 2
      /\ Pair(i, n)[1] = m /\ Pair(i, n)[2] = Returned(i)
  BY <1>1 DEF Pair, m
<1> QED BY <1>3, <1>5, <1>6 DEF m

\* a response of the non-streaming turn, its text before its calls
LEMMA AskedFacts ==
  ASSUME NEW n \in Nat, NEW c \in Seq(Ids), c # <<>>
  PROVE  Asking(Asked(n, c)) /\ IdsOf("use", Asked(n, c)) = {c[k] : k \in 1 .. Len(c)}
<1> DEFINE s == <<Text(n)>>
           t == [k \in DOMAIN c |-> Use(c[k], n)]
           x == s \o t
           m == Called(x)
<1>1. Len(c) \in Nat /\ DOMAIN c = 1 .. Len(c) /\ \A k \in 1 .. Len(c) : c[k] \in Ids
  OBVIOUS
<1>2. Len(c) >= 1
  OBVIOUS
<1>3. s \in Seq(Block) /\ Len(s) = 1 /\ s[1] = Text(n)
  BY BlockTypes
<1>4. t \in Seq(Block) /\ Len(t) = Len(c) /\ \A k \in 1 .. Len(c) : t[k] = Use(c[k], n)
  <2>1. \A k \in 1 .. Len(c) : Use(c[k], n) \in Block
    BY <1>1, BlockTypes
  <2> QED BY <1>1, <2>1
<1> HIDE DEF s, t
<1>5. /\ x \in Seq(Block) /\ Len(x) = 1 + Len(c) /\ x[1] = s[1]
      /\ \A k \in 1 .. Len(t) : x[Len(s) + k] = t[k]
  <2>1. /\ x \in Seq(Block) /\ Len(x) = Len(s) + Len(t)
        /\ Embeds(s, 1, x, 0) /\ Embeds(t, 1, x, Len(s))
    BY <1>3, <1>4, ConcatEmbeds
  <2> HIDE DEF x
  <2>2. x[1] = s[1]
    <3>1. 1 \in 1 .. Len(s) /\ 1 + 0 = 1
      BY <1>3
    <3>2. x[1 + 0] = s[1]
      BY <2>1, <3>1 DEF Embeds
    <3> QED BY <3>1, <3>2
  <2>3. ASSUME NEW k \in 1 .. Len(t) PROVE x[Len(s) + k] = t[k]
    <3>1. x[k + Len(s)] = t[k] /\ k + Len(s) = Len(s) + k
      BY <1>3, <2>1 DEF Embeds
    <3> QED BY <3>1
  <2> QED BY <1>1, <1>3, <1>4, <2>1, <2>2, <2>3
<1> HIDE DEF x
<1>6. DOMAIN x = 1 .. 1 + Len(c) /\ \A k \in 1 .. Len(c) : x[1 + k] = Use(c[k], n)
  BY <1>1, <1>3, <1>4, <1>5
<1>7. \A j \in 1 .. 1 + Len(c) : j = 1 \/ (j - 1 \in 1 .. Len(c) /\ 1 + (j - 1) = j)
  BY <1>1
<1>8. \A j \in 1 .. 1 + Len(c) : j = 1 \/ (j - 1 \in 1 .. Len(c) /\ x[j] = Use(c[j - 1], n))
  BY <1>6, <1>7
<1>9. x[1].kind = "text"
  BY <1>3, <1>5 DEF Text
<1>10. m \in Message /\ m.role = "assistant" /\ m.blocks = x
  BY <1>5 DEF Called, Message, Role
<1> HIDE DEF m
<1>11. IdsOf("use", m) = {c[k] : k \in 1 .. Len(c)}
  <2>1. ASSUME NEW b \in Range(x), b.kind = "use" PROVE b.id \in {c[k] : k \in 1 .. Len(c)}
    <3>1. PICK j \in 1 .. 1 + Len(c) : b = x[j]
      BY <1>6 DEF Range
    <3>2. j - 1 \in 1 .. Len(c) /\ b = Use(c[j - 1], n)
      BY <1>8, <1>9, <2>1, <3>1
    <3> QED BY <3>2 DEF Use
  <2>2. ASSUME NEW k \in 1 .. Len(c)
        PROVE  Use(c[k], n) \in Range(x) /\ Use(c[k], n).kind = "use" /\ Use(c[k], n).id = c[k]
    <3>1. 1 + k \in 1 .. 1 + Len(c)
      BY <1>1
    <3>2. x[1 + k] \in Range(x)
      BY <1>6, <3>1 DEF Range
    <3> QED BY <1>6, <3>2 DEF Use
  <2>3. IdsOf("use", m) = {b.id : b \in {b \in Range(x) : b.kind = "use"}}
    BY <1>10 DEF IdsOf
  <2>4. IdsOf("use", m) \subseteq {c[k] : k \in 1 .. Len(c)}
    BY <2>1, <2>3
  <2>5. \A k \in 1 .. Len(c) : c[k] \in IdsOf("use", m)
    BY <2>2, <2>3
  <2> QED BY <2>4, <2>5
<1>12. IdsOf("use", m) # {}
  <2>1. 1 \in 1 .. Len(c)
    BY <1>1, <1>2
  <2> QED BY <1>11, <2>1
<1>13. \A j \in 1 .. Len(m.blocks) : m.blocks[j].kind # "result"
  <2>1. \A j \in 1 .. 1 + Len(c) : x[j].kind # "result"
    <3>1. \A k \in 1 .. Len(c) : Use(c[k], n).kind # "result"
      BY DEF Use
    <3> QED BY <1>8, <1>9, <3>1
  <2> QED BY <1>5, <1>10, <2>1
<1>14. Asking(m)
  BY <1>10, <1>12, <1>13 DEF Asking
<1> QED BY <1>11, <1>14 DEF Asked, m, x, s, t

LEMMA AsUserWellFormed ==
  ASSUME NEW s, WellFormed(s)
  PROVE  WellFormed([i \in DOMAIN s |-> AsUser(s[i])])
<1> DEFINE t == [i \in DOMAIN s |-> AsUser(s[i])]
<1>1. s \in Seq(Message) /\ Len(s) \in Nat /\ DOMAIN s = 1 .. Len(s)
  BY DEF WellFormed
<1>2. ASSUME NEW m, Plain(m) PROVE Plain(AsUser(m))
  <2>1. PICK r \in Role, n \in Nat : m = Said(r, n)
    BY <1>2 DEF Plain
  <2>2. AsUser(m) = Said("user", n) \/ AsUser(m) = m
    BY <2>1 DEF AsUser, Said
  <2>3. "user" \in Role
    BY DEF Role
  <2> QED BY <1>2, <2>2, <2>3 DEF Plain
<1>3. ASSUME NEW m, IsAnswer(m) \/ Asking(m) PROVE AsUser(m) = m
  <2>1. m.role \in {"user", "assistant"}
    BY <1>3, AnswerFacts, AskingFacts DEF IsAnswer
  <2> QED BY <2>1 DEF AsUser
<1>4. ASSUME NEW i \in 1 .. Len(s)
      PROVE  Plain(AsUser(s[i])) \/ (AsUser(s[i]) = s[i] /\ (IsAnswer(s[i]) \/ Asking(s[i])))
  BY <1>1, <1>2, <1>3 DEF WellFormed, Kind
<1>5. t \in Seq(Message) /\ Len(t) = Len(s) /\ \A i \in 1 .. Len(s) : t[i] = AsUser(s[i])
  <2>1. \A i \in 1 .. Len(s) : AsUser(s[i]) \in Message
    BY <1>4, KindMessage
  <2> QED BY <1>1, <2>1
<1> HIDE DEF t
<1>6. ASSUME NEW i \in 1 .. Len(s) PROVE Kind(t, i)
  <2>1. CASE Plain(s[i])
    BY <1>2, <1>5, <2>1 DEF Kind
  <2>2. CASE IsAnswer(s[i])
    BY <1>3, <1>5, <2>2 DEF Kind
  <2>3. CASE Asking(s[i]) /\ \E c \in Seq(Ids) : Calls(s, i, c)
    <3>1. PICK c \in Seq(Ids) : Calls(s, i, c)
      BY <2>3
    <3>2. t[i] = s[i]
      BY <1>3, <1>5, <2>3
    <3>3. ASSUME NEW k \in 1 .. Len(c) PROVE t[i + k] = Returned(c[k])
      <4>1. s[i + k] = Returned(c[k]) /\ c[k] \in Ids /\ i + k \in 1 .. Len(s)
        BY <1>1, <3>1 DEF Calls
      <4>2. IsAnswer(s[i + k])
        BY <4>1 DEF IsAnswer
      <4> QED BY <1>3, <1>5, <4>1, <4>2
    <3>4. Calls(t, i, c)
      BY <1>5, <3>1, <3>2, <3>3 DEF Calls
    <3> QED BY <2>3, <3>2, <3>4 DEF Kind
  <2> QED BY <1>1, <2>1, <2>2, <2>3 DEF WellFormed, Kind
<1> QED BY <1>1, <1>5, <1>6 DEF WellFormed, t

\* a compaction cuts batches apart, as the budgets do, but keeps their ends
LEMMA SavedWellFormed ==
  ASSUME NEW ms, WellFormed(ms), NEW x \in Saved(ms)
  PROVE  WellFormed(x)
<1>1. ms \in Seq(Message) /\ Len(ms) \in Nat /\ Keep \in Nat /\ Keep > 0
  BY SizeAssumption DEF WellFormed
<1>2. x = ms \/ (x = Compacted(ms) /\ Len(ms) > Keep)
  <2> DEFINE compactable == IF ms # <<>> /\ ms[1].role = "system" THEN Len(ms) - 1 ELSE Len(ms)
  <2>1. compactable <= Len(ms) /\ compactable \in Int
    BY <1>1
  <2>2. x = ms \/ (x = Compacted(ms) /\ compactable > Keep)
    <3> HIDE DEF compactable
    <3>1. Saved(ms) = {ms} \cup (IF compactable > Keep THEN {Compacted(ms)} ELSE {})
      BY DEF Saved, compactable
    <3> QED BY <3>1
  <2> HIDE DEF compactable
  <2> QED BY <1>1, <2>1, <2>2
<1>3. CASE x = Compacted(ms) /\ Len(ms) > Keep
  <2>1. Len(ms) - Keep + 1 \in 1 .. Len(ms) + 1
    BY <1>1, <1>3
  <2>2. WellFormed(From(ms, Len(ms) - Keep + 1))
    BY <2>1, WellFormedSuffix
  <2>3. Plain(Said("system", Notice))
    BY SizeAssumption DEF Plain, Role
  <2>4. WellFormed(<<Said("system", Notice)>>)
    BY <2>3, PlainWellFormed
  <2> QED BY <1>3, <2>2, <2>4, WellFormedConcat DEF Compacted, From
<1> QED BY <1>2, <1>3

-----------------------------------------------------------------------------
(* The invariant *)

\* The session, the messages of the turn and its timeline are well-formed, and
\* the last request is whole.  Before a request the messages end with what is
\* new in the timeline; a request that still is the conversation ends with it.
HistoryInv ==
  /\ phase \in {"idle", "round", "model"}
  /\ WellFormed(session) /\ WellFormed(messages) /\ WellFormed(timeline) /\ Whole(request)
  /\ phase = "idle" => request = <<>>
  /\ phase = "round" => EndsNew(messages) /\ Last(messages) = Last(timeline)
  /\ request # <<>> => Len(request) <= Len(messages)
  /\ request # <<>> /\ request = messages => EndsWithNewest(request, Last(timeline))

LEMMA EmptyWhole == Whole(<<>>) /\ WellFormed(<<>>)
<1>1. Whole(<<>>)
  BY DEF Whole
<1> QED BY <1>1, WholeWellFormed

LEMMA AppendNew ==
  ASSUME NEW s, WellFormed(s), NEW m, Plain(m)
  PROVE  WellFormed(Append(s, m)) /\ EndsNew(Append(s, m)) /\ Last(Append(s, m)) = m
<1>1. s \in Seq(Message) /\ m \in Message
  BY KindMessage DEF WellFormed
<1>2. Append(s, m) = s \o <<m>>
  BY <1>1
<1>3. WellFormed(s \o <<m>>)
  BY PlainWellFormed, WellFormedConcat
<1>4. /\ Append(s, m) # <<>> /\ Len(Append(s, m)) = Len(s) + 1
      /\ Append(s, m)[Len(s) + 1] = m
  BY <1>1
<1>5. Append(s, m)[Len(Append(s, m))] = m
  BY <1>4
<1> QED BY <1>2, <1>3, <1>4, <1>5 DEF EndsNew, Last

LEMMA PairNew ==
  ASSUME NEW s, WellFormed(s), NEW i \in Ids, NEW n \in Sizes
  PROVE  /\ WellFormed(s \o Pair(i, n)) /\ EndsNew(s \o Pair(i, n))
         /\ Last(s \o Pair(i, n)) = Returned(i) /\ Len(s \o Pair(i, n)) = Len(s) + 2
<1> DEFINE t == Pair(i, n)
           x == s \o t
<1>1. s \in Seq(Message) /\ Len(s) \in Nat
  BY DEF WellFormed
<1>2. n \in Nat
  BY SizeAssumption
<1>3. /\ WellFormed(t) /\ t \in Seq(Message) /\ Len(t) = 2
      /\ t[1] = Called(<<Use(i, n)>>) /\ t[2] = Returned(i)
  BY <1>2, PairWellFormed
<1> HIDE DEF t
<1>4. WellFormed(x)
  BY <1>3, WellFormedConcat
<1>5. x \in Seq(Message) /\ Len(x) = Len(s) + Len(t) /\ Embeds(t, 1, x, Len(s))
  <2> DEFINE S == Message
  <2>1. s \in Seq(S) /\ t \in Seq(S)
    BY <1>1, <1>3
  <2> HIDE DEF S
  <2>2. s \o t \in Seq(S) /\ Len(s \o t) = Len(s) + Len(t) /\ Embeds(t, 1, s \o t, Len(s))
    BY <2>1, ConcatEmbeds
  <2> QED BY <2>2 DEF S
<1> HIDE DEF x
<1>6. Len(x) = Len(s) + 2 /\ Len(x) - 1 = 1 + Len(s) /\ Len(x) = 2 + Len(s) /\ Len(x) >= 2
  BY <1>1, <1>3, <1>5
<1>7. x[1 + Len(s)] = t[1] /\ x[2 + Len(s)] = t[2]
  <2>1. 1 \in 1 .. Len(t) /\ 2 \in 1 .. Len(t)
    BY <1>3
  <2> QED BY <1>5, <2>1 DEF Embeds
<1>8. x[Len(x) - 1] = Called(<<Use(i, n)>>) /\ x[Len(x)] = Returned(i)
  BY <1>3, <1>6, <1>7
<1>9. x # <<>>
  <2>1. Len(<<>>) = 0
    OBVIOUS
  <2> QED BY <1>6, <2>1
<1> QED BY <1>4, <1>6, <1>8, <1>9 DEF EndsNew, Last, x, t

LEMMA InitInv == Init => HistoryInv
BY EmptyWhole DEF Init, HistoryInv

LEMMA StreamTurnInv ==
  ASSUME HistoryInv, StreamTurn
  PROVE  HistoryInv'
<1> DEFINE s == [i \in DOMAIN session |-> AsUser(session[i])]
<1>1. PICK n \in Questions :
        messages' = Append(s, Said("user", n)) /\ timeline' = <<Said("user", n)>>
  BY DEF StreamTurn
<1>2. phase = "idle" /\ phase' = "round" /\ session' = session /\ request' = request
  BY DEF StreamTurn
<1>3. request' = <<>> /\ WellFormed(session)
  BY <1>2 DEF HistoryInv
<1> DEFINE m == Said("user", n)
<1>4. Plain(m)
  BY SizeAssumption DEF Plain, Role
<1>5. WellFormed(s)
  BY <1>3, AsUserWellFormed
<1> HIDE DEF s, m
<1>6. WellFormed(messages') /\ EndsNew(messages') /\ Last(messages') = m
  BY <1>1, <1>4, <1>5, AppendNew DEF m
<1>7. WellFormed(timeline') /\ Last(timeline') = m
  <2>1. WellFormed(<<m>>) /\ Last(<<m>>) = m
    BY <1>4, PlainWellFormed DEF Last
  <2> QED BY <1>1, <2>1 DEF m
<1> QED BY <1>2, <1>3, <1>6, <1>7, EmptyWhole DEF HistoryInv

LEMMA RoundInv ==
  ASSUME HistoryInv, Round
  PROVE  HistoryInv'
<1> DEFINE r == BuildRequest(messages)
<1>1. /\ phase = "round" /\ phase' = "model" /\ request' = r /\ messages' = r
      /\ session' = session /\ timeline' = timeline
  BY DEF Round
<1>2. /\ WellFormed(session) /\ WellFormed(messages) /\ WellFormed(timeline)
      /\ EndsNew(messages) /\ Last(messages) = Last(timeline)
  BY <1>1 DEF HistoryInv
<1>3. Whole(r) /\ EndsWithNewest(r, Last(timeline))
  BY <1>2, BuildRequestSound
<1>4. WellFormed(r) /\ Len(r) <= Len(r)
  BY <1>3, WholeWellFormed DEF Whole
<1> HIDE DEF r
<1> QED BY <1>1, <1>2, <1>3, <1>4 DEF HistoryInv, EndsWithNewest

LEMMA RunToolsInv ==
  ASSUME HistoryInv, RunTools
  PROVE  HistoryInv'
<1>1. PICK i \in Ids, n \in Sizes, text \in BOOLEAN :
        /\ messages' = messages \o Pair(i, n)
        /\ timeline' = timeline \o (IF text THEN <<Said("assistant", n)>> ELSE <<>>) \o Pair(i, n)
  BY DEF RunTools
<1>2. phase' \in {"model", "round"} /\ session' = session /\ request' = request
  BY DEF RunTools
<1>3. /\ WellFormed(session) /\ WellFormed(messages) /\ WellFormed(timeline) /\ Whole(request)
      /\ request # <<>> => Len(request) <= Len(messages)
  BY DEF HistoryInv
<1> DEFINE t == timeline \o (IF text THEN <<Said("assistant", n)>> ELSE <<>>)
<1>4. WellFormed(t)
  <2>1. Plain(Said("assistant", n))
    BY SizeAssumption DEF Plain, Role
  <2>2. WellFormed(<<Said("assistant", n)>>)
    BY <2>1, PlainWellFormed
  <2> QED BY <1>3, <2>2, EmptyWhole, WellFormedConcat
<1> HIDE DEF t
<1>5. /\ WellFormed(messages') /\ EndsNew(messages') /\ Last(messages') = Returned(i)
      /\ Len(messages') = Len(messages) + 2
  BY <1>1, <1>3, PairNew
<1>6. WellFormed(timeline') /\ Last(timeline') = Returned(i)
  BY <1>1, <1>4, PairNew DEF t
<1>7. request # <<>> => Len(request) < Len(messages')
  <2>1. Len(request) \in Nat /\ Len(messages) \in Nat
    BY <1>3 DEF Whole, WellFormed
  <2> QED BY <1>3, <1>5, <2>1
<1>8. Len(request) \in Nat /\ Len(messages') \in Nat
  BY <1>3, <1>5 DEF Whole, WellFormed
<1>9. request # <<>> => Len(request) <= Len(messages') /\ request # messages'
  BY <1>7, <1>8
<1> QED BY <1>2, <1>3, <1>5, <1>6, <1>9 DEF HistoryInv

LEMMA StreamFinalizeInv ==
  ASSUME HistoryInv, StreamFinalize
  PROVE  HistoryInv'
<1>1. PICK answer \in {<<>>} \cup {<<Said("assistant", n)>> : n \in Sizes} :
        session' \in Saved(session \o timeline \o answer)
  BY DEF StreamFinalize
<1>2. messages' = <<>> /\ timeline' = <<>> /\ request' = <<>> /\ phase' = "idle"
  BY DEF StreamFinalize
<1>3. WellFormed(answer)
  <2>1. CASE answer = <<>>
    BY <2>1, EmptyWhole
  <2>2. ASSUME NEW n \in Sizes, answer = <<Said("assistant", n)>> PROVE WellFormed(answer)
    <3>1. Plain(Said("assistant", n))
      BY SizeAssumption DEF Plain, Role
    <3> QED BY <2>2, <3>1, PlainWellFormed
  <2> QED BY <2>1, <2>2
<1>4. WellFormed(session \o timeline \o answer)
  BY <1>3, WellFormedConcat DEF HistoryInv
<1>5. WellFormed(session')
  BY <1>1, <1>4, SavedWellFormed
<1> QED BY <1>2, <1>5, EmptyWhole DEF HistoryInv

LEMMA RunTurnInv ==
  ASSUME HistoryInv, RunTurn
  PROVE  HistoryInv'
<1>1. PICK q \in Questions, n \in Sizes, c \in {<<>>} \cup {<<i>> : i \in Ids} \cup
             {<<i, j>> : i, j \in Ids} :
        /\ IsInjective(c)
        /\ session' \in Saved(session \o <<Said("user", q)>>
               \o (IF c = <<>> THEN <<>> ELSE <<Asked(n, c)>> \o Answers(c)) \o <<Said("assistant", n)>>)
  BY DEF RunTurn
<1>2. UNCHANGED <<messages, timeline, request, phase>>
  BY DEF RunTurn
<1>3. q \in Nat /\ n \in Nat
  BY SizeAssumption
<1>4. WellFormed(<<Said("user", q)>>) /\ WellFormed(<<Said("assistant", n)>>)
  <2>1. Plain(Said("user", q)) /\ Plain(Said("assistant", n))
    BY <1>3 DEF Plain, Role
  <2> QED BY <2>1, PlainWellFormed
<1>5. WellFormed(IF c = <<>> THEN <<>> ELSE <<Asked(n, c)>> \o Answers(c))
  <2>1. CASE c = <<>>
    BY <2>1, EmptyWhole
  <2>2. CASE c # <<>>
    <3>1. c \in Seq(Ids) /\ DOMAIN c = 1 .. Len(c)
      <4>1. ASSUME NEW i \in Ids, c = <<i>> PROVE c \in Seq(Ids)
        BY <4>1
      <4>2. ASSUME NEW i \in Ids, NEW j \in Ids, c = <<i, j>> PROVE c \in Seq(Ids)
        BY <4>2
      <4>3. c \in Seq(Ids)
        BY <2>2, <4>1, <4>2
      <4> QED BY <4>3
    <3>2. \A k, l \in 1 .. Len(c) : c[k] = c[l] => k = l
      BY <1>1, <3>1 DEF IsInjective
    <3>3. Asking(Asked(n, c)) /\ IdsOf("use", Asked(n, c)) = {c[k] : k \in 1 .. Len(c)}
      BY <1>3, <2>2, <3>1, AskedFacts
    <3>4. WellFormed(<<Asked(n, c)>> \o Answers(c))
      BY <2>2, <3>1, <3>2, <3>3, BatchWellFormed
    <3> QED BY <2>2, <3>4
  <2> QED BY <2>1, <2>2
<1>6. WellFormed(session \o <<Said("user", q)>>
        \o (IF c = <<>> THEN <<>> ELSE <<Asked(n, c)>> \o Answers(c)) \o <<Said("assistant", n)>>)
  BY <1>4, <1>5, WellFormedConcat DEF HistoryInv
<1>7. WellFormed(session')
  BY <1>1, <1>6, SavedWellFormed
<1> QED BY <1>2, <1>7 DEF HistoryInv, EndsWithNewest

LEMMA NextInv == HistoryInv /\ [Next]_vars => HistoryInv'
<1> SUFFICES ASSUME HistoryInv, [Next]_vars PROVE HistoryInv'
  OBVIOUS
<1>1. CASE StreamTurn
  BY <1>1, StreamTurnInv
<1>2. CASE Round
  BY <1>2, RoundInv
<1>3. CASE RunTools
  BY <1>3, RunToolsInv
<1>4. CASE StreamFinalize
  BY <1>4, StreamFinalizeInv
<1>5. CASE RunTurn
  BY <1>5, RunTurnInv
<1>6. CASE UNCHANGED vars
  BY <1>6 DEF HistoryInv, EndsWithNewest, vars
<1> QED BY <1>1, <1>2, <1>3, <1>4, <1>5, <1>6 DEF Next

\* Whatever the budgets, the session and the calls of the model are: a request
\* pairs its calls and results and, as long as it is what the model answers, ends
\* with the newest message, unless that one does not fit a request by itself.
THEOREM UsableTheorem == Spec => []RequestsUsable
<1>1. HistoryInv => RequestsUsable
  BY WholePaired DEF HistoryInv, RequestsUsable
<1> QED BY InitInv, NextInv, <1>1, PTL DEF Spec

\* However long the session and whatever the model answers, no request of the tool
\* loop exceeds a budget: it fits the limits of messages, characters and tokens,
\* or is the summary alone, which stands in for what does not fit.
THEOREM BudgetsTheorem ==
  Spec => [](request = <<>> \/ request = Summary \/ Fits(request))
<1> DEFINE Within == request = <<>> \/ request = Summary \/ Fits(request)
<1>1. Init => Within
  BY DEF Init
<1>2. HistoryInv /\ Within /\ [Next]_vars => Within'
  <2> SUFFICES ASSUME HistoryInv, Within, [Next]_vars PROVE Within'
    OBVIOUS
  <2>1. CASE Round
    <3>1. request' = BuildRequest(messages) /\ WellFormed(messages)
      BY <2>1 DEF Round, HistoryInv
    <3>2. Fits(BuildRequest(messages)) \/ BuildRequest(messages) = Summary
      BY <3>1, BuildRequestFits
    <3> QED BY <3>1, <3>2 DEF Fits
  <2>2. CASE StreamFinalize
    BY <2>2 DEF StreamFinalize
  <2>3. CASE UNCHANGED request
    BY <2>3 DEF Fits
  <2> QED BY <2>1, <2>2, <2>3 DEF Next, StreamTurn, RunTools, RunTurn, vars
<1> QED BY InitInv, NextInv, <1>1, <1>2, PTL DEF Spec
=============================================================================
