--------------------------- MODULE CollTreeProofs ---------------------------
(***************************************************************************)
(* The trees of src/src/collectives.c for any number of PEs and any radix: *)
(* what each PE computes on its own, in build_kary_tree and in             *)
(* shmem_internal_collectives_init, adds up to one tree.  A set of numbers *)
(* has a least element, and that is the induction used throughout: no      *)
(* least PE is cut off from the root, and no least level is wrong.         *)
(***************************************************************************)
EXTENDS CollTree, FiniteSetTheorems, WellFoundedInduction, TLAPS

(* A set of numbers that is not empty has a least one. *)
LEMMA LeastNumber ==
  ASSUME NEW T, T \subseteq Nat, T # {}
  PROVE  \E x \in T : \A y \in T : x <= y
<1> DEFINE R == OpToRel(<, Nat)
<1>1. IsWellFoundedOn(R, Nat)
  BY NatLessThanWellFounded
<1>2. \A x, y \in Nat : y < x => <<y, x>> \in R
  BY DEF OpToRel
<1> HIDE DEF R
<1>3. PICK x \in T : \A y \in T : <<y, x>> \notin R
  BY <1>1, WFMin
<1>4. ASSUME NEW y \in T PROVE x <= y
  <2>1. x \in Nat /\ y \in Nat /\ ~ (y < x)
    BY <1>2, <1>3
  <2> QED
    BY <2>1
<1> QED
  BY <1>4

(* Division with remainder. *)
LEMMA Divide ==
  ASSUME NEW a \in Nat, NEW b \in Nat \ {0}
  PROVE  /\ a \div b \in Nat /\ a % b \in 0 .. b - 1
         /\ a = (a \div b) * b + (a % b)
  OBVIOUS

(* Quotient and remainder are unique. *)
LEMMA DivideIs ==
  ASSUME NEW b \in Nat \ {0}, NEW q \in Nat, NEW r \in 0 .. b - 1
  PROVE  (q * b + r) \div b = q /\ (q * b + r) % b = r
  OBVIOUS

(* A sum modulo n that wraps at most once. *)
LEMMA Wrap ==
  ASSUME NEW n \in Nat \ {0}, NEW a \in 0 .. n - 1, NEW b \in 0 .. n
  PROVE  (a + b) % n = IF a + b < n THEN a + b ELSE a + b - n
  OBVIOUS

-----------------------------------------------------------------------------
(* The k-ary tree.  nth(i) is the PE whose my_id is i. *)

nth(start, stride, size, root, i) == start + ((root + i) % size) * stride

(* The PE whose my_id is i has my_id i. *)
LEMMA NodeIs ==
  ASSUME NEW start \in Nat, NEW stride \in Nat \ {0}, NEW size \in Nat \ {0},
         NEW root \in 0 .. size - 1, NEW i \in 0 .. size - 1
  PROVE  /\ (root + i) % size \in 0 .. size - 1
         /\ nth(start, stride, size, root, i) \in Nat
         /\ (nth(start, stride, size, root, i) - start) \div stride = (root + i) % size
         /\ my_id(start, stride, size, root, nth(start, stride, size, root, i)) = i
<1> DEFINE r == (root + i) % size
<1>1. r \in 0 .. size - 1 /\ r = IF root + i < size THEN root + i ELSE root + i - size
  <2>1. i \in 0 .. size
    OBVIOUS
  <2>2. r = IF root + i < size THEN root + i ELSE root + i - size
    BY <2>1, Wrap
  <2> QED
    BY <2>2
<1>2. r * stride \in Nat
  BY <1>1
<1>3. (r * stride) \div stride = r
  BY <1>1
<1>4. nth(start, stride, size, root, i) = start + r * stride
  BY DEF nth
<1>5. (nth(start, stride, size, root, i) - start) = r * stride
  BY <1>2, <1>4
<1>6. my_id(start, stride, size, root, nth(start, stride, size, root, i))
        = (r + size - root) % size
  BY <1>3, <1>5 DEF my_id
<1>7. (r + size - root) % size = i
  <2>1. r + (size - root) = IF root + i < size THEN i + size ELSE i
    BY <1>1
  <2>2. size - root \in 0 .. size
    OBVIOUS
  <2> HIDE DEF r
  <2>3. (r + (size - root)) % size
          = IF r + (size - root) < size THEN r + (size - root) ELSE r + (size - root) - size
    BY <1>1, <2>2, Wrap
  <2>4. r + size - root = r + (size - root)
    BY <1>1
  <2> QED
    BY <2>1, <2>3, <2>4
<1> QED
  BY <1>1, <1>2, <1>3, <1>4, <1>5, <1>6, <1>7

(* Every PE of the active set is one of these. *)
LEMMA NodesAreMembers ==
  ASSUME NEW start \in Nat, NEW stride \in Nat \ {0}, NEW size \in Nat \ {0},
         NEW root \in 0 .. size - 1, NEW k \in 0 .. size - 1
  PROVE  \E i \in 0 .. size - 1 : start + k * stride = nth(start, stride, size, root, i)
<1>1. CASE root <= k
  <2>1. k - root \in 0 .. size - 1 /\ root + (k - root) = k
    BY <1>1
  <2>2. (root + (k - root)) % size = k
    BY <2>1, Wrap
  <2> QED
    BY <2>1, <2>2 DEF nth
<1>2. CASE k < root
  <2>1. k + size - root \in 0 .. size - 1 /\ root + (k + size - root) = k + size
    BY <1>2
  <2>2. (root + (k + size - root)) % size = k
    BY <2>1, Wrap
  <2> QED
    BY <2>1, <2>2 DEF nth
<1> QED
  BY <1>1, <1>2

(* Which of its PEs are the parent and the children of one. *)
LEMMA KaryParent ==
  ASSUME NEW radix \in Nat \ {0, 1},
         NEW start \in Nat, NEW stride \in Nat \ {0}, NEW size \in Nat \ {0},
         NEW root \in 0 .. size - 1, NEW i \in 0 .. size - 1
  PROVE  LET up == IF i = 0 THEN 0 ELSE (i - 1) \div radix
         IN  /\ up \in 0 .. size - 1 /\ up <= i /\ (i # 0 => up < i)
             /\ kary_parent(radix, start, stride, size, root, nth(start, stride, size, root, i))
                  = nth(start, stride, size, root, up)
<1> DEFINE up == IF i = 0 THEN 0 ELSE (i - 1) \div radix
<1>1. my_id(start, stride, size, root, nth(start, stride, size, root, i)) = i
  BY NodeIs
<1>2. trunc_div(i - 1, radix) = up
  <2>1. CASE i = 0
    <3>1. 1 \div radix = 0
      BY DivideIs
    <3> QED
      BY <2>1, <3>1 DEF trunc_div
  <2>2. CASE i # 0
    BY <2>2 DEF trunc_div
  <2> QED
    BY <2>1, <2>2
<1>3. up \in 0 .. size - 1 /\ up <= i /\ (i # 0 => up < i)
  <2>1. CASE i = 0
    BY <2>1
  <2>2. CASE i # 0
    <3>1. i - 1 \in Nat
      BY <2>2
    <3>2. /\ (i - 1) \div radix \in Nat /\ (i - 1) % radix \in Nat
          /\ i - 1 = ((i - 1) \div radix) * radix + ((i - 1) % radix)
      BY <3>1, Divide
    <3>3. (i - 1) \div radix <= ((i - 1) \div radix) * radix
      BY <3>2
    <3> QED
      BY <2>2, <3>2, <3>3
  <2> QED
    BY <2>1, <2>2
<1>4. kary_parent(radix, start, stride, size, root, nth(start, stride, size, root, i))
        = start + ((up + root) % size) * stride
  BY <1>1, <1>2 DEF kary_parent
<1>5. up + root = root + up
  BY <1>3
<1> QED
  BY <1>3, <1>4, <1>5 DEF nth

(* The children of i are radix * i + 1 .. radix * i + radix, within the set. *)
LEMMA KaryChildren ==
  ASSUME NEW radix \in Nat \ {0, 1},
         NEW start \in Nat, NEW stride \in Nat \ {0}, NEW size \in Nat \ {0},
         NEW root \in 0 .. size - 1, NEW i \in 0 .. size - 1
  PROVE  kary_children(radix, start, stride, size, root, nth(start, stride, size, root, i))
           = {nth(start, stride, size, root, j) :
                j \in {j \in 1 .. size - 1 : (j - 1) \div radix = i}}
<1> DEFINE ids == {radix * i + k : k \in 1 .. radix}
           kids == {j \in 1 .. size - 1 : (j - 1) \div radix = i}
<1>1. my_id(start, stride, size, root, nth(start, stride, size, root, i)) = i
  BY NodeIs
<1>2. {t \in ids : t < size} = kids
  <2>1. ASSUME NEW t \in ids, t < size
        PROVE  t \in kids
    <3>1. PICK k \in 1 .. radix : t = radix * i + k
      OBVIOUS
    <3>2. radix * i \in Nat /\ radix * i = i * radix
      OBVIOUS
    <3>3. k - 1 \in 0 .. radix - 1
      OBVIOUS
    <3>4. t - 1 = i * radix + (k - 1)
      BY <3>1, <3>2
    <3>5. (t - 1) \div radix = i
      <4>1. (i * radix + (k - 1)) \div radix = i
        BY <3>3, DivideIs
      <4> QED
        BY <3>4, <4>1
    <3>6. t \in 1 .. size - 1
      BY <2>1, <3>1, <3>2
    <3> QED
      BY <3>5, <3>6
  <2>2. ASSUME NEW j \in kids
        PROVE  j \in ids /\ j < size
    <3>1. j - 1 \in Nat /\ j \in 1 .. size - 1 /\ (j - 1) \div radix = i
      OBVIOUS
    <3>2. (j - 1) % radix \in 0 .. radix - 1 /\ j - 1 = i * radix + ((j - 1) % radix)
      BY <3>1, Divide
    <3>3. PICK r \in 0 .. radix - 1 : j - 1 = i * radix + r
      BY <3>2
    <3>4. i * radix \in Nat /\ radix * i = i * radix
      OBVIOUS
    <3>5. j = radix * i + (r + 1) /\ r + 1 \in 1 .. radix
      BY <3>1, <3>3, <3>4
    <3> QED
      BY <3>1, <3>5
  <2> QED
    BY <2>1, <2>2
<1>3. kary_children(radix, start, stride, size, root, nth(start, stride, size, root, i))
        = {start + ((root + t) % size) * stride : t \in {t \in ids : t < size}}
  BY <1>1 DEF kary_children
<1> HIDE DEF ids, kids
<1> QED
  BY <1>2, <1>3 DEF nth, kids

-----------------------------------------------------------------------------
(* The tree over all PEs. *)

(* What the recursive definition of Levels says. *)
LEMMA LevelsAre ==
  ASSUME NEW n \in Nat, NEW radix \in Nat \ {0, 1}
  PROVE  Levels(n, radix)
           = {i \in 1 .. n : i = 1 \/ (i % radix = 0 /\ i \div radix \in Levels(n, radix))}
<1> DEFINE step(f, i) == i = 1 \/ (i % radix = 0 /\ f[i \div radix])
           ok(f, m) == f \in [1 .. m -> BOOLEAN] /\ \A i \in 1 .. m : f[i] = step(f, i)
           Bad == {m \in Nat : ~ \E f : ok(f, m)}
<1>1. \A i \in Nat \ {0} : i % radix = 0 => i \div radix \in 1 .. i - 1
  <2> TAKE i \in Nat \ {0}
  <2> HAVE i % radix = 0
  <2>1. i \div radix \in Nat /\ i = (i \div radix) * radix + (i % radix)
    BY Divide
  <2>2. PICK q \in Nat : q = i \div radix
    BY <2>1
  <2>3. i = q * radix
    BY <2>1, <2>2
  <2>4. q # 0
    BY <2>3
  <2>5. q * radix >= q * 2
    OBVIOUS
  <2> QED
    BY <2>2, <2>3, <2>4, <2>5
<1>2. Bad = {}
  <2> SUFFICES ASSUME Bad # {} PROVE FALSE
    OBVIOUS
  <2>1. PICK m \in Bad : \A y \in Bad : m <= y
    <3> HIDE DEF Bad
    <3>1. Bad \subseteq Nat
      BY DEF Bad
    <3> QED
      BY <3>1, LeastNumber
  <2>2. m \in Nat
    OBVIOUS
  <2>3. CASE m = 0
    <3> DEFINE f == [i \in 1 .. 0 |-> TRUE]
    <3>1. ok(f, 0)
      OBVIOUS
    <3> QED
      BY <2>3, <3>1
  <2>4. CASE m # 0
    <3>1. m - 1 \in Nat /\ m - 1 \notin Bad
      <4> HIDE DEF Bad
      <4>1. m - 1 \in Nat /\ ~ (m <= m - 1)
        BY <2>2, <2>4
      <4> QED
        BY <2>1, <4>1
    <3>2. PICK f : ok(f, m - 1)
      BY <3>1
    <3> DEFINE g == [i \in 1 .. m |-> IF i < m THEN f[i] ELSE step(f, i)]
    <3>3. ASSUME NEW i \in 1 .. m
          PROVE  g[i] = step(f, i) /\ step(f, i) = step(g, i) /\ step(f, i) \in BOOLEAN
      <4>1. i % radix = 0 => i \div radix \in 1 .. m - 1
        BY <1>1, <2>2
      <4>2. i % radix = 0 => g[i \div radix] = f[i \div radix]
        BY <2>2, <4>1
      <4>3. g[i] = step(f, i)
        BY <2>2, <3>2
      <4> QED
        BY <4>2, <4>3
    <3>4. g \in [1 .. m -> BOOLEAN]
      BY <3>3
    <3>5. ok(g, m)
      BY <3>3, <3>4
    <3> QED
      BY <3>5
  <2> QED
    BY <2>3, <2>4
<1>3. PICK f : ok(f, n)
  BY <1>2
<1> DEFINE power == CHOOSE g : g = [i \in 1 .. n |-> i = 1 \/ (i % radix = 0 /\ g[i \div radix])]
<1>4. power = [i \in 1 .. n |-> i = 1 \/ (i % radix = 0 /\ power[i \div radix])]
  <2>1. f = [i \in 1 .. n |-> i = 1 \/ (i % radix = 0 /\ f[i \div radix])]
    BY <1>3
  <2> QED
    BY <2>1
<1>5. Levels(n, radix) = {i \in 1 .. n : power[i]}
  BY DEF Levels
<1> HIDE DEF power
<1>6. \A i \in 1 .. n : power[i] = (i = 1 \/ (i % radix = 0 /\ power[i \div radix]))
  BY <1>4
<1>7. \A i \in 1 .. n : i % radix = 0 => i \div radix \in 1 .. n
  BY <1>1
<1> QED
  BY <1>5, <1>6, <1>7

(* The levels are 1 and the multiples of a level by the radix. *)
LEMMA LevelSteps ==
  ASSUME NEW n \in Nat \ {0}, NEW radix \in Nat \ {0, 1}
  PROVE  /\ Levels(n, radix) \subseteq 1 .. n
         /\ 1 \in Levels(n, radix)
         /\ \A i \in Levels(n, radix) : i # 1 =>
              \E k \in Levels(n, radix) : i = radix * k /\ k < i
         /\ \A i \in Levels(n, radix) : radix * i <= n => radix * i \in Levels(n, radix)
<1> DEFINE L == Levels(n, radix)
<1>1. L = {i \in 1 .. n : i = 1 \/ (i % radix = 0 /\ i \div radix \in L)}
  BY LevelsAre
<1> HIDE DEF L
<1>2. L \subseteq 1 .. n /\ 1 \in L
  BY <1>1
<1>3. ASSUME NEW i \in L, i # 1
      PROVE  \E k \in L : i = radix * k /\ k < i
  <2>1. i \in 1 .. n /\ i % radix = 0 /\ i \div radix \in L
    BY <1>1, <1>3
  <2>2. i = (i \div radix) * radix + (i % radix)
    BY <2>1, Divide
  <2>3. PICK k \in L : k = i \div radix
    BY <2>1
  <2>4. k \in Nat \ {0}
    BY <1>2
  <2>5. i = k * radix
    BY <2>1, <2>2, <2>3, <2>4
  <2>6. k * radix = radix * k /\ k * radix >= k * 2
    BY <2>4
  <2> QED
    BY <2>4, <2>5, <2>6
<1>4. ASSUME NEW i \in L, radix * i <= n
      PROVE  radix * i \in L
  <2>1. i \in Nat \ {0}
    BY <1>2
  <2>2. radix * i \in 1 .. n /\ radix * i = i * radix + 0
    BY <1>4, <2>1
  <2>3. (i * radix + 0) % radix = 0 /\ (i * radix + 0) \div radix = i
    BY <2>1, DivideIs
  <2>4. (radix * i) % radix = 0 /\ (radix * i) \div radix \in L
    BY <2>2, <2>3
  <2> QED
    BY <1>1, <2>2, <2>4
<1> QED
  BY <1>2, <1>3, <1>4 DEF L

(* A level is a multiple of the radix times any smaller one. *)
LEMMA LevelsDivide ==
  ASSUME NEW n \in Nat \ {0}, NEW radix \in Nat \ {0, 1}
  PROVE  \A i, k \in Levels(n, radix) : k < i =>
           \E q \in Nat \ {0} : i = q * (radix * k)
<1> DEFINE L == Levels(n, radix)
           good(i, k) == k < i => \E q \in Nat \ {0} : i = q * (radix * k)
           Bad == {i \in L : \E k \in L : ~ good(i, k)}
<1>1. /\ L \subseteq 1 .. n
      /\ \A i \in L : i # 1 => \E k \in L : i = radix * k /\ k < i
  BY LevelSteps
<1> HIDE DEF L
<1>2. Bad = {}
  <2> SUFFICES ASSUME Bad # {} PROVE FALSE
    OBVIOUS
  <2>1. PICK i \in Bad : \A y \in Bad : i <= y
    <3>1. Bad \subseteq L
      OBVIOUS
    <3> HIDE DEF Bad
    <3>2. Bad \subseteq Nat
      BY <1>1, <3>1
    <3> QED
      BY <3>2, LeastNumber
  <2>2. PICK k \in L : k < i /\ ~ \E q \in Nat \ {0} : i = q * (radix * k)
    BY <2>1
  <2>3. i \in L /\ i \in Nat \ {0} /\ k \in Nat \ {0} /\ i # 1
    BY <1>1, <2>2
  <2>4. PICK j \in L : i = radix * j /\ j < i
    BY <1>1, <2>3
  <2>5. j \in Nat \ {0}
    BY <1>1
  <2>6. CASE j = k
    <3>1. i = 1 * (radix * k)
      BY <2>4, <2>6, <2>5
    <3> QED
      BY <2>2, <3>1
  <2>7. CASE k < j
    <3>1. j \notin Bad
      <4> HIDE DEF Bad
      <4> QED
        BY <2>1, <2>3, <2>4, <2>5
    <3>2. PICK q \in Nat \ {0} : j = q * (radix * k)
      BY <2>7, <3>1
    <3>3. radix * k \in Nat
      BY <2>3
    <3>4. i = (radix * q) * (radix * k)
      BY <2>4, <3>2, <3>3
    <3>5. radix * q \in Nat \ {0}
      OBVIOUS
    <3> QED
      BY <2>2, <3>4, <3>5
  <2>8. CASE j < k
    <3>1. k \notin Bad
      <4> HIDE DEF Bad
      <4> QED
        BY <2>1, <2>2, <2>3
    <3>2. PICK q \in Nat \ {0} : k = q * (radix * j)
      BY <2>8, <3>1
    <3>3. radix * j \in Nat /\ q * (radix * j) >= radix * j
      BY <2>5
    <3> QED
      BY <2>2, <2>3, <2>4, <3>2, <3>3
  <2> QED
    BY <2>3, <2>5, <2>6, <2>7, <2>8
<1> QED
  BY <1>2 DEF L

(* The widest level covers all PEs. *)
LEMMA TopLevel ==
  ASSUME NEW n \in Nat \ {0}, NEW radix \in Nat \ {0, 1}
  PROVE  \E t \in Levels(n, radix) : n < radix * t
<1> DEFINE L == Levels(n, radix)
           D == {d \in Nat : \E i \in L : d = n - i}
<1>1. L \subseteq 1 .. n /\ 1 \in L /\ \A i \in L : radix * i <= n => radix * i \in L
  BY LevelSteps
<1> HIDE DEF L
<1>2. D \subseteq Nat /\ n - 1 \in D
  BY <1>1
<1>3. PICK d \in D : \A y \in D : d <= y
  <2> HIDE DEF D
  <2> QED
    BY <1>2, LeastNumber
<1>4. PICK t \in L : d = n - t
  OBVIOUS
<1>5. t \in Nat \ {0} /\ t <= n
  BY <1>1
<1>6. radix * t > t /\ radix * t \in Nat
  BY <1>5
<1>7. ASSUME radix * t <= n PROVE FALSE
  <2>1. radix * t \in L /\ n - (radix * t) \in D
    BY <1>1, <1>6, <1>7
  <2>2. d <= n - (radix * t)
    <3> HIDE DEF D
    <3> QED
      BY <1>3, <2>1
  <2> QED
    BY <1>4, <1>5, <1>6, <2>2
<1> QED
  BY <1>6, <1>7 DEF L

(* The width of a group on level i: that of the level above, where there is one. *)
width(n, radix, i) == tmp_radix(n, radix, i) * i

(* Widths are positive, and the width on a level divides every higher level. *)
LEMMA Widths ==
  ASSUME NEW n \in Nat \ {0}, NEW radix \in Nat \ {0, 1}, NEW i \in Levels(n, radix)
  PROVE  /\ i \in Nat \ {0} /\ tmp_radix(n, radix, i) \in Nat \ {0, 1}
         /\ width(n, radix, i) \in Nat \ {0}
         /\ \A k \in Levels(n, radix) : k < i =>
              /\ width(n, radix, k) = radix * k
              /\ \E q \in Nat \ {0} : i = q * width(n, radix, k)
<1>1. i \in 1 .. n
  BY LevelSteps
<1>2. n \div i \in Nat /\ n % i \in 0 .. i - 1 /\ n = (n \div i) * i + (n % i)
  BY <1>1, Divide
<1>3. n \div i >= 1
  <2>1. PICK a \in Nat : a = n \div i
    BY <1>2
  <2>2. ASSUME a = 0 PROVE FALSE
    BY <1>1, <1>2, <2>1, <2>2
  <2> QED
    BY <2>1, <2>2
<1>4. tmp_radix(n, radix, i) \in Nat \ {0, 1}
  BY <1>2, <1>3 DEF tmp_radix
<1>5. width(n, radix, i) \in Nat \ {0}
  BY <1>1, <1>4 DEF width
<1>6. ASSUME NEW k \in Levels(n, radix), k < i
      PROVE  /\ width(n, radix, k) = radix * k
             /\ \E q \in Nat \ {0} : i = q * width(n, radix, k)
  <2>1. k \in 1 .. n
    BY LevelSteps
  <2>2. PICK q \in Nat \ {0} : i = q * (radix * k)
    BY <1>6, LevelsDivide
  <2>3. radix * k \in Nat /\ q * (radix * k) >= radix * k
    BY <2>1
  <2>4. radix * k <= n
    BY <1>1, <2>2, <2>3
  <2>5. n \div k \in Nat /\ n % k \in 0 .. k - 1 /\ n = (n \div k) * k + (n % k)
    BY <2>1, Divide
  <2>6. ~ (n \div k < radix)
    <3>1. PICK a \in Nat : a = n \div k
      BY <2>5
    <3>2. ASSUME a < radix PROVE FALSE
      <4>1. a + 1 <= radix
        BY <3>2
      <4>2. (a + 1) * k <= radix * k
        BY <2>1, <4>1
      <4>3. (a + 1) * k = a * k + k
        BY <2>1
      <4> QED
        BY <2>1, <2>4, <2>5, <3>1, <4>2, <4>3
    <3> QED
      BY <3>1, <3>2
  <2>7. width(n, radix, k) = radix * k
    BY <2>6 DEF width, tmp_radix
  <2> QED
    BY <2>2, <2>7
<1> QED
  BY <1>1, <1>4, <1>5, <1>6

(* The root of the group of a PE. *)
LEMMA RootsAre ==
  ASSUME NEW n \in Nat \ {0}, NEW radix \in Nat \ {0, 1}, NEW i \in Levels(n, radix),
         NEW q \in Nat, NEW r \in Nat, r < width(n, radix, i)
  PROVE  my_root(n, radix, i, q * width(n, radix, i) + r) = q * width(n, radix, i)
<1> DEFINE w == width(n, radix, i)
<1>1. w \in Nat \ {0}
  BY Widths
<1>2. my_root(n, radix, i, q * w + r) = ((q * w + r) \div w) * w
  BY DEF my_root, width
<1> HIDE DEF w
<1>3. r \in 0 .. w - 1
  BY <1>1 DEF w
<1>4. (q * w + r) \div w = q
  BY <1>1, <1>3, DivideIs
<1> QED
  BY <1>2, <1>4 DEF w

(* my_root is the first PE of one's group on a level. *)
LEMMA RootParts ==
  ASSUME NEW n \in Nat \ {0}, NEW radix \in Nat \ {0, 1}, NEW i \in Levels(n, radix),
         NEW me \in Nat
  PROVE  \E q \in Nat, r \in Nat : /\ r < width(n, radix, i)
                                  /\ me = q * width(n, radix, i) + r
                                  /\ my_root(n, radix, i, me) = q * width(n, radix, i)
<1> DEFINE w == width(n, radix, i)
<1>1. w \in Nat \ {0}
  BY Widths
<1>2. me \div w \in Nat /\ me % w \in 0 .. w - 1 /\ me = (me \div w) * w + (me % w)
  BY <1>1, Divide
<1>3. my_root(n, radix, i, me) = (me \div w) * w
  BY DEF my_root, width
<1>4. me % w \in Nat /\ me % w < w
  BY <1>1, <1>2
<1> QED
  BY <1>2, <1>3, <1>4

(* A PE is the root of its group exactly if it is a multiple of the width. *)
LEMMA OwnRoot ==
  ASSUME NEW n \in Nat \ {0}, NEW radix \in Nat \ {0, 1}, NEW i \in Levels(n, radix),
         NEW me \in Nat
  PROVE  my_root(n, radix, i, me) = me <=> \E q \in Nat : me = q * width(n, radix, i)
<1>1. width(n, radix, i) \in Nat \ {0}
  BY Widths
<1>2. ASSUME NEW q \in Nat, me = q * width(n, radix, i)
      PROVE  my_root(n, radix, i, me) = me
  <2>1. my_root(n, radix, i, q * width(n, radix, i) + 0) = q * width(n, radix, i)
    BY <1>1, RootsAre
  <2> QED
    BY <1>1, <1>2, <2>1
<1>3. ASSUME my_root(n, radix, i, me) = me
      PROVE  \E q \in Nat : me = q * width(n, radix, i)
  BY <1>3, RootParts
<1> QED
  BY <1>2, <1>3

(* The parent of a PE is its root on the first level where that is another. *)
LEMMA FirstLevel ==
  ASSUME NEW n \in Nat \ {0}, NEW radix \in Nat \ {0, 1}, NEW me \in Nat,
         NEW i \in Levels(n, radix),
         my_root(n, radix, i, me) # me,
         \A k \in Levels(n, radix) : k < i => my_root(n, radix, k, me) = me
  PROVE  full_parent(n, radix, me) = my_root(n, radix, i, me)
<1> DEFINE L == Levels(n, radix)
           others == L \ own_levels(n, radix, me)
<1>0. L \subseteq Nat
  BY LevelSteps
<1>1. i \in others
  BY <1>0 DEF own_levels
<1>2. \A k \in others : i <= k
  <2> SUFFICES ASSUME NEW k \in others, k < i PROVE FALSE
    BY <1>0
  <2>1. k \in own_levels(n, radix, me)
    BY <1>0 DEF own_levels
  <2> QED
    BY <2>1
<1> DEFINE c == CHOOSE j \in others : \A k \in others : j <= k
<1>3. c = i
  <2> HIDE DEF others
  <2>1. c \in others /\ \A k \in others : c <= k
    BY <1>1, <1>2
  <2>2. others \subseteq Nat
    BY <1>0 DEF others
  <2> HIDE DEF c
  <2>3. c <= i /\ i <= c /\ c \in Nat /\ i \in Nat
    BY <1>1, <1>2, <2>1, <2>2
  <2> QED
    BY <2>3
<1> QED
  BY <1>1, <1>3 DEF full_parent

(* The children that a PE computes take it for their parent. *)
LEMMA ChildHasParent ==
  ASSUME NEW n \in Nat \ {0}, NEW radix \in Nat \ {0, 1}, NEW me \in 0 .. n - 1,
         NEW c \in full_children(n, radix, me)
  PROVE  c \in 1 .. n - 1 /\ c > me /\ full_parent(n, radix, c) = me
<1>0. PICK i \in own_levels(n, radix, me) :
        \E j \in 1 .. tmp_radix(n, radix, i) - 1 : c \in 0 .. n - 1 /\ c = me + i * j
  BY DEF full_children
<1>1. PICK j \in 1 .. tmp_radix(n, radix, i) - 1 : c \in 0 .. n - 1 /\ c = me + i * j
  BY <1>0
<1>2. /\ i \in Levels(n, radix)
      /\ \A k \in Levels(n, radix) : k <= i => my_root(n, radix, k, me) = me
  BY DEF own_levels
<1> DEFINE w == width(n, radix, i)
           t == tmp_radix(n, radix, i)
<1>3. i \in Nat \ {0} /\ t \in Nat \ {0, 1} /\ w \in Nat \ {0} /\ w = t * i
  BY <1>2, Widths DEF width
<1>4. PICK q \in Nat : me = q * w
  BY <1>2, <1>3, OwnRoot
<1>5. i * j \in Nat \ {0} /\ i * j < w
  <2>1. j \in Nat \ {0} /\ j + 1 <= t
    BY <1>3
  <2> HIDE DEF t, w
  <2>2. i * (j + 1) <= i * t
    BY <1>3, <2>1
  <2>3. i * (j + 1) = i * j + i /\ i * t = t * i /\ i * j \in Nat \ {0}
    BY <1>3, <2>1
  <2> QED
    BY <1>3, <2>2, <2>3
<1>6. my_root(n, radix, i, c) = me
  BY <1>1, <1>2, <1>4, <1>5, RootsAre
<1>7. c \in 1 .. n - 1 /\ c > me /\ c # me
  BY <1>1, <1>5
<1>8. ASSUME NEW k \in Levels(n, radix), k < i
      PROVE  my_root(n, radix, k, c) = c
  <2> DEFINE v == width(n, radix, k)
  <2>1. v \in Nat \ {0}
    BY Widths
  <2>2. PICK a \in Nat \ {0} : i = a * v
    BY <1>2, <1>8, Widths
  <2>3. k \in Nat /\ k <= i
    BY <1>3, <1>8, Widths
  <2>4. PICK b \in Nat : me = b * v
    BY <1>2, <2>3, OwnRoot
  <2> HIDE DEF v
  <2>5. i * j = (a * j) * v /\ a * j \in Nat
    BY <2>1, <2>2
  <2>6. c = (b + a * j) * v /\ b + a * j \in Nat
    BY <1>1, <2>1, <2>4, <2>5
  <2> QED
    BY <1>7, <2>6, OwnRoot DEF v
<1>9. full_parent(n, radix, c) = my_root(n, radix, i, c)
  BY <1>2, <1>6, <1>7, <1>8, FirstLevel
<1> QED
  BY <1>6, <1>7, <1>9

(* Every PE but 0 has a parent before it, which counts it as a child. *)
LEMMA ParentHasChild ==
  ASSUME NEW n \in Nat \ {0}, NEW radix \in Nat \ {0, 1}, NEW c \in 1 .. n - 1
  PROVE  /\ full_parent(n, radix, c) \in 0 .. n - 1 /\ full_parent(n, radix, c) < c
         /\ c \in full_children(n, radix, full_parent(n, radix, c))
<1> DEFINE L == Levels(n, radix)
           Not == {i \in L : my_root(n, radix, i, c) # c}
<1>0. L \subseteq Nat
  BY LevelSteps
<1>1. Not # {}
  <2>1. PICK t \in L : n < radix * t
    BY TopLevel
  <2>2. t \in Nat \ {0} /\ t <= n
    BY LevelSteps
  <2>3. n \div t \in Nat /\ n % t \in 0 .. t - 1 /\ n = (n \div t) * t + (n % t)
    BY <2>2, Divide
  <2>4. PICK a \in Nat : a = n \div t
    BY <2>3
  <2>5. a < radix
    <3> SUFFICES ASSUME radix <= a PROVE FALSE
      BY <2>4
    <3>1. radix * t <= a * t
      BY <2>2
    <3> QED
      BY <2>1, <2>2, <2>3, <2>4, <3>1
  <2>6. width(n, radix, t) = (a + 1) * t
    BY <2>4, <2>5 DEF width, tmp_radix
  <2>7. (a + 1) * t = a * t + t
    BY <2>2
  <2>8. c < width(n, radix, t)
    BY <2>2, <2>3, <2>4, <2>6, <2>7
  <2>9. my_root(n, radix, t, 0 * width(n, radix, t) + c) = 0 * width(n, radix, t)
    BY <2>8, RootsAre
  <2>10. my_root(n, radix, t, c) = 0
    BY <2>2, <2>6, <2>9
  <2> QED
    BY <2>10
<1>2. PICK i \in Not : \A y \in Not : i <= y
  <2>1. Not \subseteq L
    OBVIOUS
  <2> HIDE DEF Not
  <2> QED
    BY <1>0, <1>1, <2>1, LeastNumber
<1>3. i \in L /\ my_root(n, radix, i, c) # c
  OBVIOUS
<1>4. \A k \in L : k < i => my_root(n, radix, k, c) = c
  <2> SUFFICES ASSUME NEW k \in L, k < i, my_root(n, radix, k, c) # c PROVE FALSE
    OBVIOUS
  <2>1. k \in Not
    OBVIOUS
  <2> HIDE DEF Not
  <2> QED
    BY <1>0, <1>2, <1>3, <2>1
<1> HIDE DEF Not
<1>5. full_parent(n, radix, c) = my_root(n, radix, i, c)
  BY <1>3, <1>4, FirstLevel
<1> DEFINE w == width(n, radix, i)
           t == tmp_radix(n, radix, i)
<1>6. i \in Nat \ {0} /\ t \in Nat \ {0, 1} /\ w \in Nat \ {0} /\ w = t * i
  BY <1>3, Widths DEF width
<1>7. PICK q \in Nat, r \in Nat : r < w /\ c = q * w + r /\ my_root(n, radix, i, c) = q * w
  BY <1>3, RootParts
<1>8. PICK me \in Nat : me = q * w
  BY <1>6
<1>9. me < c /\ me \in 0 .. n - 1 /\ full_parent(n, radix, c) = me
  BY <1>3, <1>5, <1>7, <1>8
<1>10. PICK a \in Nat : c = a * i
  <2>1. CASE i = 1
    BY <2>1
  <2>2. CASE i # 1
    <3>1. PICK k \in L : i = radix * k /\ k < i
      BY <1>3, <2>2, LevelSteps
    <3>2. width(n, radix, k) = i
      BY <1>3, <3>1, Widths
    <3>3. my_root(n, radix, k, c) = c
      BY <1>4, <3>1
    <3> QED
      BY <3>2, <3>3, OwnRoot
  <2> QED
    BY <2>1, <2>2
<1> HIDE DEF w, t
<1>11. me = (q * t) * i /\ q * t \in Nat
  BY <1>6, <1>8
<1>12. PICK b \in Nat : b = q * t
  BY <1>11
<1> DEFINE j == a - b
<1>13. c = me + i * j /\ j \in 1 .. t - 1
  <2>1. c = a * i /\ me = b * i /\ r = a * i - b * i /\ r > 0
    BY <1>6, <1>7, <1>8, <1>9, <1>10, <1>11, <1>12
  <2>2. a * i - b * i = (a - b) * i /\ (a - b) * i = i * (a - b)
    BY <1>6
  <2>3. a > b
    <3> SUFFICES ASSUME a <= b PROVE FALSE
      OBVIOUS
    <3>1. a * i <= b * i
      BY <1>6
    <3> QED
      BY <1>6, <2>1, <3>1
  <2>4. a - b < t
    <3> SUFFICES ASSUME t <= a - b PROVE FALSE
      BY <1>6
    <3>1. t * i <= (a - b) * i
      BY <1>6
    <3> QED
      BY <1>6, <1>7, <2>1, <2>2, <3>1
  <2> QED
    BY <1>6, <2>1, <2>2, <2>3, <2>4
<1>14. i \in own_levels(n, radix, me)
  <2>1. my_root(n, radix, i, me) = me
    BY <1>3, <1>8, OwnRoot DEF w
  <2>2. ASSUME NEW k \in L, k < i PROVE my_root(n, radix, k, me) = me
    <3>1. width(n, radix, k) \in Nat \ {0}
      BY Widths
    <3>2. PICK d \in Nat \ {0} : i = d * width(n, radix, k)
      BY <1>3, <2>2, Widths
    <3>3. me = (b * d) * width(n, radix, k) /\ b * d \in Nat
      BY <1>11, <1>12, <3>1, <3>2
    <3> QED
      BY <3>3, OwnRoot
  <2> QED
    BY <1>0, <1>3, <2>1, <2>2 DEF own_levels
<1>15. c \in full_children(n, radix, me)
  BY <1>13, <1>14 DEF full_children, t
<1> QED
  BY <1>9, <1>15

(* PE 0 is its own parent. *)
LEMMA RootHasNoParent ==
  ASSUME NEW n \in Nat \ {0}, NEW radix \in Nat \ {0, 1}
  PROVE  full_parent(n, radix, 0) = 0
<1>1. ASSUME NEW i \in Levels(n, radix) PROVE my_root(n, radix, i, 0) = 0
  <2>1. width(n, radix, i) \in Nat \ {0} /\ 0 = 0 * width(n, radix, i)
    BY Widths
  <2> QED
    BY <2>1, OwnRoot
<1>2. Levels(n, radix) \ own_levels(n, radix, 0) = {}
  BY <1>1 DEF own_levels
<1> QED
  BY <1>2 DEF full_parent

-----------------------------------------------------------------------------
(* Rooted trees. *)

(* Climbing ends at the root if a parent is always lower than its child. *)
LEMMA ClimbEnds ==
  ASSUME NEW nodes, IsFiniteSet(nodes), NEW root \in nodes, NEW parent \in [nodes -> nodes],
         parent[root] = root,
         NEW height \in [nodes -> Nat], \A p \in nodes : height[p] < Cardinality(nodes),
         \A p \in nodes \ {root} : height[parent[p]] < height[p],
         NEW me \in nodes
  PROVE  Climb(nodes, parent, me) = root
<1> DEFINE N == Cardinality(nodes)
           ok(f, m) == /\ f \in [0 .. m -> nodes]
                       /\ \A k \in 0 .. m : f[k] = IF k = 0 THEN me ELSE parent[f[k - 1]]
           Bad == {m \in Nat : ~ \E f : ok(f, m)}
<1>1. N \in Nat
  BY FS_CardinalityType
<1> HIDE DEF N
<1>2. Bad = {}
  <2> SUFFICES ASSUME Bad # {} PROVE FALSE
    OBVIOUS
  <2>1. PICK m \in Bad : \A y \in Bad : m <= y
    <3>1. Bad \subseteq Nat
      OBVIOUS
    <3> HIDE DEF Bad
    <3> QED
      BY <3>1, LeastNumber
  <2>2. m \in Nat
    OBVIOUS
  <2>3. CASE m = 0
    <3>1. ok([k \in 0 .. 0 |-> me], 0)
      OBVIOUS
    <3> QED
      BY <2>3, <3>1
  <2>4. CASE m # 0
    <3>1. m - 1 \in Nat /\ m - 1 \notin Bad
      <4> HIDE DEF Bad
      <4>1. m - 1 \in Nat /\ ~ (m <= m - 1)
        BY <2>2, <2>4
      <4> QED
        BY <2>1, <4>1
    <3>2. PICK f : ok(f, m - 1)
      BY <3>1
    <3> DEFINE g == [k \in 0 .. m |-> IF k < m THEN f[k] ELSE parent[f[m - 1]]]
    <3>3. g \in [0 .. m -> nodes]
      BY <2>2, <3>1, <3>2
    <3>4. ASSUME NEW k \in 0 .. m PROVE g[k] = IF k = 0 THEN me ELSE parent[g[k - 1]]
      <4>1. CASE k < m
        BY <2>2, <3>2, <4>1
      <4>2. CASE k = m
        BY <2>2, <2>4, <4>2
      <4> QED
        BY <2>2, <4>1, <4>2
    <3>5. ok(g, m)
      BY <3>3, <3>4
    <3> QED
      BY <3>5
  <2> QED
    BY <2>3, <2>4
<1>3. PICK f : ok(f, N)
  BY <1>1, <1>2
<1> DEFINE up == CHOOSE g : g = [k \in 0 .. N |-> IF k = 0 THEN me ELSE parent[g[k - 1]]]
<1>4. up = [k \in 0 .. N |-> IF k = 0 THEN me ELSE parent[up[k - 1]]]
  <2>1. f = [k \in 0 .. N |-> IF k = 0 THEN me ELSE parent[f[k - 1]]]
    BY <1>3
  <2> QED
    BY <2>1
<1>5. Climb(nodes, parent, me) = up[N]
  BY DEF Climb, N
<1> HIDE DEF up
<1>6. up[0] = me /\ \A k \in 1 .. N : up[k] = parent[up[k - 1]]
  BY <1>1, <1>4
<1> DEFINE low(k) == up[k] \in nodes /\ (up[k] = root \/ height[up[k]] + k < N)
           High == {k \in 0 .. N : ~ low(k)}
<1>7. High = {}
  <2> SUFFICES ASSUME High # {} PROVE FALSE
    OBVIOUS
  <2>1. PICK k \in High : \A y \in High : k <= y
    <3>1. High \subseteq Nat
      BY <1>1
    <3> HIDE DEF High
    <3> QED
      BY <3>1, LeastNumber
  <2>2. k \in 0 .. N /\ ~ low(k)
    OBVIOUS
  <2>3. k # 0
    BY <1>1, <1>6, <2>2 DEF N
  <2>4. k - 1 \in 0 .. N /\ k \in 1 .. N /\ ~ (k <= k - 1)
    BY <1>1, <2>2, <2>3
  <2>5. low(k - 1)
    <3>1. k - 1 \notin High
      <4> HIDE DEF High
      <4> QED
        BY <2>1, <2>4
    <3> QED
      BY <2>4, <3>1
  <2>6. up[k] = parent[up[k - 1]]
    BY <1>6, <2>4
  <2>7. CASE up[k - 1] = root
    BY <2>2, <2>6, <2>7
  <2>8. CASE up[k - 1] # root
    <3>1. height[up[k]] < height[up[k - 1]] /\ up[k] \in nodes
      BY <2>5, <2>6, <2>8
    <3>2. height[up[k]] \in Nat /\ height[up[k - 1]] \in Nat
      BY <2>5, <3>1
    <3> QED
      BY <1>1, <2>2, <2>4, <2>5, <2>8, <3>1, <3>2
  <2> QED
    BY <2>7, <2>8
<1>8. low(N)
  BY <1>1, <1>7
<1>9. up[N] \in nodes => height[up[N]] \in Nat
  OBVIOUS
<1> QED
  BY <1>1, <1>5, <1>8, <1>9

(* An active set has as many members as its size says. *)
LEMMA MembersCount ==
  ASSUME NEW start \in Nat, NEW stride \in Nat \ {0}, NEW size \in Nat \ {0}
  PROVE  LET members == {start + i * stride : i \in 0 .. size - 1}
         IN  IsFiniteSet(members) /\ Cardinality(members) = size
<1> DEFINE members == {start + i * stride : i \in 0 .. size - 1}
           f == [i \in 0 .. size - 1 |-> start + i * stride]
<1>1. \A i, j \in 0 .. size - 1 : start + i * stride = start + j * stride => i = j
  <2> TAKE i, j \in 0 .. size - 1
  <2> HAVE start + i * stride = start + j * stride
  <2>1. i * stride = j * stride
    OBVIOUS
  <2> QED
    BY <2>1
<1>2. f \in Bijection(0 .. size - 1, members)
  BY <1>1 DEF Bijection, Injection, Surjection, IsInjective
<1>3. ExistsBijection(0 .. size - 1, members)
  BY <1>2 DEF ExistsBijection
<1>4. IsFiniteSet(0 .. size - 1) /\ Cardinality(0 .. size - 1) = size
  BY FS_Interval
<1> QED
  BY <1>3, <1>4, FS_Bijection

(* What the PEs of an active set compute in build_kary_tree, each on its own. *)
KaryIsRooted(radix, start, stride, size, root) ==
  LET members == {start + i * stride : i \in 0 .. size - 1}
  IN  IsTree(members, start + root * stride,
             [p \in members |-> kary_parent(radix, start, stride, size, root, p)],
             [p \in members |-> kary_children(radix, start, stride, size, root, p)])

(* It is one tree with the given root, for every active set, radix and root. *)
THEOREM KaryTreesSpan ==
  ASSUME NEW radix \in Nat \ {0, 1},
         NEW start \in Nat, NEW stride \in Nat \ {0}, NEW size \in Nat \ {0},
         NEW root \in 0 .. size - 1
  PROVE  KaryIsRooted(radix, start, stride, size, root)
<1> DEFINE members == {start + i * stride : i \in 0 .. size - 1}
           top == start + root * stride
           nd(i) == nth(start, stride, size, root, i)
           parent == [p \in members |-> kary_parent(radix, start, stride, size, root, p)]
           children == [p \in members |-> kary_children(radix, start, stride, size, root, p)]
           height == [p \in members |-> my_id(start, stride, size, root, p)]
           up(i) == IF i = 0 THEN 0 ELSE (i - 1) \div radix
<1>1. \A i \in 0 .. size - 1 : /\ nd(i) \in members
                              /\ my_id(start, stride, size, root, nd(i)) = i
  <2> TAKE i \in 0 .. size - 1
  <2>1. /\ (root + i) % size \in 0 .. size - 1
        /\ my_id(start, stride, size, root, nd(i)) = i
    BY NodeIs
  <2>2. nd(i) \in members
    BY <2>1 DEF nth
  <2> QED
    BY <2>1, <2>2
<1>2. \A p \in members : \E i \in 0 .. size - 1 : p = nd(i)
  <2> TAKE p \in members
  <2>1. PICK k \in 0 .. size - 1 : p = start + k * stride
    OBVIOUS
  <2> QED
    BY <2>1, NodesAreMembers
<1>3. top = nd(0)
  <2>1. (root + 0) % size = root
    BY Wrap
  <2> QED
    BY <2>1 DEF nth
<1>4. \A i \in 0 .. size - 1 : /\ up(i) \in 0 .. size - 1 /\ up(i) <= i /\ (i # 0 => up(i) < i)
                              /\ kary_parent(radix, start, stride, size, root, nd(i)) = nd(up(i))
  BY KaryParent
<1>5. \A i \in 0 .. size - 1 :
        kary_children(radix, start, stride, size, root, nd(i))
          = {nd(j) : j \in {j \in 1 .. size - 1 : (j - 1) \div radix = i}}
  BY KaryChildren
<1>6. IsFiniteSet(members) /\ Cardinality(members) = size
  BY MembersCount
<1> HIDE DEF members, nd, top
<1>7. parent \in [members -> members] /\ top \in members /\ parent[top] = top
  <2>1. \A p \in members : parent[p] \in members
    BY <1>1, <1>2, <1>4
  <2>2. top \in members /\ parent[top] = top
    BY <1>1, <1>3, <1>4
  <2> QED
    BY <2>1, <2>2
<1>8. ASSUME NEW p \in members
      PROVE  children[p] = {c \in members \ {top} : parent[c] = p}
  <2>1. PICK i \in 0 .. size - 1 : p = nd(i)
    BY <1>2
  <2>2. children[p] = {nd(j) : j \in {j \in 1 .. size - 1 : (j - 1) \div radix = i}}
    BY <1>5, <2>1
  <2>3. ASSUME NEW j \in 1 .. size - 1, (j - 1) \div radix = i
        PROVE  nd(j) \in members \ {top} /\ parent[nd(j)] = p
    <3>1. j \in 0 .. size - 1 /\ j # 0 /\ 0 \in 0 .. size - 1
      OBVIOUS
    <3>2. nd(j) # nd(0)
      BY <1>1, <3>1
    <3>3. parent[nd(j)] = nd(up(j)) /\ up(j) = i
      BY <1>1, <1>4, <2>3, <3>1
    <3> QED
      BY <1>1, <1>3, <2>1, <3>1, <3>2, <3>3
  <2>4. ASSUME NEW c \in members \ {top}, parent[c] = p
        PROVE  c \in children[p]
    <3>1. PICK j \in 0 .. size - 1 : c = nd(j)
      BY <1>2
    <3>2. j # 0 /\ j \in 1 .. size - 1
      BY <1>3, <2>4, <3>1
    <3>3. nd(up(j)) = nd(i) /\ up(j) \in 0 .. size - 1
      BY <1>1, <1>4, <2>1, <2>4, <3>1
    <3>4. up(j) = i
      <4> HIDE DEF up
      <4> QED
        BY <1>1, <3>3
    <3> QED
      BY <2>2, <3>1, <3>2, <3>4
  <2> HIDE DEF children, parent
  <2> QED
    BY <2>2, <2>3, <2>4
<1>9. ASSUME NEW p \in members
      PROVE  Climb(members, parent, p) = top
  <2>1. height \in [members -> Nat] /\ \A q \in members : height[q] < size
    <3>1. \A q \in members : height[q] \in 0 .. size - 1
      BY <1>1, <1>2
    <3> QED
      BY <3>1
  <2>2. \A q \in members \ {top} : height[parent[q]] < height[q]
    <3> TAKE q \in members \ {top}
    <3>1. PICK i \in 0 .. size - 1 : q = nd(i)
      BY <1>2
    <3>2. i # 0
      BY <1>3, <3>1
    <3>3. up(i) < i /\ up(i) \in 0 .. size - 1 /\ parent[q] = nd(up(i))
      BY <1>4, <3>1, <3>2
    <3>4. height[q] = i /\ height[parent[q]] = up(i)
      <4> HIDE DEF up
      <4> QED
        BY <1>1, <3>1, <3>3
    <3> QED
      BY <3>3, <3>4
  <2> HIDE DEF parent, height
  <2> QED
    BY <1>6, <1>7, <2>1, <2>2, ClimbEnds
<1> HIDE DEF parent, children
<1>10. IsTree(members, top, parent, children)
  BY <1>7, <1>8, <1>9 DEF IsTree
<1> QED
  BY <1>10 DEF parent, children, members, top, KaryIsRooted

(* The tree that collectives_init builds over all PEs is one tree with root 0. *)
THEOREM FullTreeSpans ==
  ASSUME NEW n \in Nat \ {0}, NEW radix \in Nat \ {0, 1}
  PROVE  IsTree(0 .. n - 1, 0, [p \in 0 .. n - 1 |-> full_parent(n, radix, p)],
                               [p \in 0 .. n - 1 |-> full_children(n, radix, p)])
<1> DEFINE members == 0 .. n - 1
           parent == [p \in members |-> full_parent(n, radix, p)]
           children == [p \in members |-> full_children(n, radix, p)]
           height == [p \in members |-> p]
<1>1. parent \in [members -> members] /\ 0 \in members /\ parent[0] = 0
  <2>1. \A p \in members : p = 0 \/ p \in 1 .. n - 1
    OBVIOUS
  <2> QED
    BY <2>1, RootHasNoParent, ParentHasChild
<1>2. ASSUME NEW p \in members
      PROVE  children[p] = {c \in members \ {0} : parent[c] = p}
  <2>1. ASSUME NEW c \in full_children(n, radix, p)
        PROVE  c \in members \ {0} /\ parent[c] = p
    BY ChildHasParent
  <2>2. ASSUME NEW c \in members \ {0}, parent[c] = p
        PROVE  c \in full_children(n, radix, p)
    <3>1. c \in 1 .. n - 1
      OBVIOUS
    <3> QED
      BY <2>2, <3>1, ParentHasChild
  <2>3. children[p] = full_children(n, radix, p)
    OBVIOUS
  <2> QED
    BY <2>1, <2>2, <2>3
<1>3. ASSUME NEW p \in members
      PROVE  Climb(members, parent, p) = 0
  <2>1. IsFiniteSet(members) /\ Cardinality(members) = n
    BY FS_Interval
  <2>2. height \in [members -> Nat] /\ \A q \in members : height[q] < n
    OBVIOUS
  <2>3. \A q \in members \ {0} : height[parent[q]] < height[q]
    <3> TAKE q \in members \ {0}
    <3>1. q \in 1 .. n - 1
      OBVIOUS
    <3>2. full_parent(n, radix, q) < q /\ full_parent(n, radix, q) \in members
      BY <3>1, ParentHasChild
    <3> QED
      BY <3>2
  <2> HIDE DEF members, parent, height
  <2> QED
    BY <1>1, <2>1, <2>2, <2>3, ClimbEnds
<1>4. IsTree(members, 0, parent, children)
  <2> HIDE DEF members, parent, children
  <2> QED
    BY <1>1, <1>2, <1>3 DEF IsTree
<1> QED
  BY <1>4
=============================================================================
