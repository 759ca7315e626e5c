--------------------------- MODULE GeometryProofs ---------------------------
(***************************************************************************)
(* The arithmetic on PE numbers for any number of PEs, stride and radix:   *)
(* the trees span (from CollTreeProofs), the numbers of a PE in different  *)
(* teams fit together, and the PEs of a node find the same shared team.    *)
(***************************************************************************)
EXTENDS MCGeometry, CollTreeProofs

(* The cases are fixed at the start. *)
Case == TeamCase \/ NodeCase \/ TreeCase \/ BinsCase

(* No step leaves the case. *)
LEMMA CaseStays == Spec => []Case
<1>1. Init => Case
  BY DEF Init, Case
<1>2. Case /\ [Next]_vars => Case'
  BY DEF Case, TeamCase, NodeCase, TreeCase, BinsCase, Next, Insert, Unlink, vars, Teams
<1> QED
  BY <1>1, <1>2, PTL DEF Spec

(* An active set and a team list their PEs alike. *)
LEMMA TeamMembers ==
  ASSUME NEW t, t.stride \in Nat, t.start \in Nat, t.size \in Nat
  PROVE  MembersOf(t) = {t.start + i * t.stride : i \in 0 .. t.size - 1}
<1>1. \A i \in 0 .. t.size - 1 : t.stride * i = i * t.stride
  OBVIOUS
<1> QED
  BY <1>1 DEF MembersOf, team_pe

(* Both constructions of trees in collectives.c give one tree over the active set. *)
THEOREM TreesAlwaysSpan == Spec => []TreesSpan
<1>1. Case => TreesSpan
  <2> SUFFICES ASSUME TreeCase PROVE TreesSpan
    BY DEF Case, TeamCase, NodeCase, BinsCase, TreesSpan, KaryIsTree, FullIsTree
  <2>1. /\ team.start \in Nat /\ team.stride \in Nat \ {0} /\ team.size \in Nat \ {0}
        /\ arg \in 0 .. team.size - 1 /\ radix \in Nat \ {0, 1}
    BY GeometryAssumption DEF TreeCase
  <2>2. KaryIsRooted(radix, team.start, team.stride, team.size, arg)
    BY <2>1, KaryTreesSpan
  <2>3. MembersOf(team) = {team.start + i * team.stride : i \in 0 .. team.size - 1}
    BY <2>1, TeamMembers
  <2>4. team_pe(team, arg) = team.start + arg * team.stride
    BY <2>1 DEF team_pe
  <2>5. KaryIsTree
    BY <2>2, <2>3, <2>4 DEF KaryIsTree, KaryIsRooted
  <2>6. FullIsTree
    BY <2>1, FullTreeSpans DEF FullIsTree
  <2> QED
    BY <2>5, <2>6 DEF TreesSpan
<1> QED
  BY <1>1, CaseStays, PTL

-----------------------------------------------------------------------------
(* The number of a PE in a team is found by division. *)
LEMMA NumberOfMember ==
  ASSUME NEW start \in Nat, NEW stride \in Nat \ {0}, NEW size \in Nat,
         NEW k \in 0 .. size - 1
  PROVE  pe_in_active_set(start + stride * k, start, stride, size) = k
<1>1. PICK m \in Nat : m = stride * k
  OBVIOUS
<1>2. m = k * stride + 0
  BY <1>1
<1>3. m \div stride = k /\ m % stride = 0
  BY <1>2, DivideIs
<1>4. (start + m) - start = m /\ ~ (start + m < start)
  BY <1>1
<1>5. pe_in_active_set(start + m, start, stride, size) = k
  BY <1>3, <1>4 DEF pe_in_active_set
<1> QED
  BY <1>1, <1>5

(* A PE that is no member gets -1. *)
LEMMA NumberOfOther ==
  ASSUME NEW start \in Nat, NEW stride \in Nat \ {0}, NEW size \in Nat, NEW pe \in Nat,
         \A k \in 0 .. size - 1 : pe # start + stride * k
  PROVE  pe_in_active_set(pe, start, stride, size) = -1
<1> SUFFICES ASSUME ~ (pe < start), (pe - start) % stride = 0, (pe - start) \div stride < size
             PROVE  FALSE
  BY DEF pe_in_active_set
<1>1. PICK m \in Nat : m = pe - start
  OBVIOUS
<1>2. m \div stride \in Nat /\ m = (m \div stride) * stride + (m % stride)
  BY Divide
<1>3. PICK k \in Nat : k = m \div stride
  BY <1>2
<1>4. m = k * stride /\ k < size
  BY <1>1, <1>2, <1>3
<1>5. k * stride = stride * k
  OBVIOUS
<1>6. pe = start + stride * k
  BY <1>1, <1>4, <1>5
<1> QED
  BY <1>4, <1>6

(* What a team of Teams is made of. *)
LEMMA TeamsAre ==
  ASSUME NEW t \in Teams
  PROVE  /\ t.start \in Nat /\ t.stride \in Nat \ {0} /\ t.size \in Nat \ {0}
         /\ NumPEs \in Nat
         /\ \A i \in 0 .. t.size - 1 :
              team_pe(t, i) = t.start + t.stride * i /\ team_pe(t, i) \in 0 .. NumPEs - 1
<1>1. t.start \in Nat /\ t.stride \in Nat \ {0} /\ t.size \in Nat \ {0} /\ NumPEs \in Nat
  BY GeometryAssumption DEF Teams
<1>2. t.start + t.stride * (t.size - 1) < NumPEs
  BY DEF Teams, team_pe
<1>3. ASSUME NEW i \in 0 .. t.size - 1
      PROVE  t.start + t.stride * i \in 0 .. NumPEs - 1
  <2>1. t.stride * i <= t.stride * (t.size - 1) /\ t.stride * i \in Nat
                     /\ t.stride * (t.size - 1) \in Nat
    BY <1>1
  <2> QED
    BY <1>1, <1>2, <2>1
<1> QED
  BY <1>1, <1>3 DEF team_pe

(* shmem_team_translate_pe answers in the destination's numbers. *)
LEMMA Translation == TeamCase => TranslateIsRelative
<1> SUFFICES ASSUME TeamCase, arg < team.size PROVE TranslateIsRelative
  BY DEF TranslateIsRelative
<1>1. team \in Teams /\ other \in Teams /\ arg \in 0 .. team.size - 1
  BY TeamsAre DEF TeamCase
<1>2. PICK pe \in Nat : pe = team_pe(team, arg)
  BY <1>1, TeamsAre
<1>3. translate_pe(team, arg, other)
        = pe_in_active_set(pe, other.start, other.stride, other.size)
  BY <1>1, <1>2, TeamsAre DEF translate_pe
<1>4. /\ other.start \in Nat /\ other.stride \in Nat \ {0} /\ other.size \in Nat \ {0}
      /\ \A i \in 0 .. other.size - 1 : team_pe(other, i) = other.start + other.stride * i
  BY <1>1, TeamsAre
<1>5. CASE pe \in MembersOf(other)
  <2>1. PICK k \in 0 .. other.size - 1 : pe = other.start + other.stride * k
    BY <1>4, <1>5 DEF MembersOf
  <2>2. pe_in_active_set(pe, other.start, other.stride, other.size) = k
    BY <1>4, <2>1, NumberOfMember
  <2> QED
    BY <1>2, <1>3, <1>4, <1>5, <2>1, <2>2 DEF TranslateIsRelative
<1>6. CASE pe \notin MembersOf(other)
  <2>1. \A k \in 0 .. other.size - 1 : pe # other.start + other.stride * k
    BY <1>4, <1>6 DEF MembersOf
  <2>2. pe_in_active_set(pe, other.start, other.stride, other.size) = -1
    BY <1>4, <2>1, NumberOfOther
  <2> QED
    BY <1>2, <1>3, <1>6, <2>2 DEF TranslateIsRelative
<1> QED
  BY <1>5, <1>6

-----------------------------------------------------------------------------
(* The grid of split_2d. *)

LEMMA Cancel ==
  ASSUME NEW s \in Nat \ {0}, NEW a \in Nat, NEW b \in Nat, s * a = s * b
  PROVE  a = b
  OBVIOUS

(* u is split off t: every b-th PE of its parent from number a on. *)
Every(t, u, a, b) ==
  /\ t.start \in Nat /\ t.stride \in Nat \ {0}
  /\ u.start = t.start + t.stride * a /\ u.stride = b * t.stride /\ u.size \in Nat \ {0}

(* Then it has PE number i of its parent if i = a + b * j, as its number j. *)
Numbers(t, u, a, b, i) ==
  /\ team_pe(t, i) \in MembersOf(u) => \E j \in 0 .. u.size - 1 : i = a + b * j
  /\ \A j \in 0 .. u.size - 1 : i = a + b * j =>
       /\ team_pe(t, i) \in MembersOf(u)
       /\ pe_in_active_set(team_pe(t, i), u.start, u.stride, u.size) = j

(* Which of its parent's PEs a split-off team has, and as what. *)
LEMMA SubTeam ==
  ASSUME NEW t, NEW u, NEW a \in Nat, NEW b \in Nat \ {0}, NEW i \in Nat, Every(t, u, a, b)
  PROVE  Numbers(t, u, a, b, i)
<1> USE DEF Every
<1>1. PICK s \in Nat \ {0} : s = t.stride
  OBVIOUS
<1>2. team_pe(t, i) = t.start + s * i /\ s * i \in Nat /\ s * a \in Nat
  BY <1>1 DEF team_pe
<1>3. ASSUME NEW j \in 0 .. u.size - 1
      PROVE  /\ team_pe(u, j) = u.start + u.stride * j
             /\ team_pe(u, j) = t.start + s * (a + b * j)
             /\ b * j \in Nat
  <2>1. team_pe(u, j) = t.start + s * a + (b * s) * j
    BY <1>1 DEF team_pe
  <2>2. s * a + (b * s) * j = s * (a + b * j)
    OBVIOUS
  <2>3. (b * s) * j \in Nat /\ s * (a + b * j) \in Nat /\ b * j \in Nat
    OBVIOUS
  <2> QED
    BY <1>2, <2>1, <2>2, <2>3 DEF team_pe
<1>4. ASSUME team_pe(t, i) \in MembersOf(u)
      PROVE  \E j \in 0 .. u.size - 1 : i = a + b * j
  <2>1. PICK j \in 0 .. u.size - 1 : team_pe(t, i) = team_pe(u, j)
    BY <1>4 DEF MembersOf
  <2>2. PICK x \in Nat : x = a + b * j
    BY <1>3
  <2>3. t.start + s * i = t.start + s * x
    BY <1>2, <1>3, <2>1, <2>2
  <2>4. s * i \in Nat /\ s * x \in Nat
    OBVIOUS
  <2>5. s * i = s * x
    BY <2>3, <2>4
  <2>6. i = x
    BY <2>5, Cancel
  <2> QED
    BY <2>2, <2>6
<1>5. ASSUME NEW j \in 0 .. u.size - 1, i = a + b * j
      PROVE  /\ team_pe(t, i) \in MembersOf(u)
             /\ pe_in_active_set(team_pe(t, i), u.start, u.stride, u.size) = j
  <2>1. team_pe(t, i) = team_pe(u, j)
    BY <1>2, <1>3, <1>5
  <2>2. u.start \in Nat /\ u.stride \in Nat \ {0}
    BY <1>1, <1>2
  <2>3. pe_in_active_set(u.start + u.stride * j, u.start, u.stride, u.size) = j
    BY <2>2, NumberOfMember
  <2> QED
    BY <1>3, <2>1, <2>3 DEF MembersOf
<1> QED
  BY <1>4, <1>5 DEF Numbers

(* A number below n = q * w + r has its row and its column in a grid of width w. *)
LEMMA GridIs ==
  ASSUME NEW w \in Nat \ {0}, NEW q \in Nat \ {0}, NEW r \in 0 .. w - 1
  PROVE  /\ ceil_div(q * w + r, w) = IF r = 0 THEN q ELSE q + 1
         /\ \A k \in Nat, j \in 0 .. w - 1 : k * w + j < q * w + r <=> k < q \/ (k = q /\ j < r)
<1>1. ceil_div(q * w + r, w) = IF r = 0 THEN q ELSE q + 1
  <2>1. CASE r = 0
    <3>1. (q * w + r) + w - 1 = q * w + (w - 1)
      BY <2>1
    <3>2. (q * w + (w - 1)) \div w = q
      BY DivideIs
    <3> QED
      BY <2>1, <3>1, <3>2 DEF ceil_div
  <2>2. CASE r # 0
    <3>1. (q * w + r) + w - 1 = (q + 1) * w + (r - 1)
      OBVIOUS
    <3>2. ((q + 1) * w + (r - 1)) \div w = q + 1
      BY <2>2, DivideIs
    <3> QED
      BY <2>2, <3>1, <3>2 DEF ceil_div
  <2> QED
    BY <2>1, <2>2
<1>2. ASSUME NEW k \in Nat, NEW j \in 0 .. w - 1
      PROVE  k * w + j < q * w + r <=> k < q \/ (k = q /\ j < r)
  <2>1. CASE k < q
    <3>1. (k + 1) * w <= q * w /\ (k + 1) * w = k * w + w /\ k * w \in Nat /\ q * w \in Nat
      BY <2>1
    <3> QED
      BY <2>1, <3>1
  <2>2. CASE k = q
    <3>1. q * w \in Nat
      OBVIOUS
    <3> QED
      BY <2>2, <3>1
  <2>3. CASE k > q
    <3>1. (q + 1) * w <= k * w /\ (q + 1) * w = q * w + w /\ k * w \in Nat /\ q * w \in Nat
      BY <2>3
    <3> QED
      BY <2>3, <3>1
  <2> QED
    BY <2>1, <2>2, <2>3
<1> QED
  BY <1>1, <1>2

(* split_2d's rows and columns have the PEs of one y and of one x coordinate. *)
LEMMA Grid == TeamCase => GridIsCartesian
<1> SUFFICES ASSUME TeamCase, arg > 0 PROVE GridIsCartesian
  BY DEF GridIsCartesian
<1>t. team \in Teams /\ arg \in Nat \ {0}
  BY GeometryAssumption DEF TeamCase
<1>1. /\ team.start \in Nat /\ team.stride \in Nat \ {0} /\ team.size \in Nat \ {0}
      /\ NumPEs \in Nat
      /\ \A i \in 0 .. team.size - 1 :
           team_pe(team, i) = team.start + team.stride * i /\ team_pe(team, i) \in 0 .. NumPEs - 1
  BY <1>t, TeamsAre
<1>2. PICK n \in Nat \ {0} : n = team.size
  BY <1>1
<1>3. PICK w \in 1 .. n : w = Xrange
  BY <1>t, <1>1, <1>2 DEF Xrange
<1>4. PICK q \in Nat, r \in 0 .. w - 1 :
         n = q * w + r /\ q = n \div w /\ r = n % w
  <2>1. w \in Nat \ {0}
    OBVIOUS
  <2> QED
    BY <2>1, Divide
<1>5. q # 0
  BY <1>4
<1>6. PICK num \in Nat : num = IF r = 0 THEN q ELSE q + 1
  OBVIOUS
<1>7. /\ ceil_div(n, w) = num
      /\ \A k \in Nat, j \in 0 .. w - 1 : k * w + j < n <=> k < q \/ (k = q /\ j < r)
  <2>1. w \in Nat \ {0} /\ q \in Nat \ {0} /\ r \in 0 .. w - 1 /\ n \in Nat
    BY <1>5
  <2>2. n = q * w + r
    BY <1>4
  <2>3. /\ ceil_div(q * w + r, w) = IF r = 0 THEN q ELSE q + 1
        /\ \A k \in Nat, j \in 0 .. w - 1 :
             k * w + j < q * w + r <=> k < q \/ (k = q /\ j < r)
    BY <2>1, GridIs
  <2> QED
    BY <1>6, <2>2, <2>3
<1> DEFINE xs == xteams(team, arg)
           ys == yteams(team, arg)
           xz(k) == IF k = num - 1 /\ r # 0 THEN r ELSE w
           yz(c) == IF c < r THEN q + 1 ELSE q
<1>8. xs = [k \in 0 .. num - 1 |-> Team(team_pe(team, k * w), team.stride, xz(k))]
  <2>1. (IF arg > team.size THEN team.size ELSE arg) = w
    BY <1>3 DEF Xrange
  <2> QED
    BY <1>2, <1>4, <1>7, <2>1 DEF xteams, split_strided
<1>9. ys = [c \in 0 .. w - 1 |-> Team(team_pe(team, c), w * team.stride, yz(c))]
  <2>1. (IF arg > team.size THEN team.size ELSE arg) = w
    BY <1>3 DEF Xrange
  <2> QED
    BY <1>2, <1>4, <2>1 DEF yteams, split_strided
<1>10. ASSUME NEW k \in 0 .. num - 1
       PROVE  /\ xz(k) \in 1 .. w
              /\ \A j \in Nat : j < xz(k) <=> (j < w /\ k * w + j < n)
              /\ k * w \in 0 .. n - 1 /\ k * w + (xz(k) - 1) \in 0 .. n - 1
  <2>1. xz(k) \in 1 .. w
    BY <1>6
  <2>2. ASSUME NEW j \in Nat
        PROVE  j < xz(k) <=> (j < w /\ k * w + j < n)
    <3>1. CASE j < w
      <4>1. k * w + j < n <=> k < q \/ (k = q /\ j < r)
        BY <1>7, <3>1
      <4> QED
        BY <1>6, <3>1, <4>1
    <3>2. CASE ~ (j < w)
      BY <2>1, <3>2
    <3> QED
      BY <3>1, <3>2
  <2>3. k * w \in Nat
    OBVIOUS
  <2> QED
    BY <2>1, <2>2, <2>3
<1>11. ASSUME NEW c \in 0 .. w - 1
       PROVE  /\ yz(c) \in Nat \ {0}
              /\ \A j \in Nat : j < yz(c) <=> j * w + c < n
              /\ c \in 0 .. n - 1 /\ (yz(c) - 1) * w + c \in 0 .. n - 1
  <2>1. yz(c) \in Nat \ {0}
    BY <1>5
  <2>2. ASSUME NEW j \in Nat
        PROVE  j < yz(c) <=> j * w + c < n
    <3>1. j * w + c < n <=> j < q \/ (j = q /\ c < r)
      BY <1>7
    <3> QED
      BY <3>1
  <2>3. yz(c) - 1 \in Nat /\ yz(c) - 1 < yz(c) /\ (yz(c) - 1) * w \in Nat
    BY <2>1
  <2> HIDE DEF yz
  <2> QED
    BY <2>1, <2>2, <2>3
<1> HIDE DEF xs, ys, xz, yz
<1>12. DOMAIN xs = 0 .. num - 1 /\ DOMAIN ys = 0 .. w - 1
  BY <1>8, <1>9
<1>13. ASSUME NEW k \in 0 .. num - 1
       PROVE  /\ xs[k].start = team.start + team.stride * (k * w)
              /\ xs[k].stride = team.stride /\ xs[k].stride = 1 * team.stride
              /\ xs[k].size = xz(k)
  <2>1. k * w \in 0 .. n - 1
    BY <1>10
  <2>2. team_pe(team, k * w) = team.start + team.stride * (k * w)
    BY <1>1, <1>2, <2>1
  <2>3. xs[k] = Team(team_pe(team, k * w), team.stride, xz(k))
    BY <1>8
  <2> QED
    BY <1>1, <2>2, <2>3 DEF Team
<1>14. ASSUME NEW c \in 0 .. w - 1
       PROVE  /\ ys[c].start = team.start + team.stride * c
              /\ ys[c].stride = w * team.stride
              /\ ys[c].size = yz(c)
  BY <1>1, <1>2, <1>9, <1>11 DEF Team
<1>15. ASSUME NEW k \in 0 .. num - 1
       PROVE  ~ split_refused(team, k * w, team.stride, xs[k].size, NumPEs)
  <2>1. /\ k * w \in 0 .. n - 1 /\ xz(k) \in 1 .. w
        /\ k * w + (xz(k) - 1) \in 0 .. n - 1 /\ xs[k].size = xz(k)
    BY <1>10, <1>13
  <2>2. team_pe(team, k * w) \in 0 .. NumPEs - 1
    BY <1>1, <1>2, <2>1
  <2>3. team.start + team.stride * (k * w + (xz(k) - 1)) \in 0 .. NumPEs - 1
    BY <1>1, <1>2, <2>1
  <2>4. PICK a \in Nat, b \in Nat, s \in Nat \ {0} :
           a = k * w /\ b = xz(k) - 1 /\ s = team.stride
    <3>1. k * w \in Nat /\ xz(k) - 1 \in Nat /\ team.stride \in Nat \ {0}
      BY <1>1, <2>1
    <3> QED
      BY <3>1
  <2>5. s * (a + b) = s * a + s * b /\ s * a \in Nat /\ s * b \in Nat
    OBVIOUS
  <2>6. team_pe(team, k * w) + team.stride * (xz(k) - 1) \in 0 .. NumPEs - 1
    BY <1>1, <1>2, <2>1, <2>3, <2>4, <2>5 DEF team_pe
  <2> QED
    BY <1>1, <1>2, <2>1, <2>2, <2>6 DEF split_refused
<1>16. ASSUME NEW c \in 0 .. w - 1
       PROVE  ~ split_refused(team, c, w * team.stride, ys[c].size, NumPEs)
  <2>1. /\ c \in 0 .. n - 1 /\ yz(c) \in Nat \ {0}
        /\ (yz(c) - 1) * w + c \in 0 .. n - 1 /\ ys[c].size = yz(c)
    BY <1>11, <1>14
  <2>2. team_pe(team, c) \in 0 .. NumPEs - 1
    BY <1>1, <1>2, <2>1
  <2>3. team.start + team.stride * ((yz(c) - 1) * w + c) \in 0 .. NumPEs - 1
    BY <1>1, <1>2, <2>1
  <2>4. PICK b \in Nat, s \in Nat \ {0} : b = yz(c) - 1 /\ s = team.stride
    BY <1>1, <2>1
  <2>5. /\ s * (b * w + c) = s * c + (w * s) * b
        /\ s * c \in Nat /\ (w * s) * b \in Nat /\ w * s \in Nat \ {0} /\ b <= b * w
    OBVIOUS
  <2>6. team_pe(team, c) + (w * team.stride) * (yz(c) - 1) \in 0 .. NumPEs - 1
    BY <1>1, <1>2, <2>1, <2>3, <2>4, <2>5 DEF team_pe
  <2>7. b * w + c \in 0 .. n - 1 /\ b * w \in Nat
    BY <2>1, <2>4
  <2>8. yz(c) <= n
    BY <2>1, <2>4, <2>5, <2>7
  <2> QED
    BY <1>1, <1>2, <2>1, <2>2, <2>4, <2>5, <2>6, <2>8 DEF split_refused
<1>17. ASSUME NEW i \in 0 .. n - 1
       PROVE  LET pe == team_pe(team, i)
              IN  /\ {k \in DOMAIN xs : pe \in MembersOf(xs[k])} = {Y(i)}
                  /\ {k \in DOMAIN ys : pe \in MembersOf(ys[k])} = {X(i)}
                  /\ pe_in_active_set(pe, xs[Y(i)].start, xs[Y(i)].stride, xs[Y(i)].size) = X(i)
                  /\ pe_in_active_set(pe, ys[X(i)].start, ys[X(i)].stride, ys[X(i)].size) = Y(i)
  <2> DEFINE pe == team_pe(team, i)
  <2>w. w \in Nat \ {0}
    OBVIOUS
  <2>1. PICK x \in 0 .. w - 1, y \in Nat : x = X(i) /\ y = Y(i) /\ i = y * w + x
    <3>i. i \in Nat
      OBVIOUS
    <3>1. i \div w \in Nat /\ i % w \in 0 .. w - 1 /\ i = (i \div w) * w + (i % w)
      BY <2>w, <3>i, Divide
    <3>2. X(i) = i % w /\ Y(i) = i \div w
      BY <1>3 DEF X, Y
    <3> QED
      BY <3>1, <3>2
  <2>2. y \in 0 .. num - 1 /\ x \in 0 .. xz(y) - 1
    <3>1. y < q \/ (y = q /\ x < r)
      BY <1>7, <2>1
    <3>2. y \in 0 .. num - 1
      BY <1>6, <3>1
    <3>3. x < xz(y) /\ xz(y) \in Nat
      BY <1>10, <2>1, <3>2
    <3> QED
      BY <3>2, <3>3
  <2>3. y \in 0 .. yz(x) - 1
    <3>1. y < yz(x) /\ yz(x) \in Nat
      BY <1>11, <2>1
    <3> QED
      BY <3>1
  <2>4. ASSUME NEW k \in 0 .. num - 1
        PROVE  /\ pe \in MembersOf(xs[k]) => \E j \in 0 .. xz(k) - 1 : i = k * w + 1 * j
               /\ \A j \in 0 .. xz(k) - 1 : i = k * w + 1 * j =>
                    /\ pe \in MembersOf(xs[k])
                    /\ pe_in_active_set(pe, xs[k].start, xs[k].stride, xs[k].size) = j
    <3>1. k * w \in Nat /\ xz(k) \in Nat \ {0}
      BY <1>10
    <3>2. Every(team, xs[k], k * w, 1) /\ xs[k].size = xz(k)
      BY <1>1, <1>13, <3>1 DEF Every
    <3>3. Numbers(team, xs[k], k * w, 1, i)
      <4>1. 1 \in Nat \ {0} /\ i \in Nat
        OBVIOUS
      <4> QED
        BY <3>1, <3>2, <4>1, SubTeam
    <3> QED
      BY <3>2, <3>3 DEF Numbers
  <2>5. ASSUME NEW c \in 0 .. w - 1
        PROVE  /\ pe \in MembersOf(ys[c]) => \E j \in 0 .. yz(c) - 1 : i = c + w * j
               /\ \A j \in 0 .. yz(c) - 1 : i = c + w * j =>
                    /\ pe \in MembersOf(ys[c])
                    /\ pe_in_active_set(pe, ys[c].start, ys[c].stride, ys[c].size) = j
    <3>1. yz(c) \in Nat \ {0}
      BY <1>11
    <3>2. Every(team, ys[c], c, w) /\ ys[c].size = yz(c)
      BY <1>1, <1>14, <3>1 DEF Every
    <3>3. Numbers(team, ys[c], c, w, i)
      <4>1. c \in Nat /\ i \in Nat
        OBVIOUS
      <4> QED
        BY <2>w, <3>2, <4>1, SubTeam
    <3> QED
      BY <3>2, <3>3 DEF Numbers
  <2>6. y * w \in Nat /\ y * w + 1 * x = i /\ x + w * y = i
    BY <2>1
  <2>7. ASSUME NEW k \in 0 .. num - 1, pe \in MembersOf(xs[k]) PROVE k = y
    <3>1. PICK j \in 0 .. xz(k) - 1 : i = k * w + 1 * j
      BY <2>4, <2>7
    <3>2. j \in 0 .. w - 1 /\ k \in Nat /\ i = k * w + j
      BY <1>10, <3>1
    <3>3. (k * w + j) \div w = k
      BY <2>w, <3>2, DivideIs
    <3>4. (y * w + x) \div w = y
      BY <2>w, DivideIs
    <3> QED
      BY <2>1, <3>2, <3>3, <3>4
  <2>8. ASSUME NEW c \in 0 .. w - 1, pe \in MembersOf(ys[c]) PROVE c = x
    <3>1. PICK j \in 0 .. yz(c) - 1 : i = c + w * j
      BY <2>5, <2>8
    <3>2. j \in Nat /\ i = j * w + c
      BY <1>11, <3>1
    <3>3. (j * w + c) % w = c
      BY <2>w, <3>2, DivideIs
    <3>4. (y * w + x) % w = x
      BY <2>w, DivideIs
    <3> QED
      BY <2>1, <3>2, <3>3, <3>4
  <2> HIDE DEF pe
  <2>9. {k \in DOMAIN xs : pe \in MembersOf(xs[k])} = {y}
    BY <1>12, <2>2, <2>4, <2>6, <2>7
  <2>10. {k \in DOMAIN ys : pe \in MembersOf(ys[k])} = {x}
    BY <1>12, <2>1, <2>3, <2>5, <2>6, <2>8
  <2>11. /\ pe_in_active_set(pe, xs[y].start, xs[y].stride, xs[y].size) = x
         /\ pe_in_active_set(pe, ys[x].start, ys[x].stride, ys[x].size) = y
    BY <2>1, <2>2, <2>3, <2>4, <2>5, <2>6
  <2> QED
    BY <2>1, <2>9, <2>10, <2>11 DEF pe
<1> QED
  BY <1>2, <1>3, <1>12, <1>15, <1>16, <1>17 DEF GridIsCartesian, xs, ys

(* The numbers of a PE in different teams fit together: translated from     *)
(* team to team by shmem_team_translate_pe, and as coordinates in the grid  *)
(* of shmem_team_split_2d, for any number of PEs, stride and xrange.        *)
THEOREM NumberingFitsTogether == Spec => []TeamNumbering
<1>1. Case => TeamNumbering
  BY Translation, Grid
     DEF Case, NodeCase, TreeCase, BinsCase, TeamNumbering, TranslateIsRelative, GridIsCartesian
<1> QED
  BY <1>1, CaseStays, PTL

-----------------------------------------------------------------------------
(* SHMEM_TEAM_SHARED: what the loop over the PEs has found before PE k, for *)
(* a node whose PEs are those of the team t.                                *)

(* How many of the numbers 0, d, 2d, ... are below x. *)
below(x, d) == IF x % d = 0 THEN x \div d ELSE x \div d + 1

(* How many PEs of t are below k, and what the loop knows of that many. *)
passed(t, k) ==
  IF k <= t.start THEN 0
  ELSE IF below(k - t.start, t.stride) < t.size THEN below(k - t.start, t.stride) ELSE t.size

found(t, c) == [start  |-> IF c = 0 THEN Unset ELSE t.start,
                stride |-> IF c <= 1 THEN Unset ELSE t.stride,
                size   |-> c, ok |-> TRUE]

(* One more number is below x + 1 when x is one of them. *)
LEMMA BelowNext ==
  ASSUME NEW x \in Nat, NEW d \in Nat \ {0}
  PROVE  below(x + 1, d) = x \div d + 1 /\ x \div d \in Nat
<1>1. x \div d \in Nat /\ x % d \in 0 .. d - 1 /\ x = (x \div d) * d + (x % d)
  BY Divide
<1>2. PICK q \in Nat, r \in 0 .. d - 1 : q = x \div d /\ x = q * d + r
  BY <1>1
<1>3. CASE r + 1 < d
  <2>1. r + 1 \in 0 .. d - 1 /\ x + 1 = q * d + (r + 1)
    BY <1>2, <1>3
  <2>2. (q * d + (r + 1)) \div d = q /\ (q * d + (r + 1)) % d = r + 1
    BY <2>1, DivideIs
  <2> QED
    BY <1>2, <2>1, <2>2 DEF below
<1>4. CASE r + 1 = d
  <2>1. x + 1 = (q + 1) * d + 0
    BY <1>2, <1>4
  <2>2. ((q + 1) * d + 0) \div d = q + 1 /\ ((q + 1) * d + 0) % d = 0
    BY DivideIs
  <2> QED
    BY <1>2, <2>1, <2>2 DEF below
<1> QED
  BY <1>2, <1>3, <1>4

(* acc is what the loop knows after c PEs from s on, d apart. *)
Knows(acc, s, d, c) ==
  /\ acc \in [start : Int, stride : Int, size : Int, ok : BOOLEAN]
  /\ acc.start = (IF c = 0 THEN -1 ELSE s)
  /\ acc.stride = (IF c <= 1 THEN -1 ELSE d)
  /\ acc.size = c /\ acc.ok

(* The first PE gives the start, the second the stride, the others fit. *)
LEMMA PeJoins ==
  ASSUME NEW s \in Nat, NEW d \in Nat \ {0}, NEW q \in Nat, NEW acc, Knows(acc, s, d, q)
  PROVE  Knows(check_for_linear_stride(s + q * d, acc), s, d, q + 1)
<1>1. PICK k \in Nat : k = s + q * d
  OBVIOUS
<1>2. CASE q = 0
  <2>1. k = s
    BY <1>1, <1>2
  <2>2. PICK mid : mid = [acc EXCEPT !.start = k]
    OBVIOUS
  <2>3. /\ mid \in [start : Int, stride : Int, size : Int, ok : BOOLEAN]
        /\ mid.start = s /\ mid.stride = -1 /\ mid.size = 0 /\ mid.ok
    BY <1>2, <2>1, <2>2 DEF Knows
  <2>4. acc.start = -1 /\ acc.size + 1 = 1
    BY <1>2 DEF Knows
  <2>5. check_for_linear_stride(k, acc) = [mid EXCEPT !.size = 1]
    BY <2>2, <2>4 DEF check_for_linear_stride, Unset
  <2>6. Knows([mid EXCEPT !.size = 1], s, d, 1)
    BY <2>3 DEF Knows
  <2> QED
    BY <1>1, <1>2, <2>5, <2>6
<1>3. CASE q = 1
  <2>1. k - s = d /\ acc.start = s /\ acc.stride = -1
    BY <1>1, <1>3 DEF Knows
  <2>2. PICK mid : mid = [acc EXCEPT !.stride = k - acc.start]
    OBVIOUS
  <2>3. /\ mid \in [start : Int, stride : Int, size : Int, ok : BOOLEAN]
        /\ mid.start = s /\ mid.stride = d /\ mid.size = 1 /\ mid.ok
    BY <1>3, <2>1, <2>2 DEF Knows
  <2>4. acc.start # -1 /\ acc.size + 1 = 2
    BY <1>3, <2>1 DEF Knows
  <2>5. check_for_linear_stride(k, acc) = [mid EXCEPT !.size = 2]
    BY <2>1, <2>2, <2>4 DEF check_for_linear_stride, Unset
  <2>6. Knows([mid EXCEPT !.size = 2], s, d, 2)
    BY <2>3 DEF Knows
  <2> QED
    BY <1>1, <1>3, <2>5, <2>6
<1>4. CASE q > 1
  <2>1. acc.start = s /\ acc.stride = d /\ k - s = q * d
    BY <1>1, <1>4 DEF Knows
  <2>2. (q * d) % d = 0
    OBVIOUS
  <2>3. check_for_linear_stride(k, acc) = [acc EXCEPT !.size = acc.size + 1]
    BY <2>1, <2>2 DEF check_for_linear_stride, Unset
  <2> QED
    BY <1>1, <1>4, <2>1, <2>3 DEF Knows
<1> QED
  BY <1>2, <1>3, <1>4

(* found is the one record that knows this much. *)
LEMMA FoundIs ==
  ASSUME NEW t \in Teams, NEW c \in Nat
  PROVE  /\ Knows(found(t, c), t.start, t.stride, c)
         /\ \A r : Knows(r, t.start, t.stride, c) => r = found(t, c)
  BY TeamsAre DEF found, Unset, Knows

(* One turn of the loop. *)
LEMMA LoopTurn ==
  ASSUME NEW t \in Teams, NEW k \in Nat
  PROVE  /\ passed(t, k) \in Nat
         /\ found(t, passed(t, k + 1))
              = IF k \in MembersOf(t) THEN check_for_linear_stride(k, found(t, passed(t, k)))
                ELSE found(t, passed(t, k))
<1>1. PICK s \in Nat, d \in Nat \ {0}, z \in Nat \ {0} :
         s = t.start /\ d = t.stride /\ z = t.size
  BY TeamsAre
<1>2. MembersOf(t) = {s + d * j : j \in 0 .. z - 1}
  BY <1>1 DEF MembersOf, team_pe
<1>3. CASE k < s
  <2>1. passed(t, k) = 0 /\ passed(t, k + 1) = 0
    BY <1>1, <1>3 DEF passed
  <2>2. k \notin MembersOf(t)
    <3>1. \A j \in 0 .. z - 1 : d * j \in Nat
      OBVIOUS
    <3> QED
      BY <1>2, <1>3, <3>1
  <2> QED
    BY <2>1, <2>2
<1>4. CASE s <= k
  <2>1. PICK x \in Nat : x = k - s
    BY <1>4
  <2>2. x \div d \in Nat /\ x % d \in 0 .. d - 1 /\ x = (x \div d) * d + (x % d)
    BY Divide
  <2>3. PICK q \in Nat, r \in 0 .. d - 1 : q = x \div d /\ r = x % d /\ x = q * d + r
    BY <2>2
  <2>4. below(x + 1, d) = q + 1 /\ below(x, d) = IF r = 0 THEN q ELSE q + 1
    BY <2>3, BelowNext DEF below
  <2>5. (k + 1) - s = x + 1 /\ ~ (k + 1 <= s)
    BY <1>4, <2>1
  <2>6. passed(t, k + 1) = IF q + 1 < z THEN q + 1 ELSE z
    BY <1>1, <2>4, <2>5 DEF passed
  <2>7. passed(t, k) = LET b == IF r = 0 THEN q ELSE q + 1 IN IF b < z THEN b ELSE z
    <3>1. CASE k = s
      <4>1. x = 0 * d + 0 /\ (0 * d + 0) \div d = 0 /\ (0 * d + 0) % d = 0
        BY <2>1, <3>1, DivideIs
      <4>2. q = 0 /\ r = 0
        BY <2>3, <4>1
      <4> QED
        BY <1>1, <3>1, <4>2 DEF passed
    <3>2. CASE k # s
      BY <1>1, <1>4, <2>1, <2>4, <3>2 DEF passed
    <3> QED
      BY <3>1, <3>2
  <2>8. k \in MembersOf(t) <=> r = 0 /\ q < z
    <3>1. ASSUME NEW j \in 0 .. z - 1, k = s + d * j PROVE r = 0 /\ q < z
      <4>1. d * j = j * d + 0 /\ d * j \in Nat
        OBVIOUS
      <4>2. (j * d + 0) \div d = j /\ (j * d + 0) % d = 0
        BY DivideIs
      <4>3. x = d * j
        BY <2>1, <3>1, <4>1
      <4> QED
        BY <2>3, <4>1, <4>2, <4>3
    <3>2. ASSUME r = 0, q < z PROVE q \in 0 .. z - 1 /\ k = s + d * q
      <4>1. d * q = q * d /\ d * q \in Nat
        OBVIOUS
      <4> QED
        BY <2>1, <2>3, <3>2, <4>1
    <3> QED
      BY <1>2, <3>1, <3>2
  <2>9. CASE r = 0 /\ q < z
    <3>1. passed(t, k) = q /\ passed(t, k + 1) = q + 1 /\ k \in MembersOf(t)
      BY <2>6, <2>7, <2>8, <2>9
    <3>2. k - s = q * d /\ (k - s) % d = 0
      BY <2>1, <2>3, <2>9
    <3>3. check_for_linear_stride(k, found(t, q)) = found(t, q + 1)
      <4>1. k = s + q * d /\ q + 1 # 0
        BY <1>4, <3>2
      <4>2. Knows(found(t, q), s, d, q)
        BY <1>1, FoundIs
      <4>3. Knows(check_for_linear_stride(s + q * d, found(t, q)), s, d, q + 1)
        BY <4>2, PeJoins
      <4>4. q + 1 \in Nat
        OBVIOUS
      <4> QED
        BY <1>1, <4>1, <4>3, <4>4, FoundIs
    <3> QED
      BY <3>1, <3>3
  <2>10. CASE ~ (r = 0 /\ q < z)
    BY <2>6, <2>7, <2>8, <2>10
  <2> QED
    BY <2>9, <2>10
<1> QED
  BY <1>1, <1>3, <1>4

(* At its end the loop has found the team. *)
LEMMA LoopEnds ==
  ASSUME NEW t \in Teams, MembersOf(t) = node
  PROVE  linear_stride(node, NumPEs) = found(t, t.size)
<1>1. PICK s \in Nat, d \in Nat \ {0}, z \in Nat \ {0} :
         s = t.start /\ d = t.stride /\ z = t.size
  BY TeamsAre
<1>n. NumPEs \in Nat
  BY GeometryAssumption
<1>2. \A k \in Nat : found(t, passed(t, k)).ok
  BY DEF found
<1> DEFINE none == [start |-> Unset, stride |-> Unset, size |-> 0, ok |-> TRUE]
           turn(f, k) == IF k = 0 THEN none
                         ELSE IF k - 1 \in node /\ f[k - 1].ok
                              THEN check_for_linear_stride(k - 1, f[k - 1])
                              ELSE f[k - 1]
           f == [k \in 0 .. NumPEs |-> found(t, passed(t, k))]
<1>3. ASSUME NEW k \in 0 .. NumPEs PROVE f[k] = turn(f, k)
  <2>1. CASE k = 0
    <3>1. passed(t, 0) = 0
      BY <1>1 DEF passed
    <3>2. found(t, 0) = none
      BY DEF found
    <3> QED
      BY <1>n, <2>1, <3>1, <3>2
  <2>2. CASE k # 0
    <3>1. PICK m \in Nat : m = k - 1 /\ m + 1 = k /\ m \in 0 .. NumPEs
      BY <1>n, <2>2
    <3>2. found(t, passed(t, m + 1))
            = IF m \in node THEN check_for_linear_stride(m, found(t, passed(t, m)))
              ELSE found(t, passed(t, m))
      BY LoopTurn
    <3>3. f[m] = found(t, passed(t, m)) /\ f[k] = found(t, passed(t, m + 1)) /\ f[m].ok
      BY <1>2, <3>1
    <3> HIDE DEF f
    <3> QED
      BY <2>2, <3>1, <3>2, <3>3
  <2> QED
    BY <2>1, <2>2
<1> DEFINE after == CHOOSE g : g = [k \in 0 .. NumPEs |-> turn(g, k)]
<1>4. f = [k \in 0 .. NumPEs |-> turn(f, k)]
  <2>1. f = [k \in 0 .. NumPEs |-> f[k]]
    OBVIOUS
  <2> HIDE DEF f, turn
  <2> QED
    BY <1>3, <2>1
<1>5. after = [k \in 0 .. NumPEs |-> turn(after, k)]
  <2> HIDE DEF f
  <2> QED
    BY <1>4
<1>6. linear_stride(node, NumPEs) = after[NumPEs]
  BY DEF linear_stride
<1> HIDE DEF after
<1>7. ASSUME NEW k \in 0 .. NumPEs PROVE after[k] = turn(after, k)
  <2> HIDE DEF turn
  <2> QED
    BY <1>5
<1> DEFINE Bad == {k \in 0 .. NumPEs : after[k] # f[k]}
<1>8. Bad = {}
  <2> SUFFICES ASSUME Bad # {} PROVE FALSE
    OBVIOUS
  <2>1. PICK k \in Bad : \A y \in Bad : k <= y
    <3> HIDE DEF Bad
    <3>1. Bad \subseteq Nat
      BY DEF Bad
    <3> QED
      BY <3>1, LeastNumber
  <2>2. k \in 0 .. NumPEs /\ after[k] # f[k]
    OBVIOUS
  <2>3. k # 0 => after[k - 1] = f[k - 1]
    <3>1. SUFFICES ASSUME k # 0 PROVE k - 1 \notin Bad /\ k - 1 \in 0 .. NumPEs
      OBVIOUS
    <3> HIDE DEF Bad, f
    <3>2. k - 1 \in 0 .. NumPEs /\ ~ (k <= k - 1)
      BY <1>n, <2>2, <3>1
    <3> QED
      BY <2>1, <3>2
  <2> HIDE DEF f, Bad
  <2>4. turn(after, k) = turn(f, k)
    BY <2>3
  <2>5. f[k] = turn(f, k) /\ after[k] = turn(after, k)
    <3> HIDE DEF turn
    <3> QED
      BY <1>3, <1>7, <2>2
  <2> HIDE DEF turn
  <2> QED
    BY <2>2, <2>4, <2>5
<1>9. passed(t, NumPEs) = t.size
  <2>1. team_pe(t, z - 1) = s + d * (z - 1) /\ team_pe(t, z - 1) < NumPEs /\ d * (z - 1) \in Nat
    BY <1>1, TeamsAre
  <2>2. PICK x \in Nat : NumPEs - s = x + 1 /\ d * (z - 1) <= x
    <3>1. NumPEs - s - 1 \in Nat /\ NumPEs - s = (NumPEs - s - 1) + 1
                                 /\ d * (z - 1) <= NumPEs - s - 1
      BY <1>n, <2>1
    <3> QED
      BY <3>1
  <2>3. below(x + 1, d) = x \div d + 1 /\ x \div d \in Nat
    BY BelowNext
  <2>4. x \div d \in Nat /\ x % d \in 0 .. d - 1 /\ x = (x \div d) * d + (x % d)
    BY Divide
  <2>5. PICK q \in Nat, r \in 0 .. d - 1 : q = x \div d /\ x = q * d + r
    BY <2>4
  <2>6. z - 1 <= q
    <3> SUFFICES ASSUME q + 1 <= z - 1 PROVE FALSE
      OBVIOUS
    <3>1. d * (q + 1) <= d * (z - 1) /\ d * (q + 1) = q * d + d /\ q * d \in Nat
      OBVIOUS
    <3> QED
      BY <2>2, <2>5, <3>1
  <2>7. ~ (NumPEs <= s)
    BY <1>n, <2>2
  <2> QED
    BY <1>1, <2>2, <2>3, <2>5, <2>6, <2>7 DEF passed
<1>10. after[NumPEs] = found(t, passed(t, NumPEs))
  <2>1. NumPEs \in 0 .. NumPEs
    BY <1>n
  <2>2. f[NumPEs] = found(t, passed(t, NumPEs))
    BY <2>1
  <2> HIDE DEF f
  <2> QED
    BY <1>8, <2>1, <2>2
<1> QED
  BY <1>6, <1>9, <1>10

(* Wherever the PEs of a node are evenly spaced, each takes the team of all *)
(* of them for SHMEM_TEAM_SHARED, for any number of PEs and any stride:     *)
(* check_for_linear_stride finds start, stride and size of any such set.    *)
THEOREM SharedTeamsAgree == Spec => []SharedTeamIsNode
<1>1. SharedTeamIsNode
  <2> SUFFICES ASSUME NEW t \in Teams, MembersOf(t) = node, NEW me \in node
               PROVE  MembersOf(shared_team(node, NumPEs, me)) = node
    BY DEF SharedTeamIsNode
  <2>1. t.start \in Nat /\ t.stride \in Nat \ {0} /\ t.size \in Nat \ {0}
    BY TeamsAre
  <2>2. linear_stride(node, NumPEs) = found(t, t.size)
    BY LoopEnds
  <2>3. shared_team(node, NumPEs, me)
          = Team(t.start, IF t.size = 1 THEN 1 ELSE t.stride, t.size)
    BY <2>1, <2>2 DEF shared_team, found, Unset
  <2>4. MembersOf(shared_team(node, NumPEs, me)) = MembersOf(t)
    <3>1. CASE t.size = 1
      <4>1. 0 .. t.size - 1 = {0}
        BY <3>1
      <4> QED
        BY <2>1, <2>3, <3>1, <4>1 DEF MembersOf, team_pe, Team
    <3>2. CASE t.size # 1
      BY <2>1, <2>3, <3>2 DEF MembersOf, team_pe, Team
    <3> QED
      BY <3>1, <3>2
  <2> QED
    BY <2>4
<1> QED
  BY <1>1, PTL
=============================================================================
