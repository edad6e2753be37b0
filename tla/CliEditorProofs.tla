--------------------------- MODULE CliEditorProofs ---------------------------
(***************************************************************************)
(* Proofs about the line editor of the embedded CLI: its history decodes to *)
(* the commands one expects there, its lengths agree, the terminal shows    *)
(* the line, and a completion is what all candidates have in common.        *)
(***************************************************************************)
EXTENDS CliEditor, FiniteSetTheorems, SequenceTheorems, TLAPS

-----------------------------------------------------------------------------
(* Induction, for sets of numbers instead of predicates *)

\* A set of numbers has a least one.
LEMMA LeastNumber ==
  ASSUME NEW S, S \subseteq Nat, S # {}
  PROVE  \E m \in S : \A n \in S : m <= n
<1> DEFINE R == OpToRel(<, Nat)
<1>1. IsWellFoundedOn(R, Nat)
  BY NatLessThanWellFounded
<1>2. \A x, y \in Nat : <<y, x>> \in R <=> y < x
  BY DEF OpToRel
<1> HIDE DEF R
<1>3. PICK x \in S : \A y \in S : ~ (<<y, x>> \in R)
  BY <1>1, WFMin
<1>4. \A y \in S : ~ (y < x)
  BY <1>2, <1>3
<1> QED
  BY <1>4

\* Induction, of a set that has 0 and with each number the next.
LEMMA SetInduction ==
  ASSUME NEW S, 0 \in S, \A n \in Nat : n \in S => n + 1 \in S
  PROVE  Nat \subseteq S
<1>1. SUFFICES ASSUME Nat \ S # {} PROVE FALSE
  OBVIOUS
<1>2. PICK x \in Nat \ S : \A y \in Nat \ S : x <= y
  BY <1>1, LeastNumber
<1>3. x # 0 /\ x - 1 \in Nat /\ (x - 1) + 1 = x /\ ~ x <= x - 1
  OBVIOUS
<1>4. x - 1 \in S
  BY <1>2, <1>3
<1> QED
  BY <1>3, <1>4

\* What Min of the community modules chooses.
LEMMA MinOfNats ==
  ASSUME NEW S, S \subseteq Nat, S # {}
  PROVE  Min(S) \in S /\ \A n \in S : Min(S) <= n
BY LeastNumber DEF Min

\* What Max chooses, of a bounded set.
LEMMA MaxOfNats ==
  ASSUME NEW S, S \subseteq Nat, S # {}, NEW b \in Nat, \A n \in S : n <= b
  PROVE  Max(S) \in S /\ \A n \in S : n <= Max(S)
<1> DEFINE T == {n \in 0..b : b - n \in S}
<1>1. T \subseteq Nat
  OBVIOUS
<1>2. T # {}
  <2> PICK n \in S : TRUE
    OBVIOUS
  <2>1. b - n \in 0..b /\ b - (b - n) = n
    OBVIOUS
  <2>2. b - n \in T
    BY <2>1
  <2> QED BY <2>2
<1>3. PICK m \in T : \A n \in T : m <= n
  BY <1>1, <1>2, LeastNumber
<1>4. ASSUME NEW n \in S PROVE n <= b - m
  <2>1. b - n \in 0..b /\ b - (b - n) = n
    OBVIOUS
  <2> QED BY <1>3, <2>1
<1>5. b - m \in S /\ \A n \in S : b - m >= n
  BY <1>3, <1>4
<1> QED
  BY <1>5 DEF Max

\* The function that a recursion over 0..N defines exists.
Steps(N, V) == [1..N -> [V -> V]]
IsRecursive(f, N, v0, step) == \A n \in 0..N : f[n] = IF n = 0 THEN v0 ELSE step[n][f[n - 1]]

\* A recursion over 0..N defines a function, so that a CHOOSE of it may be unfolded.
LEMMA RecursionExists ==
  ASSUME NEW N \in Nat, NEW V, NEW v0 \in V, NEW step \in Steps(N, V)
  PROVE  \E f \in [0..N -> V] : IsRecursive(f, N, v0, step)
<1> DEFINE Good(f, m) == f \in [0..m -> V] /\ \A n \in 0..m : f[n] = IF n = 0 THEN v0 ELSE step[n][f[n - 1]]
           S == {m \in Nat : m <= N => \E f : Good(f, m)}
<1>1. 0 \in S
  <2> Good([n \in 0..0 |-> v0], 0)
    OBVIOUS
  <2> QED OBVIOUS
<1>2. ASSUME NEW m \in Nat, m \in S PROVE m + 1 \in S
  <2> SUFFICES ASSUME m + 1 <= N PROVE \E f : Good(f, m + 1)
    OBVIOUS
  <2>1. PICK f : Good(f, m)
    BY <1>2
  <2> DEFINE g == [n \in 0..m + 1 |-> IF n = m + 1 THEN step[m + 1][f[m]] ELSE f[n]]
  <2>2. m + 1 \in 1..N /\ f[m] \in V
    BY <2>1
  <2>3. step[m + 1][f[m]] \in V
    BY <2>2 DEF Steps
  <2>4. g \in [0..m + 1 -> V]
    BY <2>1, <2>3
  <2>5. ASSUME NEW n \in 0..m + 1 PROVE g[n] = IF n = 0 THEN v0 ELSE step[n][g[n - 1]]
    <3>1. CASE n = m + 1
      <4>1. g[n] = step[n][f[m]] /\ n # 0 /\ n - 1 = m /\ n - 1 \in 0..m + 1 /\ n - 1 # m + 1
        BY <3>1
      <4>2. g[n - 1] = f[m]
        BY <4>1
      <4> QED BY <4>1, <4>2
    <3>2. CASE n # m + 1 /\ n # 0
      <4>1. g[n] = f[n] /\ n \in 0..m /\ n - 1 \in 0..m + 1 /\ n - 1 # m + 1
        BY <3>2
      <4>2. g[n - 1] = f[n - 1]
        BY <4>1
      <4> QED BY <4>1, <4>2, <2>1, <3>2
    <3>3. CASE n = 0
      BY <3>3, <2>1
    <3> QED BY <3>1, <3>2, <3>3
  <2> HIDE DEF g
  <2> QED BY <2>4, <2>5
<1>3. Nat \subseteq S
  <2> HIDE DEF S
  <2> QED BY <1>1, <1>2, SetInduction
<1>4. PICK f : Good(f, N)
  <2>1. N \in S /\ N <= N
    BY <1>3
  <2> HIDE DEF Good
  <2> QED BY <2>1
<1> QED BY <1>4 DEF IsRecursive

-----------------------------------------------------------------------------
(* The bytes of the first commands *)

Commands == Seq(Seq(Letter))

Cells(commands, n) == UNION {{i} \X (0..Len(commands[i])) : i \in 1..n}

\* What it is to be a list of commands.
LEMMA CommandFacts ==
  ASSUME NEW c \in Commands
  PROVE  /\ Len(c) \in Nat /\ DOMAIN c = 1..Len(c)
         /\ \A i \in 1..Len(c) : /\ c[i] \in Seq(Letter) /\ Len(c[i]) \in Nat
                                 /\ DOMAIN c[i] = 1..Len(c[i])
                                 /\ \A j \in 1..Len(c[i]) : c[i][j] \in Letter
BY DEF Commands

\* A command of l characters takes l + 1 bytes.
LEMMA CellFacts ==
  ASSUME NEW i, NEW l \in Nat
  PROVE  IsFiniteSet({i} \X (0..l)) /\ Cardinality({i} \X (0..l)) = l + 1
<1> DEFINE one == {i}
           range == 0..l
<1>1. IsFiniteSet(one) /\ Cardinality(one) = 1
  BY FS_Singleton
<1>2. IsFiniteSet(range) /\ Cardinality(range) = l + 1
  <2>1. 0 \in Int /\ l \in Int /\ ~ 0 > l
    OBVIOUS
  <2>2. IsFiniteSet(0..l) /\ Cardinality(0..l) = IF 0 > l THEN 0 ELSE l - 0 + 1
    BY <2>1, FS_Interval
  <2> QED BY <2>1, <2>2
<1> HIDE DEF one, range
<1>3. IsFiniteSet(one \X range) /\ Cardinality(one \X range) = 1 * (l + 1)
  BY <1>1, <1>2, FS_Product
<1> QED BY <1>3 DEF one, range

\* One more command adds its own bytes, none of which was there.
LEMMA CellsNext ==
  ASSUME NEW c, NEW n \in Nat
  PROVE  /\ Cells(c, n + 1) = Cells(c, n) \cup ({n + 1} \X (0..Len(c[n + 1])))
         /\ Cells(c, n) \cap ({n + 1} \X (0..Len(c[n + 1]))) = {}
<1> DEFINE Cell(i) == {i} \X (0..Len(c[i]))
<1>1. \A k : \A x : x \in Cells(c, k) <=> \E i \in 1..k : x \in Cell(i)
  BY Zenon DEF Cells
<1>2. \A i, j, x : x \in Cell(i) /\ x \in Cell(j) => i = j
  OBVIOUS
<1> HIDE DEF Cell
<1>3. \A i : i \in 1..n + 1 <=> i \in 1..n \/ i = n + 1
  OBVIOUS
<1>4. n + 1 \notin 1..n
  OBVIOUS
<1>5. Cells(c, n + 1) = Cells(c, n) \cup Cell(n + 1)
  BY <1>1, <1>3
<1>6. Cells(c, n) \cap Cell(n + 1) = {}
  BY <1>1, <1>2, <1>4
<1> QED BY <1>5, <1>6 DEF Cell

LEMMA CellsFinite ==
  ASSUME NEW c \in Commands
  PROVE  \A n \in 0..Len(c) : IsFiniteSet(Cells(c, n))
<1> DEFINE S == {n \in Nat : n <= Len(c) => IsFiniteSet(Cells(c, n))}
<1>1. 0 \in S
  <2>1. Cells(c, 0) = {}
    BY DEF Cells
  <2> QED BY <2>1, FS_EmptySet
<1>2. ASSUME NEW n \in Nat, n \in S PROVE n + 1 \in S
  <2> SUFFICES ASSUME n + 1 <= Len(c) PROVE IsFiniteSet(Cells(c, n + 1))
    OBVIOUS
  <2>1. Len(c[n + 1]) \in Nat /\ IsFiniteSet(Cells(c, n))
    BY <1>2, CommandFacts
  <2>2. Cells(c, n + 1) = Cells(c, n) \cup ({n + 1} \X (0..Len(c[n + 1])))
    BY CellsNext
  <2>3. IsFiniteSet({n + 1} \X (0..Len(c[n + 1])))
    BY <2>1, CellFacts
  <2> DEFINE before == Cells(c, n)
             last == {n + 1} \X (0..Len(c[n + 1]))
  <2> HIDE DEF before, last
  <2>4. IsFiniteSet(before) /\ IsFiniteSet(last)
    BY <2>1, <2>3 DEF before, last
  <2>5. IsFiniteSet(before \cup last)
    BY <2>4, FS_Union
  <2> QED BY <2>2, <2>5 DEF before, last
<1>3. Nat \subseteq S
  <2> HIDE DEF S
  <2> QED BY <1>1, <1>2, SetInduction
<1> QED BY <1>3, CommandFacts

\* Bytes, as the sum it is.
LEMMA BytesFacts ==
  ASSUME NEW c \in Commands
  PROVE  /\ Bytes(c, 0) = 0
         /\ \A n \in 0..Len(c) : Bytes(c, n) \in Nat
         /\ \A n \in 1..Len(c) : Bytes(c, n) = Bytes(c, n - 1) + Len(c[n]) + 1
<1>1. \A n : Bytes(c, n) = Cardinality(Cells(c, n))
  BY DEF Bytes, Cells
<1>2. Bytes(c, 0) = 0
  <2>1. Cells(c, 0) = {}
    BY DEF Cells
  <2> QED BY <1>1, <2>1, FS_EmptySet
<1>3. \A n \in 0..Len(c) : Bytes(c, n) \in Nat
  BY <1>1, CellsFinite, FS_CardinalityType
<1>4. ASSUME NEW n \in 1..Len(c) PROVE Bytes(c, n) = Bytes(c, n - 1) + Len(c[n]) + 1
  <2> DEFINE last == {n} \X (0..Len(c[n]))
             before == Cells(c, n - 1)
  <2>0. Len(c) \in Nat /\ Len(c[n]) \in Nat /\ n - 1 \in 0..Len(c) /\ n - 1 \in Nat /\ (n - 1) + 1 = n
    <3> DEFINE m == Len(c)
    <3>1. m \in Nat /\ n \in 1..m /\ Len(c[n]) \in Nat
      BY CommandFacts
    <3> HIDE DEF m
    <3>2. n - 1 \in 0..m /\ n - 1 \in Nat /\ (n - 1) + 1 = n
      BY <3>1
    <3> QED BY <3>1, <3>2 DEF m
  <2>1. Cells(c, n) = before \cup last
    BY <2>0, CellsNext
  <2>2. before \cap last = {}
    BY <2>0, CellsNext
  <2>3. IsFiniteSet(last) /\ Cardinality(last) = Len(c[n]) + 1
    BY <2>0, CellFacts
  <2>4. IsFiniteSet(before) /\ Cardinality(before) \in Nat
    BY <2>0, CellsFinite, FS_CardinalityType
  <2> HIDE DEF last, before
  <2>5. Cardinality(before \cup last) = Cardinality(before) + Cardinality(last) - Cardinality(before \cap last)
    BY <2>3, <2>4, FS_Union
  <2>6. Cardinality(before \cap last) = 0
    BY <2>2, FS_EmptySet
  <2>7. Bytes(c, n) = Cardinality(before \cup last) /\ Bytes(c, n - 1) = Cardinality(before)
    BY <1>1, <2>1 DEF before
  <2> QED BY <2>0, <2>3, <2>4, <2>5, <2>6, <2>7
<1> QED BY <1>2, <1>3, <1>4

\* Each command lies behind the end of those before it.
LEMMA BytesIncrease ==
  ASSUME NEW c \in Commands, NEW m \in 0..Len(c), NEW n \in 0..Len(c), m < n
  PROVE  Bytes(c, m) + Len(c[m + 1]) + 1 <= Bytes(c, n)
<1> DEFINE S == {k \in Nat : m + 1 + k <= Len(c) => Bytes(c, m) + Len(c[m + 1]) + 1 <= Bytes(c, m + 1 + k)}
<1>0. Len(c) \in Nat /\ Bytes(c, m) \in Nat /\ m + 1 \in 1..Len(c) /\ Len(c[m + 1]) \in Nat
  BY BytesFacts, CommandFacts
<1>1. 0 \in S
  <2>1. Bytes(c, m + 1) = Bytes(c, (m + 1) - 1) + Len(c[m + 1]) + 1
    BY <1>0, BytesFacts
  <2>2. (m + 1) - 1 = m /\ m + 1 + 0 = m + 1
    OBVIOUS
  <2> QED BY <1>0, <2>1, <2>2
<1>2. ASSUME NEW k \in Nat, k \in S PROVE k + 1 \in S
  <2> SUFFICES ASSUME m + 1 + (k + 1) <= Len(c)
               PROVE  Bytes(c, m) + Len(c[m + 1]) + 1 <= Bytes(c, m + 1 + (k + 1))
    OBVIOUS
  <2> DEFINE i == m + 1 + (k + 1)
  <2>1. i \in 1..Len(c) /\ i - 1 = m + 1 + k /\ i - 1 \in 0..Len(c)
    BY <1>0
  <2>2. Bytes(c, i) = Bytes(c, i - 1) + Len(c[i]) + 1 /\ Bytes(c, i - 1) \in Nat /\ Len(c[i]) \in Nat
    BY <2>1, BytesFacts, CommandFacts
  <2>3. Bytes(c, m) + Len(c[m + 1]) + 1 <= Bytes(c, i - 1)
    BY <1>0, <1>2, <2>1
  <2> DEFINE first == Bytes(c, m) + Len(c[m + 1]) + 1
             before == Bytes(c, i - 1)
             last == Len(c[i])
  <2> HIDE DEF i
  <2>4. before \in Nat /\ last \in Nat /\ Bytes(c, i) = before + last + 1 /\ first <= before
    BY <2>2, <2>3
  <2>5. first \in Nat
    BY <1>0
  <2> HIDE DEF first, before, last
  <2>6. first <= Bytes(c, i)
    BY <2>4, <2>5
  <2> QED BY <2>6 DEF i, first
<1>3. Nat \subseteq S
  <2> HIDE DEF S
  <2> QED BY <1>1, <1>2, SetInduction
<1>4. n - m - 1 \in Nat /\ m + 1 + (n - m - 1) = n
  BY <1>0
<1>5. n - m - 1 \in S
  BY <1>3, <1>4
<1> QED BY <1>0, <1>4, <1>5

LEMMA BytesMonotone ==
  ASSUME NEW c \in Commands, NEW m \in 0..Len(c), NEW n \in 0..Len(c), m <= n
  PROVE  Bytes(c, m) <= Bytes(c, n)
<1> DEFINE x == Bytes(c, m)
           y == Bytes(c, n)
           len == Len(c[m + 1])
<1>1. Len(c) \in Nat /\ x \in Nat /\ y \in Nat
  BY BytesFacts, CommandFacts
<1>2. CASE m = n
  BY <1>1, <1>2
<1>3. CASE m < n
  <2>1. m + 1 \in 1..Len(c)
    BY <1>1, <1>3
  <2>2. len \in Nat /\ x + len + 1 <= y
    BY <1>3, <2>1, BytesIncrease, CommandFacts
  <2> HIDE DEF x, y, len
  <2>3. x <= y
    BY <1>1, <2>2
  <2> QED BY <2>3 DEF x, y
<1> QED BY <1>1, <1>2, <1>3

-----------------------------------------------------------------------------
(* What the buffer holds *)

\* The commands lie in the buffer one behind the other, each ended by a NUL.
Holds(buf, commands) ==
  /\ commands \in Commands
  /\ buf \in [0..HistorySize - 1 -> Letter \cup {NUL}]
  /\ Bytes(commands, Len(commands)) <= HistorySize
  /\ \A n \in 1..Len(commands) :
       /\ \A j \in 1..Len(commands[n]) : buf[Bytes(commands, n - 1) + j - 1] = commands[n][j]
       /\ buf[Bytes(commands, n) - 1] = NUL

Distinct(commands) == \A i, j \in DOMAIN commands : commands[i] = commands[j] => i = j

\* The commands lie one behind the other, and within the buffer.
LEMMA HoldsFacts ==
  ASSUME NEW buf, NEW c, Holds(buf, c)
  PROVE  /\ c \in Commands /\ Len(c) \in Nat /\ HistorySize \in Nat /\ DOMAIN buf = 0..HistorySize - 1
         /\ \A n \in 1..Len(c) : /\ Bytes(c, n - 1) \in Nat /\ Bytes(c, n) \in Nat /\ Len(c[n]) \in Nat
                                 /\ Bytes(c, n) = Bytes(c, n - 1) + Len(c[n]) + 1
                                 /\ Bytes(c, n) <= HistorySize
<1>1. c \in Commands /\ HistorySize \in Nat /\ DOMAIN buf = 0..HistorySize - 1
  BY HistoryAssumption DEF Holds
<1>2. Len(c) \in Nat
  BY <1>1, CommandFacts
<1>3. ASSUME NEW n \in 1..Len(c)
      PROVE  /\ Bytes(c, n - 1) \in Nat /\ Bytes(c, n) \in Nat /\ Len(c[n]) \in Nat
             /\ Bytes(c, n) = Bytes(c, n - 1) + Len(c[n]) + 1
             /\ Bytes(c, n) <= HistorySize
  <2>1. n \in 0..Len(c) /\ n - 1 \in 0..Len(c) /\ Len(c) \in 0..Len(c)
    BY <1>2
  <2>2. Bytes(c, n - 1) \in Nat /\ Bytes(c, n) \in Nat /\ Len(c[n]) \in Nat /\ Bytes(c, Len(c)) \in Nat
    BY <1>1, <2>1, BytesFacts, CommandFacts
  <2>3. Bytes(c, n) <= Bytes(c, Len(c))
    BY <1>1, <2>1, BytesMonotone
  <2>4. Bytes(c, Len(c)) <= HistorySize
    BY DEF Holds
  <2>5. Bytes(c, n) = Bytes(c, n - 1) + Len(c[n]) + 1
    BY <1>1, BytesFacts
  <2> QED BY <1>1, <2>2, <2>3, <2>4, <2>5
<1> QED BY <1>1, <1>2, <1>3

\* A command and its end lie in the buffer from p on.
Lies(buf, p, item) ==
  /\ \A j \in 1..Len(item) : buf[p + j - 1] = item[j]
  /\ buf[p + Len(item)] = NUL

LEMMA ItemsLie ==
  ASSUME NEW buf, NEW c \in Commands, NEW n \in 1..Len(c)
  PROVE  Lies(buf, Bytes(c, n - 1), c[n]) <=> /\ \A j \in 1..Len(c[n]) : buf[Bytes(c, n - 1) + j - 1] = c[n][j]
                                              /\ buf[Bytes(c, n) - 1] = NUL
<1> DEFINE p == Bytes(c, n - 1)
           q == Bytes(c, n)
           len == Len(c[n])
<1>1. Len(c) \in Nat /\ len \in Nat
  BY CommandFacts
<1>2. n - 1 \in 0..Len(c)
  BY <1>1
<1>3. p \in Nat /\ q = p + len + 1
  BY <1>2, BytesFacts
<1> HIDE DEF p, q, len
<1>4. q - 1 = p + len
  BY <1>1, <1>3
<1> QED BY <1>4 DEF Lies, p, q, len

\* A command that is copied byte by byte, its end too, lies where it was copied to.
LEMMA LiesMoved ==
  ASSUME NEW old, NEW new, NEW p \in Int, NEW q \in Int, NEW item, Len(item) \in Nat,
         Lies(old, p, item), \A i \in 0..Len(item) : new[q + i] = old[p + i]
  PROVE  Lies(new, q, item)
<1> DEFINE len == Len(item)
<1>1. ASSUME NEW j \in 1..len PROVE new[q + j - 1] = item[j]
  <2>1. j - 1 \in 0..len /\ q + j - 1 = q + (j - 1) /\ p + j - 1 = p + (j - 1)
    OBVIOUS
  <2>2. old[p + (j - 1)] = item[j]
    BY <2>1 DEF Lies
  <2> QED BY <2>1, <2>2
<1>2. new[q + len] = NUL
  <2>1. len \in 0..len
    OBVIOUS
  <2> QED BY <2>1 DEF Lies
<1> QED BY <1>1, <1>2 DEF Lies

\* The ends of the first m commands are the NULs among their bytes.
Ends(buf, i) == {j \in 0..i - 1 : buf[j] = NUL}

LEMMA EndsNext ==
  ASSUME NEW buf, NEW c, Holds(buf, c), NEW n \in 1..Len(c)
  PROVE  Ends(buf, Bytes(c, n)) = Ends(buf, Bytes(c, n - 1)) \cup {Bytes(c, n) - 1}
<1> DEFINE p == Bytes(c, n - 1)
           q == Bytes(c, n)
           len == Len(c[n])
<1>1. p \in Nat /\ q \in Nat /\ len \in Nat /\ q = p + len + 1
  BY HoldsFacts
<1>2. buf[q - 1] = NUL /\ \A j \in 1..len : buf[p + j - 1] = c[n][j]
  BY DEF Holds
<1>3. \A j \in 1..len : c[n][j] # NUL
  BY CommandFacts, EditorAssumption DEF Holds
<1> HIDE DEF p, q, len
<1>4. ASSUME NEW i \in p..q - 2 PROVE buf[i] # NUL
  <2>1. i - p + 1 \in 1..len /\ p + (i - p + 1) - 1 = i
    BY <1>1
  <2> QED BY <2>1, <1>2, <1>3
<1>5. \A i : i \in 0..q - 1 <=> i \in 0..p - 1 \/ i \in p..q - 2 \/ i = q - 1
  BY <1>1
<1>6. Ends(buf, q) = Ends(buf, p) \cup {q - 1}
  BY <1>2, <1>4, <1>5 DEF Ends
<1> QED BY <1>6 DEF p, q

\* Among the bytes of the first n commands there are n NULs.
LEMMA EndsCount ==
  ASSUME NEW buf, NEW c, Holds(buf, c)
  PROVE  \A n \in 0..Len(c) : Cardinality(Ends(buf, Bytes(c, n))) = n
<1> DEFINE S == {n \in Nat : n <= Len(c) => /\ IsFiniteSet(Ends(buf, Bytes(c, n)))
                                            /\ Cardinality(Ends(buf, Bytes(c, n))) = n}
<1>0. c \in Commands /\ Len(c) \in Nat
  BY HoldsFacts
<1>1. 0 \in S
  <2>1. Ends(buf, Bytes(c, 0)) = {}
    BY <1>0, BytesFacts DEF Ends
  <2> QED BY <2>1, FS_EmptySet
<1>2. ASSUME NEW n \in Nat, n \in S PROVE n + 1 \in S
  <2> SUFFICES ASSUME n + 1 <= Len(c)
               PROVE  /\ IsFiniteSet(Ends(buf, Bytes(c, n + 1)))
                      /\ Cardinality(Ends(buf, Bytes(c, n + 1))) = n + 1
    OBVIOUS
  <2> DEFINE m == n + 1
             Z == Ends(buf, Bytes(c, n))
             e == Bytes(c, m) - 1
  <2>1. m \in 1..Len(c) /\ m - 1 = n /\ n <= Len(c)
    BY <1>0
  <2>2. Ends(buf, Bytes(c, m)) = Z \cup {e}
    BY <2>1, EndsNext
  <2>3. e \notin Z
    <3>1. Bytes(c, n) \in Nat /\ Bytes(c, m) \in Nat /\ Bytes(c, m) > Bytes(c, n)
      BY <2>1, HoldsFacts
    <3>2. e \notin 0..Bytes(c, n) - 1
      BY <3>1
    <3> QED BY <3>2 DEF Ends
  <2>4. IsFiniteSet(Z) /\ Cardinality(Z) = n
    BY <1>2, <2>1
  <2> HIDE DEF Z, e
  <2>5. IsFiniteSet(Z \cup {e}) /\ Cardinality(Z \cup {e}) = n + 1
    BY <2>3, <2>4, FS_AddElement
  <2> QED BY <2>2, <2>5
<1>3. Nat \subseteq S
  <2> HIDE DEF S
  <2> QED BY <1>1, <1>2, SetInduction
<1> QED BY <1>0, <1>3

LEMMA EndsGrow ==
  ASSUME NEW buf, NEW i \in Nat, NEW k \in Nat, i < k, buf[k - 1] = NUL
  PROVE  Cardinality(Ends(buf, i)) # Cardinality(Ends(buf, k))
<1>1. IsFiniteSet(Ends(buf, k))
  <2>1. IsFiniteSet(0..k - 1)
    BY FS_Interval
  <2>2. Ends(buf, k) \subseteq 0..k - 1
    BY DEF Ends
  <2> QED BY <2>1, <2>2, FS_Subset
<1>2. Ends(buf, i) \subseteq Ends(buf, k)
  <2>1. 0..i - 1 \subseteq 0..k - 1
    OBVIOUS
  <2> QED BY <2>1 DEF Ends
<1>3. k - 1 \in Ends(buf, k) /\ k - 1 \notin Ends(buf, i)
  <2>1. k - 1 \in 0..k - 1 /\ k - 1 \notin 0..i - 1
    OBVIOUS
  <2> QED BY <2>1 DEF Ends
<1> QED BY <1>1, <1>2, <1>3, FS_Subset

\* Counting NULs (getTokenPosition) finds where the n-th command begins.
LEMMA StartOfItem ==
  ASSUME NEW buf, NEW c, Holds(buf, c), NEW n \in 1..Len(c)
  PROVE  Start(buf, n) = Bytes(c, n - 1)
<1>0. /\ c \in Commands /\ Len(c) \in Nat /\ HistorySize \in Nat /\ DOMAIN buf = 0..HistorySize - 1
  BY HoldsFacts
<1>1. CASE n = 1
  <2>1. Bytes(c, 0) = 0
    BY <1>0, BytesFacts
  <2> QED BY <1>1, <2>1 DEF Start
<1>2. CASE n # 1
  <2> DEFINE p == Bytes(c, n - 1)
             m == n - 1
  <2>1. m \in 1..Len(c) /\ m \in 0..Len(c) /\ m \in Nat
    BY <1>0, <1>2
  <2>2. p \in Nat /\ p > 0
    BY <2>1, HoldsFacts
  <2>3. p <= HistorySize - 1
    <3>1. Bytes(c, n) = p + Len(c[n]) + 1 /\ Len(c[n]) \in Nat /\ Bytes(c, n) <= HistorySize
      BY HoldsFacts
    <3> HIDE DEF p
    <3> QED BY <1>0, <2>2, <3>1
  <2>4. buf[p - 1] = NUL
    BY <2>1 DEF Holds
  <2>5. Cardinality(Ends(buf, p)) = n - 1
    BY <2>1, EndsCount
  <2> HIDE DEF p
  <2>6. p \in DOMAIN buf \ {0}
    BY <1>0, <2>2, <2>3
  <2>7. ASSUME NEW i \in DOMAIN buf \ {0}, buf[i - 1] = NUL, Cardinality(Ends(buf, i)) = n - 1
        PROVE  i = p
    <3>1. i \in Nat
      BY <1>0
    <3>2. i < p \/ p < i \/ i = p
      BY <2>2, <3>1
    <3>3. CASE i < p
      BY <2>2, <2>4, <2>5, <2>7, <3>1, <3>3, EndsGrow
    <3>4. CASE p < i
      BY <2>2, <2>5, <2>7, <3>1, <3>4, EndsGrow
    <3> QED BY <3>2, <3>3, <3>4
  <2>8. Start(buf, n) = CHOOSE i \in DOMAIN buf \ {0} : buf[i - 1] = NUL /\ Cardinality(Ends(buf, i)) = n - 1
    BY <1>2 DEF Start, Ends
  <2>9. Start(buf, n) = p
    BY <2>4, <2>5, <2>6, <2>7, <2>8
  <2> QED BY <2>9 DEF p
<1> QED BY <1>1, <1>2

\* strlen, from there, returns the command's length.
LEMMA LengthOfItem ==
  ASSUME NEW buf, NEW c, Holds(buf, c), NEW n \in 1..Len(c)
  PROVE  StringLength(buf, Bytes(c, n - 1)) = Len(c[n])
<1> DEFINE p == Bytes(c, n - 1)
           len == Len(c[n])
<1>1. p \in Nat /\ len \in Nat /\ Bytes(c, n) = p + len + 1 /\ Bytes(c, n) <= HistorySize /\ HistorySize \in Nat
  BY HoldsFacts
<1>2. buf[Bytes(c, n) - 1] = NUL /\ \A j \in 1..len : buf[p + j - 1] = c[n][j]
  BY DEF Holds
<1>3. \A j \in 1..len : c[n][j] # NUL
  BY CommandFacts, EditorAssumption DEF Holds
<1> HIDE DEF p, len
<1>4. buf[p + len] = NUL
  <2>1. Bytes(c, n) - 1 = p + len
    BY <1>1
  <2> QED BY <1>2, <2>1
<1>5. ASSUME NEW j \in 0..len - 1 PROVE buf[p + j] # NUL
  <2>1. j + 1 \in 1..len /\ p + (j + 1) - 1 = p + j
    BY <1>1
  <2> QED BY <1>2, <1>3, <2>1
<1>6. len \in 0..HistorySize
  BY <1>1
<1>7. ASSUME NEW k \in 0..HistorySize, buf[p + k] = NUL, \A j \in 0..k - 1 : buf[p + j] # NUL
      PROVE  k = len
  <2>1. ~ k < len
    BY <1>1, <1>5, <1>7
  <2>2. ~ len < k
    BY <1>1, <1>4, <1>7
  <2> QED BY <1>1, <2>1, <2>2
<1>8. StringLength(buf, p) = len
  BY <1>4, <1>5, <1>6, <1>7 DEF StringLength
<1> QED BY <1>8 DEF p, len

\* historyGet returns the n-th command, and historyPut takes it to end where it does.
LEMMA Decode ==
  ASSUME NEW h, NEW c, Holds(h.buf, c), NEW n \in 1..Len(c)
  PROVE  /\ ItemAt(h, n) = c[n]
         /\ UsedSize(h, n) = Bytes(c, n)
<1> DEFINE p == Bytes(c, n - 1)
           len == Len(c[n])
<1>1. p \in Nat /\ len \in Nat /\ Bytes(c, n) = p + len + 1 /\ n # 0
  BY HoldsFacts
<1>2. Start(h.buf, n) = p /\ StringLength(h.buf, p) = len
  BY StartOfItem, LengthOfItem
<1>3. \A j \in 1..len : h.buf[p + j - 1] = c[n][j]
  BY DEF Holds
<1>4. c[n] = [j \in 1..len |-> c[n][j]]
  BY CommandFacts DEF Holds
<1> HIDE DEF p, len
<1>5. ItemAt(h, n) = [j \in 1..len |-> h.buf[p + j - 1]]
  BY <1>2 DEF ItemAt
<1>6. UsedSize(h, n) = p + len + 1
  BY <1>1, <1>2 DEF UsedSize
<1> QED BY <1>1, <1>3, <1>4, <1>5, <1>6

-----------------------------------------------------------------------------
(* Removing a command *)

\* A sequence without one of its elements.
LEMMA RemoveAtFacts ==
  ASSUME NEW T, NEW s \in Seq(T), NEW k \in 1..Len(s)
  PROVE  /\ RemoveAt(s, k) \in Seq(T)
         /\ Len(RemoveAt(s, k)) = Len(s) - 1
         /\ \A i \in 1..Len(s) - 1 : RemoveAt(s, k)[i] = IF i < k THEN s[i] ELSE s[i + 1]
<1> DEFINE a == SubSeq(s, 1, k - 1)
           b == SubSeq(s, k + 1, Len(s))
<1>1. a \in Seq(T) /\ Len(a) = k - 1 /\ \A i \in 1..k - 1 : a[i] = s[i]
  OBVIOUS
<1>2. b \in Seq(T) /\ Len(b) = Len(s) - k /\ \A i \in 1..Len(s) - k : b[i] = s[k + i]
  OBVIOUS
<1>3. RemoveAt(s, k) = a \o b
  BY DEF RemoveAt
<1> HIDE DEF a, b
<1>4. a \o b \in Seq(T) /\ Len(a \o b) = Len(s) - 1
  <2>1. a \o b \in Seq(T) /\ Len(a \o b) = Len(a) + Len(b)
    BY <1>1, <1>2, ConcatProperties
  <2>2. Len(s) \in Nat
    OBVIOUS
  <2> QED BY <1>1, <1>2, <2>1, <2>2
<1>5. ASSUME NEW i \in 1..Len(s) - 1 PROVE (a \o b)[i] = IF i < k THEN s[i] ELSE s[i + 1]
  <2>1. CASE i < k
    BY <1>1, <1>2, <2>1
  <2>2. CASE ~ i < k
    <3>1. (a \o b)[i] = b[i - (k - 1)]
      BY <1>1, <1>2, <2>2
    <3>2. i - (k - 1) \in 1..Len(s) - k /\ k + (i - (k - 1)) = i + 1
      BY <2>2
    <3> QED BY <3>1, <3>2, <1>2, <2>2
  <2> QED BY <2>1, <2>2
<1> QED BY <1>3, <1>4, <1>5

\* The bytes of a list that lacks one command.
LEMMA BytesRemoved ==
  ASSUME NEW c \in Commands, NEW k \in 1..Len(c), NEW d, d = RemoveAt(c, k)
  PROVE  \A n \in 0..Len(c) - 1 : Bytes(d, n) = IF n < k THEN Bytes(c, n) ELSE Bytes(c, n + 1) - Len(c[k]) - 1
<1> DEFINE Shift(n) == IF n < k THEN Bytes(c, n) ELSE Bytes(c, n + 1) - Len(c[k]) - 1
           S == {n \in Nat : n <= Len(c) - 1 => Bytes(d, n) = Shift(n)}
<1>0. /\ Len(c) \in Nat /\ d \in Commands /\ Len(d) = Len(c) - 1
      /\ \A i \in 1..Len(c) - 1 : d[i] = IF i < k THEN c[i] ELSE c[i + 1]
  BY CommandFacts, RemoveAtFacts DEF Commands
<1>1. 0 \in S
  <2>1. Bytes(d, 0) = 0 /\ Bytes(c, 0) = 0 /\ 0 < k
    BY <1>0, BytesFacts
  <2> QED BY <2>1
<1>2. ASSUME NEW n \in Nat, n \in S PROVE n + 1 \in S
  <2> SUFFICES ASSUME n + 1 <= Len(c) - 1 PROVE Bytes(d, n + 1) = Shift(n + 1)
    OBVIOUS
  <2> DEFINE m == n + 1
  <2>1. m \in Nat /\ m - 1 = n /\ m \in 1..Len(d) /\ m \in 1..Len(c) /\ m + 1 \in 1..Len(c) /\ n \in 0..Len(c)
    BY <1>0
  <2>2. Bytes(d, m) = Bytes(d, n) + Len(d[m]) + 1
    BY <1>0, <2>1, BytesFacts
  <2>3. /\ Bytes(c, m) = Bytes(c, n) + Len(c[m]) + 1
        /\ Bytes(c, m + 1) = Bytes(c, m) + Len(c[m + 1]) + 1
        /\ Bytes(c, n) \in Nat /\ Bytes(c, m) \in Nat /\ Bytes(c, m + 1) \in Nat
        /\ Len(c[m]) \in Nat /\ Len(c[m + 1]) \in Nat /\ Len(c[k]) \in Nat
    <3>1. (m + 1) - 1 = m /\ m + 1 \in 0..Len(c) /\ m \in 0..Len(c)
      BY <2>1
    <3>2. Bytes(c, m + 1) = Bytes(c, (m + 1) - 1) + Len(c[m + 1]) + 1
      BY <2>1, BytesFacts
    <3> QED BY <2>1, <3>1, <3>2, BytesFacts, CommandFacts
  <2>4. Bytes(d, n) = Shift(n)
    BY <1>0, <1>2, <2>1
  <2>5. d[m] = IF m < k THEN c[m] ELSE c[m + 1]
    BY <1>0, <2>1
  <2> DEFINE b0 == Bytes(c, n)
             b1 == Bytes(c, m)
             b2 == Bytes(c, m + 1)
             l1 == Len(c[m])
             l2 == Len(c[m + 1])
             lk == Len(c[k])
  <2>6. b0 \in Nat /\ b1 = b0 + l1 + 1 /\ b2 = b1 + l2 + 1 /\ l1 \in Nat /\ l2 \in Nat /\ lk \in Nat
    BY <2>3
  <2>7. CASE m < k
    <3>1. n < k
      BY <2>1, <2>7
    <3>2. Bytes(d, m) = Bytes(c, n) + Len(c[m]) + 1
      BY <3>1, <2>2, <2>4, <2>5, <2>7
    <3> QED BY <3>2, <2>3, <2>7
  <2>8. CASE m = k
    <3>1. n < k /\ ~ m < k /\ l1 = lk
      BY <2>1, <2>8
    <3>2. Bytes(d, m) = b0 + l2 + 1
      BY <3>1, <2>2, <2>4, <2>5
    <3> HIDE DEF b0, b1, b2, l1, l2, lk, m
    <3>3. Bytes(d, m) = b2 - lk - 1
      BY <3>1, <3>2, <2>6
    <3> QED BY <3>1, <3>3 DEF b2, lk, m
  <2>9. CASE m > k
    <3>1. ~ n < k /\ ~ m < k /\ n + 1 = m
      BY <2>1, <2>9
    <3>2. Bytes(d, m) = (b1 - lk - 1) + l2 + 1
      BY <3>1, <2>2, <2>4, <2>5
    <3> HIDE DEF b0, b1, b2, l1, l2, lk, m
    <3>3. Bytes(d, m) = b2 - lk - 1
      BY <3>2, <2>6
    <3> QED BY <3>1, <3>3 DEF b2, lk, m
  <2>10. Bytes(d, m) = Shift(m)
    BY <2>1, <2>7, <2>8, <2>9
  <2> QED BY <2>10
<1>3. Nat \subseteq S
  <2> HIDE DEF S
  <2> QED BY <1>1, <1>2, SetInduction
<1> QED BY <1>0, <1>3

\* historyRemove takes the command out of the buffer, and nothing else.
LEMMA RemoveKeepsHolding ==
  ASSUME NEW h, NEW c, h.count = Len(c), Holds(h.buf, c), Distinct(c), NEW str \in Seq(Letter)
  PROVE  LET rest == HistoryRemove(h, str)
             d == Without(c, str)
         IN  /\ rest.count = Len(d) /\ Holds(rest.buf, d) /\ Distinct(d)
             /\ \A i \in DOMAIN d : d[i] # str
<1> DEFINE rest == HistoryRemove(h, str)
           d == Without(c, str)
           found == {n \in 1..h.count : ItemAt(h, n) = str}
<1>0. c \in Commands /\ Len(c) \in Nat /\ DOMAIN c = 1..Len(c) /\ HistorySize \in Nat /\ DOMAIN h.buf = 0..HistorySize - 1
  BY HoldsFacts, CommandFacts
<1>1. found = {n \in 1..Len(c) : c[n] = str}
  BY Decode
<1>2. CASE found = {}
  <2>1. str \notin ToSet(c)
    BY <1>0, <1>1, <1>2 DEF ToSet
  <2>2. rest = h /\ d = c
    BY <1>2, <2>1 DEF HistoryRemove, Without
  <2>3. \A i \in DOMAIN c : c[i] # str
    BY <1>0, <1>1, <1>2
  <2> QED BY <2>2, <2>3
<1>3. CASE found # {}
  <2>1. PICK k \in 1..Len(c) : c[k] = str
    BY <1>1, <1>3
  <2>2. found = {k}
    BY <1>0, <1>1, <2>1 DEF Distinct
  <2>3. Min(found) = k
    BY <2>2 DEF Min
  <2>4. d = RemoveAt(c, k)
    <3>1. str \in ToSet(c)
      BY <1>0, <2>1 DEF ToSet
    <3>2. (CHOOSE i \in DOMAIN c : c[i] = str) = k
      BY <1>0, <2>1 DEF Distinct
    <3> QED BY <3>1, <3>2 DEF Without
  <2>5. /\ d \in Commands /\ Len(d) = Len(c) - 1 /\ DOMAIN d = 1..Len(c) - 1
        /\ \A i \in 1..Len(c) - 1 : d[i] = IF i < k THEN c[i] ELSE c[i + 1]
    <3>1. d \in Commands /\ Len(d) = Len(c) - 1 /\ \A i \in 1..Len(c) - 1 : d[i] = IF i < k THEN c[i] ELSE c[i + 1]
      BY <1>0, <2>4, RemoveAtFacts DEF Commands
    <3> QED BY <3>1, CommandFacts
  <2>6. Distinct(d) /\ \A i \in DOMAIN d : d[i] # str
    <3>1. ASSUME NEW i \in 1..Len(c) - 1, NEW j \in 1..Len(c) - 1, d[i] = d[j] PROVE i = j
      <4>1. /\ IF i < k THEN i \in 1..Len(c) ELSE i + 1 \in 1..Len(c)
            /\ IF j < k THEN j \in 1..Len(c) ELSE j + 1 \in 1..Len(c)
        BY <1>0
      <4>2. (IF i < k THEN c[i] ELSE c[i + 1]) = (IF j < k THEN c[j] ELSE c[j + 1])
        BY <2>5, <3>1
      <4> QED BY <4>1, <4>2, <1>0 DEF Distinct
    <3>2. ASSUME NEW i \in 1..Len(c) - 1 PROVE d[i] # str
      <4>1. IF i < k THEN i \in 1..Len(c) /\ i # k ELSE i + 1 \in 1..Len(c) /\ i + 1 # k
        BY <1>0
      <4> QED BY <4>1, <2>1, <2>5, <1>0 DEF Distinct
    <3> QED BY <2>5, <3>1, <3>2 DEF Distinct
  <2>7. \A n \in 0..Len(c) - 1 : Bytes(d, n) = IF n < k THEN Bytes(c, n) ELSE Bytes(c, n + 1) - Len(c[k]) - 1
    BY <1>0, <2>4, BytesRemoved
  <2>8. Bytes(d, Len(d)) <= HistorySize
    <3> DEFINE l == Len(c) - 1
    <3>1. l \in 0..Len(c) - 1 /\ l \in 0..Len(c) /\ l + 1 = Len(c) /\ Len(c) \in 0..Len(c) /\ l <= Len(c)
      BY <1>0
    <3>2. Bytes(c, l) \in Nat /\ Bytes(c, Len(c)) \in Nat /\ Bytes(c, l) <= Bytes(c, Len(c)) /\ Len(c[k]) \in Nat
      BY <1>0, <3>1, BytesFacts, BytesMonotone, CommandFacts
    <3>3. Bytes(c, Len(c)) <= HistorySize
      BY DEF Holds
    <3>4. Bytes(d, l) = Bytes(c, l) \/ Bytes(d, l) = Bytes(c, Len(c)) - Len(c[k]) - 1
      BY <2>7, <3>1
    <3> DEFINE x == Bytes(c, l)
               y == Bytes(c, Len(c))
               z == Len(c[k])
    <3>5. x \in Nat /\ y \in Nat /\ x <= y /\ z \in Nat /\ y <= HistorySize /\ (Bytes(d, l) = x \/ Bytes(d, l) = y - z - 1)
      BY <3>2, <3>3, <3>4
    <3>6. Len(d) = l
      BY <2>5
    <3> HIDE DEF l, d, x, y, z
    <3>7. Bytes(d, l) <= HistorySize
      BY <1>0, <3>5
    <3> QED BY <3>6, <3>7
  <2>9. CASE k = Len(c)
    <3>1. rest = [h EXCEPT !.count = @ - 1]
      BY <1>3, <2>3, <2>9 DEF HistoryRemove
    <3>2. rest.count = Len(d) /\ rest.buf = h.buf
      BY <3>1, <2>5
    <3>3. ASSUME NEW n \in 1..Len(d)
          PROVE  /\ \A j \in 1..Len(d[n]) : h.buf[Bytes(d, n - 1) + j - 1] = d[n][j]
                 /\ h.buf[Bytes(d, n) - 1] = NUL
      <4>1. n \in 1..Len(c) /\ n < k /\ n - 1 < k /\ n \in 1..Len(c) - 1 /\ n \in 0..Len(c) - 1 /\ n - 1 \in 0..Len(c) - 1
        BY <1>0, <2>5, <2>9
      <4>2. d[n] = c[n] /\ Bytes(d, n) = Bytes(c, n) /\ Bytes(d, n - 1) = Bytes(c, n - 1)
        BY <4>1, <2>5, <2>7
      <4> QED BY <4>1, <4>2 DEF Holds
    <3>4. Holds(rest.buf, d)
      <4>1. h.buf \in [0..HistorySize - 1 -> Letter \cup {NUL}]
        BY DEF Holds
      <4> QED BY <2>5, <2>8, <3>2, <3>3, <4>1 DEF Holds
    <3> QED BY <2>6, <3>2, <3>4
  <2>10. CASE k # Len(c)
    <3> DEFINE s == Bytes(c, k - 1)
               e == Bytes(c, k)
    <3>1. /\ s \in Nat /\ e \in Nat /\ e = s + Len(c[k]) + 1 /\ e <= HistorySize
          /\ Len(c[k]) \in Nat /\ s + Len(str) + 1 = e
      BY <2>1, HoldsFacts
    <3>2. rest = [h EXCEPT !.count = @ - 1, !.buf = Move(@, s, e, HistorySize - e)]
      <4>1. Start(h.buf, k) = s
        BY StartOfItem
      <4> HIDE DEF s, e
      <4> QED BY <1>3, <2>3, <2>10, <3>1, <4>1 DEF HistoryRemove
    <3>3. rest.count = Len(d) /\ rest.buf = Move(h.buf, s, e, HistorySize - e)
      BY <3>2, <2>5 DEF Move
    <3> HIDE DEF s, e
    <3> DEFINE buf == rest.buf
               size == HistorySize
    <3>4. /\ buf \in [0..size - 1 -> Letter \cup {NUL}]
          /\ \A i \in 0..s - 1 : buf[i] = h.buf[i]
          /\ \A i \in e..size - 1 : buf[i - (e - s)] = h.buf[i]
      <4>1. h.buf \in [0..size - 1 -> Letter \cup {NUL}]
        BY DEF Holds
      <4>2. s..s + (size - e) - 1 \subseteq 0..size - 1 /\ (0..size - 1) \cup s..s + (size - e) - 1 = 0..size - 1
        BY <1>0, <3>1
      <4>3. buf = [i \in 0..size - 1 |-> IF i \in s..s + (size - e) - 1 THEN h.buf[i - s + e] ELSE h.buf[i]]
        BY <3>3, <4>1, <4>2 DEF Move
      <4> HIDE DEF buf
      <4>4. ASSUME NEW i \in 0..size - 1 PROVE buf[i] \in Letter \cup {NUL}
        <5>1. i \in s..s + (size - e) - 1 => i - s + e \in 0..size - 1
          BY <1>0, <3>1
        <5> QED BY <4>1, <4>3, <5>1
      <4>5. \A i \in 0..s - 1 : i \in 0..size - 1 /\ i \notin s..s + (size - e) - 1
        BY <1>0, <3>1
      <4>6. ASSUME NEW i \in e..size - 1 PROVE buf[i - (e - s)] = h.buf[i]
        <5> DEFINE j == i - (e - s)
        <5>1. j \in 0..size - 1 /\ j \in s..s + (size - e) - 1 /\ j - s + e = i
          BY <1>0, <3>1
        <5> HIDE DEF j
        <5>2. buf[j] = h.buf[i]
          BY <4>3, <5>1
        <5> QED BY <5>2 DEF j
      <4> QED BY <4>3, <4>4, <4>5, <4>6
    <3>5. ASSUME NEW n \in 1..Len(d), n < k PROVE Lies(buf, Bytes(d, n - 1), d[n])
      <4> DEFINE p == Bytes(c, n - 1)
                 item == c[n]
                 len == Len(item)
      <4>1. n \in 1..Len(c) /\ n - 1 < k /\ n \in 1..Len(c) - 1 /\ n \in 0..Len(c) /\ k - 1 \in 0..Len(c)
            /\ n - 1 \in 0..Len(c) - 1 /\ n <= k - 1
        BY <1>0, <2>5, <3>5
      <4>2. d[n] = item /\ Bytes(d, n - 1) = p
        BY <4>1, <3>5, <2>5, <2>7
      <4>3. p \in Nat /\ len \in Nat /\ Bytes(c, n) = p + len + 1
        BY <4>1, HoldsFacts
      <4>4. Bytes(c, n) <= s
        BY <4>1, <1>0, BytesMonotone DEF s
      <4>5. Lies(h.buf, p, item)
        BY <4>1, <1>0, ItemsLie DEF Holds
      <4> HIDE DEF buf, p, item
      <4>6. ASSUME NEW i \in 0..len PROVE buf[p + i] = h.buf[p + i]
        <5>1. p + i \in 0..s - 1
          BY <4>3, <4>4, <3>1
        <5> QED BY <5>1, <3>4
      <4>7. Lies(buf, p, item)
        BY <4>3, <4>5, <4>6, LiesMoved
      <4> QED BY <4>2, <4>7
    <3>6. ASSUME NEW n \in 1..Len(d), ~ n < k PROVE Lies(buf, Bytes(d, n - 1), d[n])
      <4> DEFINE m == n + 1
                 p == Bytes(c, n)
                 item == c[m]
                 len == Len(item)
                 back == e - s
      <4>1. /\ m \in 1..Len(c) /\ m - 1 = n /\ n \in 1..Len(c) - 1 /\ n - 1 \in 0..Len(c) - 1
            /\ n \in 0..Len(c) /\ k \in 0..Len(c) /\ n - 1 + 1 = n /\ k <= n
        BY <1>0, <2>5, <3>6
      <4>2. p \in Nat /\ len \in Nat /\ Bytes(c, m) = p + len + 1 /\ Bytes(c, m) <= size
        BY <4>1, HoldsFacts
      <4>3. e <= p
        BY <4>1, <1>0, BytesMonotone DEF e
      <4>4. d[n] = item
        BY <4>1, <3>6, <2>5
      <4>5. Bytes(d, n - 1) = p - back
        <5>1. CASE n = k
          <6>1. Bytes(d, n - 1) = s /\ p = e
            BY <5>1, <4>1, <2>7 DEF s, e
          <6> QED BY <6>1, <3>1
        <5>2. CASE n # k
          <6>1. ~ n - 1 < k
            BY <5>2, <3>6, <4>1
          <6>2. Bytes(d, n - 1) = Bytes(c, n - 1 + 1) - Len(c[k]) - 1
            BY <6>1, <4>1, <2>7
          <6>3. Bytes(d, n - 1) = p - Len(c[k]) - 1
            BY <6>2, <4>1
          <6> DEFINE lk == Len(c[k])
          <6>4. Bytes(d, n - 1) = p - lk - 1 /\ p \in Nat /\ lk \in Nat /\ s \in Nat /\ e = s + lk + 1
            BY <6>3, <4>2, <3>1
          <6> HIDE DEF p, lk
          <6> QED BY <6>4
        <5> QED BY <5>1, <5>2
      <4>6. Lies(h.buf, p, item)
        BY <4>1, <1>0, ItemsLie DEF Holds
      <4> DEFINE q == Bytes(c, m)
      <4>10. /\ back = e - s /\ e \in Nat /\ s \in Nat /\ s < e /\ size \in Nat
             /\ q = p + len + 1 /\ q <= size
        <5>1. s < e
          <6> DEFINE lk == Len(c[k])
          <6>1. e = s + lk + 1 /\ lk \in Nat /\ s \in Nat
            BY <3>1
          <6> HIDE DEF lk
          <6> QED BY <6>1
        <5> QED BY <5>1, <3>1, <4>2, <1>0
      <4> HIDE DEF buf, p, item, m, back, q
      <4>7. ASSUME NEW i \in 0..len PROVE buf[(p - back) + i] = h.buf[p + i]
        <5>1. p + i \in e..size - 1 /\ (p + i) - (e - s) = (p - back) + i
          <6> HIDE DEF len
          <6> QED BY <4>2, <4>3, <4>10
        <5>2. buf[(p + i) - (e - s)] = h.buf[p + i]
          <6> DEFINE j == p + i
          <6>1. j \in e..size - 1
            BY <5>1
          <6> HIDE DEF j, size
          <6>2. buf[j - (e - s)] = h.buf[j]
            BY <6>1, <3>4
          <6> QED BY <6>2 DEF j
        <5> QED BY <5>1, <5>2
      <4>8. p - back \in Int
        BY <4>2, <4>10
      <4> DEFINE to == p - back
      <4>9. to \in Int /\ p \in Int /\ len \in Nat /\ \A i \in 0..len : buf[to + i] = h.buf[p + i]
        BY <4>2, <4>7, <4>8
      <4> HIDE DEF to
      <4>11. Lies(buf, to, item)
        BY <4>6, <4>9, LiesMoved
      <4> QED BY <4>4, <4>5, <4>11 DEF to
    <3>7. Holds(buf, d)
      <4> HIDE DEF buf, d
      <4>1. ASSUME NEW n \in 1..Len(d) PROVE Lies(buf, Bytes(d, n - 1), d[n])
        BY <3>5, <3>6
      <4>2. ASSUME NEW n \in 1..Len(d)
            PROVE  /\ \A j \in 1..Len(d[n]) : buf[Bytes(d, n - 1) + j - 1] = d[n][j]
                   /\ buf[Bytes(d, n) - 1] = NUL
        BY <2>5, <4>1, ItemsLie
      <4> QED BY <2>5, <2>8, <3>4, <4>2 DEF Holds
    <3> QED BY <2>6, <3>3, <3>7
  <2> QED BY <2>9, <2>10
<1> QED BY <1>2, <1>3

-----------------------------------------------------------------------------
(* Putting a command in front *)

LEMMA BytesAgree ==
  ASSUME NEW c \in Commands, NEW d \in Commands, NEW N \in Nat, N <= Len(c), N <= Len(d),
         \A i \in 1..N : c[i] = d[i]
  PROVE  \A n \in 0..N : Bytes(c, n) = Bytes(d, n)
<1> DEFINE S == {n \in Nat : n <= N => Bytes(c, n) = Bytes(d, n)}
<1>0. Len(c) \in Nat /\ Len(d) \in Nat
  BY CommandFacts
<1>1. 0 \in S
  BY BytesFacts
<1>2. ASSUME NEW n \in Nat, n \in S PROVE n + 1 \in S
  <2> SUFFICES ASSUME n + 1 <= N PROVE Bytes(c, n + 1) = Bytes(d, n + 1)
    OBVIOUS
  <2> DEFINE m == n + 1
  <2>1. m \in 1..N /\ m \in 1..Len(c) /\ m \in 1..Len(d) /\ m - 1 = n
    BY <1>0
  <2>2. Bytes(c, m) = Bytes(c, m - 1) + Len(c[m]) + 1 /\ Bytes(d, m) = Bytes(d, m - 1) + Len(d[m]) + 1
    BY <2>1, BytesFacts
  <2>3. Bytes(c, m - 1) = Bytes(d, m - 1) /\ c[m] = d[m]
    BY <1>2, <2>1
  <2> QED BY <2>2, <2>3
<1>3. Nat \subseteq S
  <2> HIDE DEF S
  <2> QED BY <1>1, <1>2, SetInduction
<1> QED BY <1>3

InFront(str, commands) == <<str>> \o commands

\* A sequence with one more element in front.
LEMMA PrependFacts ==
  ASSUME NEW c \in Commands, NEW str \in Seq(Letter), NEW all, all = InFront(str, c)
  PROVE  /\ all \in Commands /\ Len(all) = Len(c) + 1 /\ all[1] = str
         /\ \A i \in 1..Len(c) : all[i + 1] = c[i]
<1>1. <<str>> \in Seq(Seq(Letter)) /\ Len(<<str>>) = 1 /\ <<str>>[1] = str
  OBVIOUS
<1>2. Len(c) \in Nat /\ c \in Seq(Seq(Letter))
  BY CommandFacts DEF Commands
<1>3. /\ all \in Seq(Seq(Letter)) /\ Len(all) = 1 + Len(c)
      /\ \A i \in 1..1 + Len(c) : all[i] = IF i <= 1 THEN <<str>>[i] ELSE c[i - 1]
  BY <1>1, <1>2, ConcatProperties DEF InFront
<1>4. all[1] = str
  BY <1>1, <1>2, <1>3
<1>5. ASSUME NEW i \in 1..Len(c) PROVE all[i + 1] = c[i]
  <2>1. i + 1 \in 1..1 + Len(c) /\ ~ i + 1 <= 1 /\ (i + 1) - 1 = i
    BY <1>2
  <2> QED BY <1>3, <2>1
<1> QED BY <1>2, <1>3, <1>4, <1>5 DEF Commands

\* The bytes of a list with one more command in front.
LEMMA BytesPrepended ==
  ASSUME NEW c \in Commands, NEW str \in Seq(Letter), NEW all, all = InFront(str, c)
  PROVE  \A n \in 0..Len(c) : Bytes(all, n + 1) = Bytes(c, n) + Len(str) + 1
<1> DEFINE S == {n \in Nat : n <= Len(c) => Bytes(all, n + 1) = Bytes(c, n) + Len(str) + 1}
<1>0. /\ Len(c) \in Nat /\ Len(str) \in Nat
      /\ all \in Commands /\ Len(all) = Len(c) + 1 /\ all[1] = str
      /\ \A i \in 1..Len(c) : all[i + 1] = c[i]
  <2>1. Len(c) \in Nat /\ Len(str) \in Nat
    BY CommandFacts
  <2>2. all \in Commands /\ Len(all) = Len(c) + 1 /\ all[1] = str /\ \A i \in 1..Len(c) : all[i + 1] = c[i]
    BY PrependFacts
  <2> QED BY <2>1, <2>2
<1>1. 0 \in S
  <2>1. 1 \in 1..Len(all) /\ 1 - 1 = 0 /\ 0 + 1 = 1
    BY <1>0
  <2>2. Bytes(all, 1) = Bytes(all, 1 - 1) + Len(all[1]) + 1
    BY <1>0, <2>1, BytesFacts
  <2>3. Bytes(all, 0) = 0 /\ Bytes(c, 0) = 0
    BY <1>0, BytesFacts
  <2> QED BY <1>0, <2>1, <2>2, <2>3
<1>2. ASSUME NEW n \in Nat, n \in S PROVE n + 1 \in S
  <2> SUFFICES ASSUME n + 1 <= Len(c) PROVE Bytes(all, (n + 1) + 1) = Bytes(c, n + 1) + Len(str) + 1
    OBVIOUS
  <2> DEFINE m == n + 1
             k == m + 1
             x == Bytes(c, n)
             y == Bytes(c, m)
             l == Len(c[m])
             len == Len(str)
  <2>1. m \in 1..Len(c) /\ m - 1 = n /\ k \in 1..Len(all) /\ k - 1 = m /\ n \in 0..Len(c)
    BY <1>0
  <2>2. Bytes(all, k) = Bytes(all, k - 1) + Len(all[k]) + 1 /\ y = Bytes(c, m - 1) + l + 1
    BY <1>0, <2>1, BytesFacts
  <2>3. Bytes(all, m) = x + len + 1 /\ all[k] = c[m]
    BY <1>0, <1>2, <2>1
  <2>4. x \in Nat /\ l \in Nat /\ len \in Nat
    BY <1>0, <2>1, BytesFacts, CommandFacts
  <2>5. Bytes(all, k) = (x + len + 1) + l + 1 /\ y = x + l + 1
    BY <2>1, <2>2, <2>3
  <2> HIDE DEF x, y, l, len, k, m
  <2>6. Bytes(all, k) = y + len + 1
    BY <2>4, <2>5
  <2> QED BY <2>6 DEF y, len, k, m
<1>3. Nat \subseteq S
  <2> HIDE DEF S
  <2> QED BY <1>1, <1>2, SetInduction
<1> QED BY <1>0, <1>3

\* historyPut brings the buffer to what Remember says.
LEMMA WithoutFacts ==
  ASSUME NEW c \in Commands, NEW str
  PROVE  \A i \in DOMAIN Without(c, str) : \E j \in DOMAIN c : Without(c, str)[i] = c[j]
<1>1. CASE str \notin ToSet(c)
  BY <1>1 DEF Without
<1>2. CASE str \in ToSet(c)
  <2> DEFINE k == CHOOSE i \in DOMAIN c : c[i] = str
             d == RemoveAt(c, k)
  <2>1. k \in DOMAIN c /\ DOMAIN c = 1..Len(c) /\ Len(c) \in Nat
    BY <1>2, CommandFacts DEF ToSet
  <2> HIDE DEF k
  <2>2. d \in Seq(Seq(Letter)) /\ Len(d) = Len(c) - 1 /\ \A i \in 1..Len(c) - 1 : d[i] = IF i < k THEN c[i] ELSE c[i + 1]
    <3>1. k \in 1..Len(c) /\ c \in Seq(Seq(Letter))
      BY <2>1 DEF Commands
    <3> QED BY <3>1, RemoveAtFacts
  <2> HIDE DEF d
  <2>3. DOMAIN d = 1..Len(c) - 1
    BY <2>2
  <2>4. \A i \in DOMAIN d : i \in DOMAIN c /\ i + 1 \in DOMAIN c
    BY <2>1, <2>3
  <2>5. \A i \in DOMAIN d : \E j \in DOMAIN c : d[i] = c[j]
    BY <2>2, <2>3, <2>4
  <2>6. Without(c, str) = d
    BY <1>2 DEF Without, d, k
  <2> QED BY <2>5, <2>6
<1> QED BY <1>1, <1>2

\* The bytes of an item that lies at p lie len + 1 further behind when moved.
LEMMA PlaceBehind ==
  ASSUME NEW p \in Nat, NEW l \in Nat, NEW used \in Nat, NEW len \in Nat, p + l + 1 <= used, NEW i \in 0..l
  PROVE  p + i \in 0..used - 1 /\ (len + 1) + (p + i) = (p + len + 1) + i
OBVIOUS

\* historyPut: the buffer holds what Remember expects, the new command first, each once.
LEMMA PutKeepsHolding ==
  ASSUME NEW h, NEW c, h.count = Len(c), Holds(h.buf, c), Distinct(c), NEW str \in Seq(Letter),
         h = [buf |-> h.buf, count |-> h.count, current |-> h.current]
  PROVE  LET new == HistoryPut(h, str)
             d == Remember(c, str)
         IN  /\ new.count = Len(d) /\ Holds(new.buf, d) /\ Distinct(d)
             /\ new = [buf |-> new.buf, count |-> new.count, current |-> h.current]
             /\ \A i \in DOMAIN d : d[i] = str \/ \E j \in DOMAIN c : d[i] = c[j]
<1> DEFINE new == HistoryPut(h, str)
           d == Remember(c, str)
           len == Len(str)
           rest == HistoryRemove(h, str)
           w == Without(c, str)
           size == HistorySize
<1>1. len \in Nat /\ size \in Nat
  BY HistoryAssumption
<1>2. CASE size < len + 1
  <2>1. len + 1 > size
    BY <1>1, <1>2
  <2>2. new = h /\ d = c
    BY <1>2, <2>1 DEF HistoryPut, Remember
  <2> QED BY <2>2
<1>3. CASE ~ size < len + 1
  <2>0. len + 1 <= size /\ ~ len + 1 > size
    BY <1>1, <1>3
  <2> DEFINE all == InFront(str, w)
             fit == {n \in 1..rest.count : Fits(rest, n, len)}
             kept == Max({0} \cup fit)
             used == UsedSize(rest, kept)
             moved == Move(rest.buf, len + 1, 0, used)
             K == {n \in 1..Len(all) : Bytes(all, n) <= size}
             m == kept + 1
  <2>1. rest.count = Len(w) /\ Holds(rest.buf, w) /\ Distinct(w) /\ \A i \in DOMAIN w : w[i] # str
    BY RemoveKeepsHolding
  <2>2. w \in Commands /\ Len(w) \in Nat /\ DOMAIN w = 1..Len(w)
    BY <2>1, HoldsFacts, CommandFacts
  <2>3. \A n \in 0..Len(w) : Bytes(w, n) \in Nat
    BY <2>2, BytesFacts
  <2>4. fit = {n \in 1..Len(w) : size - Bytes(w, n) >= len + 1}
    BY <2>1, Decode DEF Fits
  <2>5. /\ all \in Commands /\ Len(all) = Len(w) + 1 /\ all[1] = str
        /\ \A i \in 1..Len(w) : all[i + 1] = w[i]
    BY <2>2, PrependFacts
  <2>6. \A n \in 0..Len(w) : Bytes(all, n + 1) = Bytes(w, n) + len + 1
    BY <2>2, BytesPrepended
  <2>7. kept \in {0} \cup fit /\ \A n \in {0} \cup fit : n <= kept
    <3>1. {0} \cup fit \subseteq Nat /\ {0} \cup fit # {} /\ \A n \in {0} \cup fit : n <= Len(w)
      BY <2>2, <2>4
    <3> HIDE DEF fit
    <3> QED BY <3>1, <2>2, MaxOfNats
  <2>8. Bytes(w, 0) = 0
    BY <2>2, BytesFacts
  <2>9. kept \in 0..Len(w) /\ used = Bytes(w, kept) /\ used \in Nat /\ used + len + 1 <= size
    <3>1. CASE kept = 0
      <4>1. used = 0
        BY <3>1 DEF UsedSize
      <4> QED BY <3>1, <4>1, <2>0, <2>2, <2>8, <1>1
    <3>2. CASE kept # 0
      <4>1. kept \in fit
        BY <3>2, <2>7
      <4>2. kept \in 1..Len(w) /\ kept \in 0..Len(w) /\ size - Bytes(w, kept) >= len + 1
        BY <4>1, <2>2, <2>4
      <4>3. used = Bytes(w, kept)
        BY <4>2, <2>1, Decode
      <4>4. used \in Nat
        BY <4>2, <4>3, <2>3
      <4>5. size - used >= len + 1
        BY <4>2, <4>3
      <4> HIDE DEF used, len, size
      <4>6. used + len + 1 <= size
        BY <4>4, <4>5, <1>1
      <4> QED BY <4>2, <4>3, <4>4, <4>6
    <3> QED BY <3>1, <3>2
  <2> HIDE DEF kept
  <2>10. m \in K
    <3>1. m \in 1..Len(all) /\ Bytes(all, m) = Bytes(w, kept) + len + 1
      BY <2>2, <2>5, <2>6, <2>9
    <3>2. Bytes(w, kept) + len + 1 <= size
      BY <2>9
    <3> QED BY <3>1, <3>2
  <2>11. ASSUME NEW n \in K PROVE n <= m
    <3>1. n \in 1..Len(w) + 1 /\ Bytes(all, n) <= size
      BY <2>5
    <3> DEFINE i == n - 1
    <3>2. i \in 0..Len(w) /\ i + 1 = n
      BY <3>1, <2>2
    <3>3. Bytes(w, i) + len + 1 <= size /\ Bytes(w, i) \in Nat
      BY <3>1, <3>2, <2>3, <2>6
    <3>4. CASE i = 0
      BY <3>2, <3>4, <2>9, <2>2
    <3>5. CASE i # 0
      <4>1. size - Bytes(w, i) >= len + 1
        <5> DEFINE x == Bytes(w, i)
        <5>1. x + len + 1 <= size /\ x \in Nat
          BY <3>3
        <5> HIDE DEF x, len, size
        <5>2. size - x >= len + 1
          BY <5>1, <1>1
        <5> QED BY <5>2 DEF x
      <4>2. i \in 1..Len(w)
        BY <3>2, <3>5, <2>2
      <4>3. i \in fit
        BY <4>1, <4>2, <2>4
      <4>4. i <= kept
        BY <4>3, <2>7
      <4> QED BY <4>4, <3>2, <2>2, <2>9
    <3> QED BY <3>4, <3>5
  <2>12. Max(K) = m
    <3>1. K \subseteq Nat /\ K # {} /\ Len(all) \in Nat /\ \A n \in K : n <= Len(all)
      BY <2>10, <2>5, <2>2
    <3> HIDE DEF K, all
    <3>2. Max(K) \in K /\ \A n \in K : n <= Max(K)
      BY <3>1, MaxOfNats
    <3>3. Max(K) <= m /\ m <= Max(K) /\ Max(K) \in Nat
      BY <3>1, <3>2, <2>10, <2>11
    <3>4. m \in Nat
      BY <2>2, <2>9
    <3> HIDE DEF m
    <3> QED BY <3>3, <3>4
  <2>13. d = SubSeq(all, 1, m)
    BY <2>0, <2>12 DEF Remember, InFront
  <2>14. m \in 1..Len(all) /\ m \in Nat /\ m - 1 = kept
    BY <2>9, <2>5, <2>2
  <2>15. d \in Commands /\ Len(d) = m /\ DOMAIN d = 1..m /\ \A i \in 1..m : d[i] = all[i]
    <3> HIDE DEF m, all, d
    <3>1. all \in Seq(Seq(Letter)) /\ Len(all) \in Nat
      BY <2>2, <2>5 DEF Commands
    <3>2. d \in Seq(Seq(Letter)) /\ Len(d) = m /\ \A i \in 1..m : d[i] = all[i]
      BY <3>1, <2>13, <2>14
    <3>3. d \in Commands
      BY <3>2 DEF Commands
    <3> QED BY <3>2, <3>3, CommandFacts
  <2>16. \A n \in 0..m : Bytes(d, n) = Bytes(all, n)
    <3>1. m <= Len(d) /\ m <= Len(all)
      BY <2>14, <2>15, <2>5, <2>2
    <3> HIDE DEF m, all, d
    <3> QED BY <3>1, <2>5, <2>14, <2>15, BytesAgree
  <2>17. Bytes(d, Len(d)) <= size
    BY <2>10, <2>14, <2>15, <2>16
  <2>18. d[1] = str /\ \A i \in 1..kept : d[i + 1] = w[i] /\ i \in 1..Len(w)
    <3>1. 1 \in 1..m /\ \A i \in 1..kept : i + 1 \in 1..m /\ i \in 1..Len(w)
      BY <2>9, <2>2
    <3> QED BY <3>1, <2>5, <2>15
  <2>19. Distinct(d)
    <3>1. ASSUME NEW i \in 1..m, NEW j \in 1..m, d[i] = d[j] PROVE i = j
      <4>1. \A x \in 1..m : x = 1 \/ (x - 1 \in 1..kept /\ (x - 1) + 1 = x)
        BY <2>9, <2>2
      <4>2. \A x \in 1..m : x # 1 => d[x] = w[x - 1] /\ x - 1 \in DOMAIN w
        BY <4>1, <2>2, <2>18
      <4>3. i = 1 => j = 1
        BY <3>1, <4>2, <2>1, <2>18
      <4>4. j = 1 => i = 1
        BY <3>1, <4>2, <2>1, <2>18
      <4>5. i # 1 /\ j # 1 => i - 1 = j - 1
        BY <3>1, <4>2, <2>1 DEF Distinct
      <4> QED BY <4>3, <4>4, <4>5, <2>14
    <3> QED BY <3>1, <2>15 DEF Distinct
  <2> DEFINE buf == new.buf
  <2>20. /\ new.count = m
        /\ buf = [i \in DOMAIN moved |-> IF i < len THEN str[i + 1] ELSE IF i = len THEN NUL ELSE moved[i]]
        /\ new = [buf |-> buf, count |-> new.count, current |-> h.current]
    <3>1. new = [h EXCEPT !.count = kept + 1,
                          !.buf = [i \in DOMAIN moved |->
                                     IF i < len THEN str[i + 1] ELSE IF i = len THEN NUL ELSE moved[i]]]
      BY <1>3 DEF HistoryPut, kept
    <3> HIDE DEF moved, len, m, new
    <3> QED BY <3>1 DEF m
  <2>21. /\ buf \in [0..size - 1 -> Letter \cup {NUL}]
         /\ \A i \in 0..len - 1 : buf[i] = str[i + 1]
         /\ buf[len] = NUL
         /\ \A i \in 0..used - 1 : buf[(len + 1) + i] = rest.buf[i]
    <3> DEFINE old == rest.buf
               to == len + 1
    <3>1. old \in [0..size - 1 -> Letter \cup {NUL}]
      BY <2>1 DEF Holds
    <3>2. /\ to \in Nat /\ used \in Nat /\ used + to <= size /\ (0..size - 1) \cup to..to + used - 1 = 0..size - 1
          /\ to = len + 1
      <4>1. used \in Nat /\ used + len + 1 <= size
        BY <2>9
      <4> HIDE DEF used, len, size
      <4> QED BY <4>1, <1>1
    <3>3. moved = [i \in 0..size - 1 |-> IF i \in to..to + used - 1 THEN old[i - to + 0] ELSE old[i]]
      BY <3>1, <3>2 DEF Move
    <3>4. \A i \in 1..len : str[i] \in Letter
      OBVIOUS
    <3> HIDE DEF moved, used, len, old, size, buf, to
    <3>5. buf = [i \in 0..size - 1 |-> IF i < len THEN str[i + 1] ELSE IF i = len THEN NUL ELSE moved[i]]
      BY <2>20, <3>3
    <3>6. ASSUME NEW i \in 0..size - 1 PROVE buf[i] \in Letter \cup {NUL}
      <4>1. CASE i < len
        <5>1. i + 1 \in 1..len
          BY <1>1, <4>1
        <5> QED BY <3>4, <3>5, <4>1, <5>1
      <4>2. CASE i = len
        BY <3>5, <4>2, <1>1
      <4>3. CASE i > len
        <5>1. buf[i] = moved[i]
          BY <3>5, <4>3, <1>1
        <5>2. i \in to..to + used - 1 => i - to + 0 \in 0..size - 1
          BY <3>2, <1>1
        <5> QED BY <5>1, <5>2, <3>1, <3>3
      <4> QED BY <4>1, <4>2, <4>3, <1>1
    <3>7. \A i \in 0..len - 1 : i \in 0..size - 1 /\ i < len
      BY <3>2, <1>1
    <3>8. len \in 0..size - 1 /\ ~ len < len
      BY <3>2, <1>1
    <3>9. ASSUME NEW i \in 0..used - 1 PROVE buf[to + i] = old[i]
      <4> DEFINE j == to + i
      <4>1. j \in 0..size - 1 /\ ~ j < len /\ j # len /\ j \in to..to + used - 1 /\ j - to + 0 = i
        BY <3>2, <1>1
      <4> HIDE DEF j
      <4>2. buf[j] = old[i]
        BY <3>3, <3>5, <4>1
      <4> QED BY <4>2 DEF j
    <3> QED BY <3>5, <3>6, <3>7, <3>8, <3>9 DEF to, old
  <2>22. Lies(buf, Bytes(d, 0), d[1])
    <3>1. Bytes(d, 0) = 0
      BY <2>15, BytesFacts
    <3> HIDE DEF buf
    <3>2. ASSUME NEW j \in 1..len PROVE buf[0 + j - 1] = str[j]
      <4>1. 0 + j - 1 \in 0..len - 1 /\ (0 + j - 1) + 1 = j
        BY <1>1
      <4> QED BY <4>1, <2>21
    <3>3. 0 + len = len
      BY <1>1
    <3> QED BY <3>1, <3>2, <3>3, <2>18, <2>21 DEF Lies
  <2>23. ASSUME NEW n \in 1..kept PROVE Lies(buf, Bytes(d, n), d[n + 1])
    <3> DEFINE p == Bytes(w, n - 1)
               item == w[n]
               l == Len(item)
               to == p + len + 1
    <3>1. n \in 1..Len(w) /\ n - 1 \in 0..Len(w) /\ n \in 0..Len(w) /\ n \in 0..m /\ (n - 1) + 1 = n
      BY <2>2, <2>9
    <3>2. d[n + 1] = item /\ Bytes(d, n) = to
      BY <3>1, <2>6, <2>16, <2>18
    <3>3. p \in Nat /\ l \in Nat /\ Bytes(w, n) = p + l + 1
      BY <3>1, <2>1, HoldsFacts
    <3>4. Bytes(w, n) <= used
      BY <3>1, <2>2, <2>9, BytesMonotone
    <3>5. Lies(rest.buf, p, item)
      BY <3>1, <2>1, <2>2, ItemsLie DEF Holds
    <3>6. p + l + 1 <= used
      BY <3>3, <3>4
    <3> HIDE DEF buf, p, item, used, len, rest
    <3>7. ASSUME NEW i \in 0..l PROVE buf[to + i] = rest.buf[p + i]
      <4> DEFINE j == p + i
      <4>1. j \in 0..used - 1 /\ (len + 1) + j = to + i
        <5>1. p \in Nat /\ l \in Nat /\ p + l + 1 <= used /\ used \in Nat /\ len \in Nat
          BY <1>1, <3>3, <3>6, <2>9
        <5> HIDE DEF l
        <5> QED BY <5>1, PlaceBehind
      <4> HIDE DEF j, to
      <4>2. buf[(len + 1) + j] = rest.buf[j]
        BY <4>1, <2>21
      <4> QED BY <4>1, <4>2 DEF j
    <3>8. to \in Int /\ p \in Int
      BY <3>3, <1>1
    <3> HIDE DEF to
    <3>9. Lies(buf, to, item)
      BY <3>3, <3>5, <3>7, <3>8, LiesMoved
    <3> QED BY <3>2, <3>9
  <2>24. ASSUME NEW n \in 1..Len(d) PROVE Lies(buf, Bytes(d, n - 1), d[n])
    <3>1. CASE n = 1
      <4>1. n - 1 = 0
        BY <3>1
      <4> QED BY <3>1, <4>1, <2>22
    <3>2. CASE n # 1
      <4>1. n - 1 \in 1..kept /\ (n - 1) + 1 = n
        BY <3>2, <2>14, <2>15, <2>9
      <4>2. Lies(buf, Bytes(d, n - 1), d[(n - 1) + 1])
        BY <4>1, <2>23
      <4> QED BY <4>1, <4>2
    <3> QED BY <3>1, <3>2
  <2>25. Holds(buf, d)
    <3> HIDE DEF buf, d
    <3>1. ASSUME NEW n \in 1..Len(d)
          PROVE  /\ \A j \in 1..Len(d[n]) : buf[Bytes(d, n - 1) + j - 1] = d[n][j]
                 /\ buf[Bytes(d, n) - 1] = NUL
      BY <2>15, <2>24, ItemsLie
    <3> QED BY <2>15, <2>17, <2>21, <3>1 DEF Holds
  <2>26. ASSUME NEW i \in DOMAIN d PROVE d[i] = str \/ \E j \in DOMAIN c : d[i] = c[j]
    <3>1. i = 1 \/ (i - 1 \in 1..kept /\ (i - 1) + 1 = i)
      BY <2>9, <2>15, <2>2
    <3>2. CASE i = 1
      BY <3>2, <2>18
    <3>3. CASE i - 1 \in 1..kept /\ (i - 1) + 1 = i
      <4>1. d[i] = w[i - 1] /\ i - 1 \in DOMAIN w
        BY <3>3, <2>2, <2>18
      <4>2. c \in Commands
        BY HoldsFacts
      <4> QED BY <4>1, <4>2, WithoutFacts
    <3> QED BY <3>1, <3>2, <3>3
  <2> QED BY <2>15, <2>19, <2>20, <2>25, <2>26
<1> QED BY <1>2, <1>3

-----------------------------------------------------------------------------
(* What the candidates have in common *)

LEMMA SubSeqFacts ==
  ASSUME NEW T, NEW s \in Seq(T), NEW m \in Nat, m <= Len(s)
  PROVE  /\ SubSeq(s, 1, m) \in Seq(T) /\ Len(SubSeq(s, 1, m)) = m
         /\ \A i \in 1..m : SubSeq(s, 1, m)[i] = s[i]
OBVIOUS

LEMMA PrefixFacts ==
  ASSUME NEW T, NEW s \in Seq(T), NEW t \in Seq(T)
  PROVE  IsPrefix(s, t) <=> Len(s) <= Len(t) /\ \A i \in 1..Len(s) : s[i] = t[i]
<1>1. SubSeq(s, 1, Len(s)) = s
  OBVIOUS
<1>2. CASE Len(s) <= Len(t)
  <2> DEFINE u == SubSeq(t, 1, Len(s))
  <2>1. Len(s) \in Nat
    OBVIOUS
  <2>2. u \in Seq(T) /\ Len(u) = Len(s) /\ \A i \in 1..Len(s) : u[i] = t[i]
    BY <1>2, <2>1, SubSeqFacts
  <2> HIDE DEF u
  <2>3. s = u <=> \A i \in 1..Len(s) : s[i] = t[i]
    BY <2>2, SeqEqual
  <2> QED BY <1>1, <1>2, <2>3 DEF IsPrefix, u
<1> QED BY <1>2 DEF IsPrefix

LEMMA NameFacts ==
  /\ Len(Names) \in Nat /\ DOMAIN Names = 1..Len(Names) /\ CmdMaxSize \in Nat
  /\ \A n \in 1..Len(Names) : /\ Names[n] \in Seq(Letter) /\ Len(Names[n]) \in Nat /\ Len(Names[n]) + 3 <= CmdMaxSize
                              /\ \A i \in 1..Len(Names[n]) : Names[n][i] \in Letter
<1>1. Names \in Seq(Seq(Letter)) /\ CmdMaxSize \in Nat /\ \A n \in DOMAIN Names : Len(Names[n]) + 3 <= CmdMaxSize
  BY EditorAssumption
<1>2. Len(Names) \in Nat /\ DOMAIN Names = 1..Len(Names)
  BY <1>1
<1>3. ASSUME NEW n \in 1..Len(Names)
      PROVE  Names[n] \in Seq(Letter) /\ Len(Names[n]) \in Nat /\ \A i \in 1..Len(Names[n]) : Names[n][i] \in Letter
  <2>1. Names[n] \in Seq(Letter)
    BY <1>1
  <2> QED BY <2>1
<1> QED BY <1>1, <1>2, <1>3

LEMMA CandidateFacts ==
  ASSUME NEW line \in Seq(Letter)
  PROVE  /\ Candidates(line) \subseteq 1..Len(Names)
         /\ \A n \in Candidates(line) : Len(line) <= Len(Names[n]) /\ \A i \in 1..Len(line) : line[i] = Names[n][i]
         /\ Candidates(line) # {} => /\ Min(Candidates(line)) \in Candidates(line)
                                     /\ \A n \in Candidates(line) : Min(Candidates(line)) <= n
<1> DEFINE C == Candidates(line)
<1>1. C \subseteq 1..Len(Names) /\ C \subseteq Nat
  BY NameFacts DEF Candidates
<1>2. ASSUME NEW n \in C PROVE Len(line) <= Len(Names[n]) /\ \A i \in 1..Len(line) : line[i] = Names[n][i]
  <2>1. IsPrefix(line, Names[n])
    BY DEF Candidates
  <2>2. Names[n] \in Seq(Letter)
    BY <1>1, NameFacts
  <2> QED BY <2>1, <2>2, PrefixFacts
<1> HIDE DEF C
<1>3. C # {} => Min(C) \in C /\ \A n \in C : Min(C) <= n
  BY <1>1, MinOfNats
<1> QED BY <1>1, <1>2, <1>3 DEF C

LEMMA NarrowType ==
  ASSUME NEW size \in Nat, NEW first, NEW len \in Nat, NEW name, Len(name) \in Nat
  PROVE  Narrow(size, first, len, name) \in Nat
<1> DEFINE bound == IF Len(name) < len THEN Len(name) ELSE len
           differ == {j \in size..bound - 1 : first[j + 1] # name[j + 1]}
<1>1. bound \in Nat /\ differ \subseteq Nat
  OBVIOUS
<1>2. Narrow(size, first, len, name) = IF differ = {} THEN bound ELSE Min(differ)
  BY DEF Narrow
<1> HIDE DEF differ
<1>3. differ # {} => Min(differ) \in Nat
  BY <1>1, MinOfNats
<1> QED BY <1>1, <1>2, <1>3

\* One more name: what remains is common to it too, and nothing is given up needlessly.
Agree(s, t, n) == \A i \in 1..n : s[i] = t[i]

Narrowed(size, first, len, name, r) ==
  /\ r \in Nat /\ size <= r /\ r <= len /\ r <= Len(name)
  /\ Agree(first, name, r)
  /\ r = len \/ r = Len(name) \/ (r < len /\ r < Len(name) /\ first[r + 1] # name[r + 1])

\* Narrowing keeps what was common to the first candidate and the others, and loses no more.
LEMMA NarrowFacts ==
  ASSUME NEW size \in Nat, NEW first, NEW len \in Nat, NEW name, Len(name) \in Nat, size <= len, size <= Len(name),
         Agree(first, name, size)
  PROVE  Narrowed(size, first, len, name, Narrow(size, first, len, name))
<1> DEFINE r == Narrow(size, first, len, name)
           l == Len(name)
           bound == IF l < len THEN l ELSE len
           differ == {j \in size..bound - 1 : first[j + 1] # name[j + 1]}
<1>1. bound \in Nat /\ bound <= len /\ bound <= l /\ size <= bound /\ (bound = len \/ bound = l)
  OBVIOUS
<1>2. r = IF differ = {} THEN bound ELSE Min(differ)
  BY DEF Narrow
<1>3. differ \subseteq Nat
  OBVIOUS
<1> HIDE DEF r
<1>4. CASE differ = {}
  <2>1. r = bound
    BY <1>2, <1>4
  <2>2. ASSUME NEW i \in 1..bound PROVE first[i] = name[i]
    <3>1. CASE i <= size
      BY <3>1 DEF Agree
    <3>2. CASE i > size
      <4>1. i - 1 \in size..bound - 1 /\ (i - 1) + 1 = i
        BY <3>2, <1>1
      <4>2. i - 1 \notin differ
        BY <1>4
      <4> QED BY <4>1, <4>2
    <3> QED BY <3>1, <3>2
  <2> QED BY <1>1, <2>1, <2>2 DEF Narrowed, Agree, r
<1>5. CASE differ # {}
  <2>1. r \in differ /\ \A j \in differ : r <= j
    <3> HIDE DEF differ
    <3> QED BY <1>2, <1>3, <1>5, MinOfNats
  <2>2. r \in Nat /\ size <= r /\ r < len /\ r < l /\ first[r + 1] # name[r + 1]
    BY <1>1, <2>1
  <2>3. ASSUME NEW i \in 1..r PROVE first[i] = name[i]
    <3>1. CASE i <= size
      BY <3>1 DEF Agree
    <3>2. CASE i > size
      <4>1. i - 1 \in size..bound - 1 /\ (i - 1) + 1 = i /\ ~ r <= i - 1
        BY <3>2, <2>1, <2>2, <1>1
      <4>2. i - 1 \notin differ
        BY <4>1, <2>1
      <4> QED BY <4>1, <4>2
    <3> QED BY <2>2, <3>1, <3>2
  <2> QED BY <2>2, <2>3 DEF Narrowed, Agree, r
<1> QED BY <1>4, <1>5

\* The loop over the bindings.
LEMMA LengthAfterStep ==
  ASSUME NEW line \in Seq(Letter), Candidates(line) # {}
  PROVE  LET g == LengthAfter(line, Len(line))
             C == Candidates(line)
         IN  \A n \in 1..Len(Names) :
               g[n] = IF n \notin C THEN g[n - 1] ELSE IF n = Min(C) THEN Len(Names[n])
                      ELSE Narrow(Len(line), First(line), g[n - 1], Names[n])
<1> DEFINE C == Candidates(line)
           size == Len(line)
           N == Len(Names)
           first == First(line)
           Next1(n, v) == IF n \notin C THEN v ELSE IF n = Min(C) THEN Len(Names[n]) ELSE Narrow(size, first, v, Names[n])
           step == [n \in 1..N |-> [v \in Nat |-> Next1(n, v)]]
           g == LengthAfter(line, size)
<1>1. N \in Nat /\ size \in Nat
  BY NameFacts
<1>2. \A n \in 1..N, v \in Nat : Next1(n, v) \in Nat
  BY <1>1, NameFacts, NarrowType
<1> HIDE DEF Next1
<1>3. step \in [1..N -> [Nat -> Nat]]
  BY <1>2
<1>4. \A n \in 1..N, v \in Nat : step[n][v] = Next1(n, v)
  OBVIOUS
<1> HIDE DEF step, N
<1>5. PICK f \in [0..N -> Nat] : \A n \in 0..N : f[n] = IF n = 0 THEN 0 ELSE step[n][f[n - 1]]
  <2> DEFINE V == Nat
             v0 == 0
  <2>1. v0 \in V
    OBVIOUS
  <2>2. N \in Nat
    BY <1>1 DEF N
  <2>3. step \in Steps(N, V)
    BY <1>3 DEF Steps
  <2> HIDE DEF V, v0
  <2>4. \E f \in [0..N -> V] : IsRecursive(f, N, v0, step)
    BY <2>1, <2>2, <2>3, RecursionExists
  <2> QED BY <2>4 DEF V, v0, IsRecursive
<1>6. \A n \in 0..N : f[n] = IF n = 0 THEN 0 ELSE Next1(n, f[n - 1])
  <2>1. \A n \in 0..N : n # 0 => n \in 1..N /\ n - 1 \in 0..N
    BY <1>1
  <2> QED BY <2>1, <1>4, <1>5
<1>7. f = [n \in 0..N |-> IF n = 0 THEN 0 ELSE Next1(n, f[n - 1])]
  BY <1>5, <1>6
<1>8. g = CHOOSE h : h = [n \in 0..N |-> IF n = 0 THEN 0 ELSE Next1(n, h[n - 1])]
  BY Zenon DEF LengthAfter, Next1, N, First
<1>9. g = [n \in 0..N |-> IF n = 0 THEN 0 ELSE Next1(n, g[n - 1])]
  <2> HIDE DEF g
  <2> QED BY <1>7, <1>8
<1>10. ASSUME NEW n \in 1..N PROVE g[n] = Next1(n, g[n - 1])
  <2>1. n \in 0..N /\ n # 0
    BY <1>1
  <2> HIDE DEF g
  <2> QED BY <1>9, <2>1
<1> QED BY <1>10 DEF Next1, N

\* What holds of the length when the first n bindings have been looked at.
Settled(line, length, n) ==
  LET C == {c \in Candidates(line) : c <= n}
      first == First(line)
  IN  /\ length \in Nat /\ Len(line) <= length /\ length <= Len(first)
      /\ \A c \in C : length <= Len(Names[c]) /\ \A i \in 1..length : first[i] = Names[c][i]
      /\ \E c \in C : \/ length = Len(Names[c])
                      \/ length < Len(Names[c]) /\ length < Len(first) /\ first[length + 1] # Names[c][length + 1]

LEMMA SettledByAll ==
  ASSUME NEW line \in Seq(Letter), Candidates(line) # {}
  PROVE  Settled(line, CompletedLength(line, Len(line)), Len(Names))
<1> DEFINE all == Candidates(line)
           m == Min(all)
           first == First(line)
           g == LengthAfter(line, Len(line))
           N == Len(Names)
           S == {n \in Nat : m <= n /\ n <= N => Settled(line, g[n], n)}
<1>1. N \in Nat /\ Len(line) \in Nat /\ all \subseteq 1..N /\ m \in all /\ \A n \in all : m <= n
  BY NameFacts, CandidateFacts
<1>2. \A n \in all : /\ Names[n] \in Seq(Letter) /\ Len(Names[n]) \in Nat /\ Len(line) <= Len(Names[n])
                     /\ \A i \in 1..Len(line) : line[i] = Names[n][i]
  BY <1>1, NameFacts, CandidateFacts
<1>3. first = Names[m]
  BY DEF First
<1>4. \A n \in 1..N : g[n] = IF n \notin all THEN g[n - 1] ELSE IF n = m THEN Len(Names[n])
                             ELSE Narrow(Len(line), first, g[n - 1], Names[n])
  BY LengthAfterStep
<1>5. ASSUME NEW i \in 1..Len(line), NEW n \in all PROVE first[i] = Names[n][i]
  BY <1>1, <1>2, <1>3
<1>6. 0 \in S
  BY <1>1
<1>7. ASSUME NEW k \in Nat, k \in S PROVE k + 1 \in S
  <2> DEFINE n == k + 1
             len == g[k]
             name == Names[n]
             size == Len(line)
             C == {c \in all : c <= k}
             D == {c \in all : c <= n}
  <2> SUFFICES ASSUME m <= n, n <= N PROVE Settled(line, g[n], n)
    OBVIOUS
  <2>1. n \in 1..N /\ n - 1 = k
    BY <1>1
  <2>2. CASE n \notin all
    <3>1. m <= k /\ k <= N
      BY <1>1, <2>2
    <3>2. Settled(line, g[k], k) /\ g[n] = g[k]
      BY <1>4, <1>7, <2>1, <2>2, <3>1
    <3>3. D = C
      BY <1>1, <2>2
    <3> HIDE DEF D, C, g
    <3> QED BY <3>2, <3>3 DEF Settled, D, C
  <2>3. CASE n = m
    <3>1. g[n] = Len(first) /\ D = {m}
      BY <1>1, <1>3, <1>4, <2>1, <2>3
    <3>2. Len(first) \in Nat /\ size <= Len(first)
      BY <1>1, <1>2, <1>3
    <3> HIDE DEF D, g, m, all
    <3> QED BY <3>1, <3>2, <1>3, <2>3 DEF Settled, D, all
  <2>4. CASE n \in all /\ n # m
    <3> DEFINE r == Narrow(size, first, len, name)
    <3>1. m <= k /\ k <= N
      BY <1>1, <2>4
    <3>2. Settled(line, len, k) /\ g[n] = r
      BY <1>4, <1>7, <2>1, <2>4, <3>1
    <3>3. /\ len \in Nat /\ size <= len /\ len <= Len(first)
          /\ \A c \in C : len <= Len(Names[c]) /\ \A i \in 1..len : first[i] = Names[c][i]
          /\ \E c \in C : \/ len = Len(Names[c])
                          \/ len < Len(Names[c]) /\ len < Len(first) /\ first[len + 1] # Names[c][len + 1]
      BY <3>2 DEF Settled
    <3>4. size \in Nat /\ Len(name) \in Nat /\ size <= Len(name) /\ \A i \in 1..size : first[i] = name[i]
      BY <1>1, <1>2, <1>5, <2>4
    <3>5. Len(first) \in Nat
      BY <1>1, <1>2, <1>3
    <3>6. D = C \cup {n}
      BY <1>1, <2>1, <2>4
    <3>7. \A c \in C : Len(Names[c]) \in Nat
      BY <1>2
    <3> HIDE DEF all, C, D, len, size, g, m, first, name, r
    <3>8. /\ r \in Nat /\ size <= r /\ r <= len /\ r <= Len(name)
          /\ \A i \in 1..r : first[i] = name[i]
          /\ r = len \/ r = Len(name) \/ (r < len /\ r < Len(name) /\ first[r + 1] # name[r + 1])
      <4>1. r = Narrow(size, first, len, name)
        BY DEF r
      <4>2. len \in Nat /\ size <= len
        BY <3>3
      <4>3. Agree(first, name, size)
        BY <3>4 DEF Agree
      <4>4. Narrowed(size, first, len, name, r)
        BY <4>1, <4>2, <4>3, <3>4, NarrowFacts
      <4> QED BY <4>4 DEF Narrowed, Agree
    <3>9. r <= Len(first)
      BY <3>3, <3>5, <3>8
    <3>10. ASSUME NEW c \in D PROVE r <= Len(Names[c]) /\ \A i \in 1..r : first[i] = Names[c][i]
      <4>1. CASE c \in C
        <5>1. r <= Len(Names[c])
          BY <4>1, <3>3, <3>7, <3>8
        <5>2. \A i \in 1..r : i \in 1..len
          BY <3>3, <3>8
        <5> QED BY <4>1, <5>1, <5>2, <3>3
      <4>2. CASE c = n
        BY <4>2, <3>8 DEF name
      <4> QED BY <4>1, <4>2, <3>6
    <3>11. \E c \in D : \/ r = Len(Names[c])
                        \/ r < Len(Names[c]) /\ r < Len(first) /\ first[r + 1] # Names[c][r + 1]
      <4>1. CASE r = len
        BY <4>1, <3>3, <3>6
      <4>2. CASE r = Len(name)
        BY <4>2, <3>6 DEF name
      <4>3. CASE r < len /\ r < Len(name) /\ first[r + 1] # name[r + 1]
        <5>1. r < Len(first)
          BY <4>3, <3>3, <3>5, <3>8
        <5> QED BY <4>3, <5>1, <3>6 DEF name
      <4> QED BY <4>1, <4>2, <4>3, <3>8
    <3> QED BY <3>2, <3>8, <3>9, <3>10, <3>11 DEF Settled, D, first, size, all
  <2> QED BY <2>2, <2>3, <2>4
<1>8. Nat \subseteq S
  <2> HIDE DEF S
  <2> QED BY <1>6, <1>7, SetInduction
<1>9. N \in S /\ m <= N
  BY <1>1, <1>8
<1> QED BY <1>1, <1>9 DEF CompletedLength

\* The line is a beginning of the first candidate, and the completion lies between the two.
LEMMA CompletionFacts ==
  ASSUME NEW line \in Seq(Letter), Candidates(line) # {}
  PROVE  LET length == CompletedLength(line, Len(line))
             first == First(line)
         IN  /\ first \in Seq(Letter) /\ Len(first) \in Nat /\ Len(first) + 3 <= CmdMaxSize
             /\ \A i \in 1..Len(line) : line[i] = first[i]
             /\ length \in Nat /\ Len(line) <= length /\ length <= Len(first)
<1> DEFINE C == Candidates(line)
<1>1. Min(C) \in C /\ Min(C) \in 1..Len(Names) /\ First(line) = Names[Min(C)]
  BY CandidateFacts DEF First
<1>2. \A i \in 1..Len(line) : line[i] = First(line)[i]
  BY <1>1, CandidateFacts
<1>3. First(line) \in Seq(Letter) /\ Len(First(line)) \in Nat /\ Len(First(line)) + 3 <= CmdMaxSize
  BY <1>1, NameFacts
<1> QED BY <1>2, <1>3, SettledByAll DEF Settled

\* It is the longest common prefix of the candidates.
LEMMA CompletionIsLongest ==
  ASSUME NEW line \in Seq(Letter), Candidates(line) # {}
  PROVE  SubSeq(First(line), 1, CompletedLength(line, Len(line))) = LongestCommonPrefix({Names[n] : n \in Candidates(line)})
<1> DEFINE C == Candidates(line)
           length == CompletedLength(line, Len(line))
           first == First(line)
           T == {Names[n] : n \in C}
           common == SubSeq(first, 1, length)
<1>1. C \subseteq 1..Len(Names) /\ Min(C) \in C /\ first = Names[Min(C)]
  BY CandidateFacts DEF First
<1>2. \A t \in T : t \in Seq(Letter)
  BY <1>1, NameFacts
<1>3. first \in T /\ first \in Seq(Letter)
  BY <1>1, <1>2
<1>4. /\ length \in Nat /\ length <= Len(first)
      /\ \A t \in T : length <= Len(t) /\ \A i \in 1..length : first[i] = t[i]
      /\ \E t \in T : length = Len(t) \/ (length < Len(t) /\ length < Len(first) /\ first[length + 1] # t[length + 1])
  <2>1. C \subseteq {c \in C : c <= Len(Names)}
    BY <1>1, NameFacts
  <2> QED BY <2>1, SettledByAll DEF Settled
<1> HIDE DEF length, first, C
<1>5. common \in Seq(Letter) /\ Len(common) = length /\ \A i \in 1..length : common[i] = first[i]
  BY <1>3, <1>4, SubSeqFacts
<1>6. common \in CommonPrefixes(T)
  <2>1. common \in Prefixes(first)
    <3>1. length \in 0..Len(first)
      BY <1>4
    <3> QED BY <3>1 DEF Prefixes
  <2>2. ASSUME NEW t \in T PROVE IsPrefix(common, t)
    <3>1. t \in Seq(Letter) /\ length <= Len(t) /\ \A i \in 1..length : first[i] = t[i]
      BY <1>2, <1>4
    <3> HIDE DEF common, T
    <3> QED BY <3>1, <1>5, PrefixFacts
  <2> HIDE DEF common, T
  <2> QED BY <2>1, <2>2, <1>3 DEF CommonPrefixes
<1>7. ASSUME NEW other \in CommonPrefixes(T)
      PROVE  other \in Seq(Letter) /\ Len(other) <= length /\ \A i \in 1..Len(other) : other[i] = first[i]
  <2>1. (\E t \in T : other \in Prefixes(t)) /\ \A t \in T : IsPrefix(other, t)
    BY DEF CommonPrefixes
  <2>2. PICK t \in T : other \in Prefixes(t)
    BY <2>1
  <2>3. other \in Seq(Letter)
    <3>1. PICK l \in 0..Len(t) : other = SubSeq(t, 1, l)
      BY <2>2 DEF Prefixes
    <3>2. t \in Seq(Letter) /\ l \in Nat /\ l <= Len(t)
      BY <1>2, <3>1
    <3> QED BY <3>1, <3>2, SubSeqFacts
  <2> DEFINE k == Len(other)
  <2>4. k \in Nat
    BY <2>3
  <2>5. \A u \in T : k <= Len(u) /\ \A i \in 1..k : other[i] = u[i]
    BY <1>2, <2>1, <2>3, PrefixFacts
  <2>6. PICK u \in T : length = Len(u) \/ (length < Len(u) /\ length < Len(first) /\ first[length + 1] # u[length + 1])
    BY <1>4
  <2>7. k <= Len(u) /\ Len(u) \in Nat /\ \A i \in 1..k : other[i] = u[i] /\ other[i] = first[i]
    BY <1>2, <1>3, <2>5, <2>6
  <2> HIDE DEF k, T
  <2>8. k <= length
    <3>1. SUFFICES ASSUME length < k PROVE FALSE
      BY <1>4, <2>4
    <3>2. length + 1 \in 1..k
      BY <3>1, <1>4, <2>4
    <3>3. first[length + 1] = u[length + 1]
      BY <3>2, <2>7
    <3>4. length # Len(u)
      BY <3>1, <2>4, <2>7, <1>4
    <3> QED BY <3>3, <3>4, <2>6
  <2> QED BY <2>3, <2>7, <2>8 DEF k
<1>8. ASSUME NEW longest \in CommonPrefixes(T), \A other \in CommonPrefixes(T) : Len(other) <= Len(longest)
      PROVE  longest = common
  <2>1. longest \in Seq(Letter) /\ Len(longest) <= length /\ \A i \in 1..Len(longest) : longest[i] = first[i]
    BY <1>7
  <2>2. length <= Len(longest)
    BY <1>5, <1>6, <1>8
  <2>3. Len(longest) = length
    BY <1>4, <2>1, <2>2
  <2> HIDE DEF common, T
  <2> QED BY <2>1, <2>3, <1>5, SeqEqual
<1>9. common = LongestCommonPrefix(T)
  <2>1. \A other \in CommonPrefixes(T) : Len(other) <= Len(common)
    BY <1>5, <1>7
  <2> HIDE DEF common, T
  <2> QED BY <1>6, <1>8, <2>1 DEF LongestCommonPrefix
<1> QED BY <1>9 DEF T, common, length, first, C

-----------------------------------------------------------------------------
(* The row of the terminal *)

Glyph == Letter \cup ToSet(Invitation)
Rows == [0..Width - 1 -> Glyph]
Margin == Len(Invitation)
Lines == Seq(Letter)
Chars == Letter \cup Keys \cup {NUL}

Editors ==
  [line : Lines, size : Nat, cursor : Nat, length : Nat, lastChar : Chars,
   escape : BOOLEAN, autocomplete : BOOLEAN, row : Rows, column : Nat]

\* Two states of the editor that differ in the row and the column alone.
SameLine(s, t) ==
  /\ t.line = s.line /\ t.size = s.size /\ t.cursor = s.cursor /\ t.length = s.length
  /\ t.lastChar = s.lastChar /\ t.escape = s.escape /\ t.autocomplete = s.autocomplete

\* The row has room for the prompt, a line and what may be written behind it.
LEMMA WidthFacts ==
  /\ Margin \in Nat /\ CmdMaxSize \in Nat /\ MaxLineLength \in Nat /\ 2 <= CmdMaxSize /\ CmdMaxSize <= MaxLineLength
  /\ Width \in Nat /\ Width = Margin + MaxLineLength + CmdMaxSize
  /\ Invitation \in Seq(Glyph) /\ Blank \in Glyph /\ Blank \in Letter /\ Letter \subseteq Glyph
<1>1. Invitation \in Seq(ToSet(Invitation)) /\ CmdMaxSize \in Nat /\ MaxLineLength \in Nat
  BY EditorAssumption
<1>2. Len(Invitation) \in Nat
  BY <1>1
<1>3. Invitation \in Seq(Glyph)
  <2>1. \A i \in 1..Len(Invitation) : Invitation[i] \in Glyph
    BY <1>1 DEF Glyph
  <2> QED BY <1>1, <2>1
<1> QED BY <1>1, <1>2, <1>3, EditorAssumption DEF Width, Margin, Glyph

LEMMA SpacesFacts ==
  ASSUME NEW n \in Int
  PROVE  /\ Spaces(n) \in Seq(Letter) /\ Len(Spaces(n)) = IF 0 < n THEN n ELSE 0
         /\ \A i \in 1..Len(Spaces(n)) : Spaces(n)[i] = Blank
<1> DEFINE m == IF 0 < n THEN n ELSE 0
<1>1. Max({0, n}) = m
  BY DEF Max
<1>2. m \in Nat
  OBVIOUS
<1> HIDE DEF m
<1>3. Spaces(n) = [i \in 1..m |-> Blank]
  BY <1>1 DEF Spaces
<1> QED BY <1>2, <1>3, WidthFacts DEF m

\* The new row is the old one with n characters written from column p on.
Written(old, new, p, str, n) ==
  \A i \in 0..Width - 1 : new[i] = IF p <= i /\ i < p + n THEN str[i - p + 1] ELSE old[i]

\* Writing changes the row from the cursor on, the column, and nothing of the line.
LEMMA PutFacts ==
  ASSUME NEW s \in Editors, NEW str \in Seq(Glyph), NEW t, t = Put(s, str)
  PROVE  /\ t \in Editors /\ SameLine(s, t) /\ t.column = s.column + Len(str)
         /\ Written(s.row, t.row, s.column, str, Len(str))
<1> DEFINE p == s.column
           len == Len(str)
           row == [i \in 0..Width - 1 |-> IF i \in p..p + len - 1 THEN str[i - p + 1] ELSE s.row[i]]
<1>1. p \in Nat /\ len \in Nat /\ s.row \in [0..Width - 1 -> Glyph] /\ Width \in Nat
  BY WidthFacts DEF Editors, Rows
<1>2. t = [s EXCEPT !.row = row, !.column = p + len]
  BY <1>1 DEF Put
<1>3. row \in Rows
  <2>1. ASSUME NEW i \in 0..Width - 1, i \in p..p + len - 1 PROVE str[i - p + 1] \in Glyph
    <3>1. i - p + 1 \in 1..len
      BY <1>1, <2>1
    <3> QED BY <3>1
  <2> QED BY <1>1, <2>1 DEF Rows
<1>4. \A i \in 0..Width - 1 : row[i] = IF p <= i /\ i < p + len THEN str[i - p + 1] ELSE s.row[i]
  BY <1>1
<1> HIDE DEF row
<1>5. t \in Editors
  <2> DEFINE column == p + len
  <2>1. column \in Nat /\ t = [s EXCEPT !.row = row, !.column = column]
    BY <1>1, <1>2
  <2> HIDE DEF column
  <2> QED BY <1>3, <2>1 DEF Editors
<1>6. SameLine(s, t) /\ t.row = row /\ t.column = p + len
  BY <1>2 DEF Editors, SameLine
<1> QED BY <1>4, <1>5, <1>6 DEF Written

-----------------------------------------------------------------------------
(* The line on the terminal *)

\* The row shows the invitation and the line, and nothing from extent on.
Painted(row, line, extent) ==
  \A i \in 0..Width - 1 :
    /\ i < Margin => row[i] = Invitation[i + 1]
    /\ Margin <= i /\ i < Margin + Len(line) => row[i] = line[i - Margin + 1]
    /\ Margin + extent <= i => row[i] = Blank

Extent(s) == IF s.autocomplete THEN s.length ELSE s.size

\* What holds of the editor before the live autocompletion is printed.
Lined(s) ==
  /\ s.size = Len(s.line) /\ s.size + 2 <= CmdMaxSize /\ s.cursor <= s.size
  /\ s.size <= s.length /\ s.length <= MaxLineLength
  /\ s.column = Margin + s.size - s.cursor
  /\ Painted(s.row, s.line, Extent(s))

Offers(row, p, offer, l) == \A i \in 1..l : row[p + i - 1] = offer[i]

\* The live autocompletion is shown behind the line, and counted.
Offered(s) ==
  s.autocomplete =>
    /\ s.length = s.size + Len(Offer(s))
    /\ Offers(s.row, Margin + s.size, Offer(s), Len(Offer(s)))

LEMMA EditorFacts ==
  ASSUME NEW s \in Editors
  PROVE  /\ s.line \in Seq(Letter) /\ Len(s.line) \in Nat /\ DOMAIN s.line = 1..Len(s.line)
         /\ s.size \in Nat /\ s.cursor \in Nat /\ s.length \in Nat /\ s.column \in Nat
         /\ s.row \in Rows /\ Extent(s) \in Nat
<1>1. s.line \in Seq(Letter) /\ s.size \in Nat /\ s.cursor \in Nat /\ s.length \in Nat /\ s.column \in Nat /\ s.row \in Rows
  BY DEF Editors, Lines
<1> QED BY <1>1 DEF Extent

\* The numbers of a lined editor.
LEMMA LinedFacts ==
  ASSUME NEW s \in Editors, Lined(s)
  PROVE  /\ s.size \in Nat /\ s.cursor \in Nat /\ s.column \in Nat /\ s.length \in Nat /\ s.line \in Seq(Letter)
         /\ s.size = Len(s.line) /\ s.cursor <= s.size /\ s.size <= s.length /\ s.length <= MaxLineLength
         /\ s.size + 2 <= CmdMaxSize /\ s.column = Margin + s.size - s.cursor
         /\ CmdMaxSize \in Nat /\ MaxLineLength \in Nat /\ CmdMaxSize <= MaxLineLength /\ Margin \in Nat
         /\ Extent(s) \in Nat /\ s.size <= Extent(s) /\ Extent(s) <= MaxLineLength /\ Painted(s.row, s.line, Extent(s))
<1> DEFINE size == s.size
           length == s.length
           extent == Extent(s)
<1>1. /\ size \in Nat /\ s.cursor \in Nat /\ s.column \in Nat /\ length \in Nat /\ s.line \in Seq(Letter)
      /\ extent \in Nat
  BY EditorFacts
<1>2. CmdMaxSize \in Nat /\ MaxLineLength \in Nat /\ CmdMaxSize <= MaxLineLength /\ Margin \in Nat
  BY WidthFacts
<1>3. /\ size = Len(s.line) /\ s.cursor <= size /\ size <= length /\ length <= MaxLineLength
      /\ size + 2 <= CmdMaxSize /\ s.column = Margin + size - s.cursor /\ Painted(s.row, s.line, extent)
  BY DEF Lined
<1>4. extent = length \/ extent = size
  BY DEF Extent
<1> HIDE DEF size, length, extent
<1>5. size <= extent /\ extent <= MaxLineLength
  BY <1>1, <1>2, <1>3, <1>4
<1> QED BY <1>1, <1>2, <1>3, <1>5 DEF size, length, extent

\* The offer is what the first candidate has behind the line, up to the completion.
LEMMA OfferFacts ==
  ASSUME NEW s \in Editors, s.size = Len(s.line), s.size + 2 <= CmdMaxSize
  PROVE  /\ Offer(s) \in Seq(Letter) /\ Len(Offer(s)) \in Nat /\ s.size + Len(Offer(s)) <= MaxLineLength
         /\ \A i \in 1..Len(Offer(s)) : Offer(s)[i] = First(s.line)[s.size + i]
         /\ Candidates(s.line) # {} => s.size + Len(Offer(s)) = CompletedLength(s.line, s.size)
<1> DEFINE offer == Offer(s)
           line == s.line
           size == s.size
           first == First(line)
           length == CompletedLength(line, size)
<1>1. line \in Seq(Letter) /\ size \in Nat
  BY EditorFacts
<1>2. CASE Candidates(line) = {}
  <2>1. offer = <<>>
    BY <1>2 DEF Offer
  <2>2. offer \in Seq(Letter) /\ Len(offer) = 0
    BY <2>1
  <2>3. size + 2 <= CmdMaxSize
    OBVIOUS
  <2> HIDE DEF offer, size
  <2>4. size + 0 <= MaxLineLength
    BY <1>1, <2>3, WidthFacts
  <2> QED BY <1>2, <2>2, <2>4 DEF offer, size
<1>3. CASE Candidates(line) # {}
  <2>1. /\ first \in Seq(Letter) /\ Len(first) \in Nat /\ Len(first) + 3 <= CmdMaxSize
        /\ length \in Nat /\ size <= length /\ length <= Len(first)
    BY <1>1, <1>3, CompletionFacts
  <2>2. offer = SubSeq(first, size + 1, length)
    BY <1>3 DEF Offer
  <2> HIDE DEF first, length, size, offer
  <2>3. offer \in Seq(Letter) /\ Len(offer) = length - size /\ \A i \in 1..length - size : offer[i] = first[size + i]
    BY <1>1, <2>1, <2>2
  <2>4. size + Len(offer) = length /\ length <= MaxLineLength
    BY <1>1, <2>1, <2>3, WidthFacts
  <2> QED BY <2>3, <2>4, <1>1, <2>1 DEF first, length, size, offer
<1> QED BY <1>2, <1>3

Padded(str, offer, l, n) == \A i \in 1..n : str[i] = IF i <= l THEN offer[i] ELSE Blank

\* Writing an offer and blanks behind the line.
LEMMA OfferPainted ==
  ASSUME NEW old, NEW new, NEW line, NEW offer, NEW str, NEW size \in Nat, NEW extent \in Nat, NEW l \in Nat, NEW n \in Nat,
         Len(line) = size, size <= extent, l <= n, extent <= size + n, size + l <= MaxLineLength,
         Painted(old, line, extent),
         Written(old, new, Margin + size, str, n), Padded(str, offer, l, n)
  PROVE  /\ Painted(new, line, size + l)
         /\ Offers(new, Margin + size, offer, l)
<1>0. Margin \in Nat /\ Width \in Nat /\ MaxLineLength \in Nat /\ Margin + MaxLineLength <= Width
  BY WidthFacts
<1> DEFINE p == Margin + size
<1>1. p \in Nat /\ p = Margin + size
  BY <1>0
<1> HIDE DEF p
<1>2. ASSUME NEW i \in 0..Width - 1
      PROVE  /\ i < Margin => new[i] = Invitation[i + 1]
             /\ Margin <= i /\ i < Margin + Len(line) => new[i] = line[i - Margin + 1]
             /\ Margin + (size + l) <= i => new[i] = Blank
  <2>1. /\ i < Margin => old[i] = Invitation[i + 1]
        /\ Margin <= i /\ i < p => old[i] = line[i - Margin + 1]
        /\ Margin + extent <= i => old[i] = Blank
    BY <1>1 DEF Painted
  <2>2. new[i] = IF p <= i /\ i < p + n THEN str[i - p + 1] ELSE old[i]
    BY <1>1 DEF Written
  <2>3. CASE i < p
    <3>1. new[i] = old[i] /\ ~ Margin + (size + l) <= i
      BY <1>0, <1>1, <2>2, <2>3
    <3> QED BY <2>1, <3>1, <1>1
  <2>4. CASE p <= i /\ i < p + n
    <3>1. i - p + 1 \in 1..n /\ (Margin + (size + l) <= i => ~ i - p + 1 <= l) /\ ~ i < Margin
      BY <1>0, <1>1, <2>4
    <3> QED BY <2>2, <2>4, <3>1, <1>1 DEF Padded
  <2>5. CASE p + n <= i
    <3>1. Margin + extent <= i /\ ~ i < p + n /\ ~ i < p /\ ~ i < Margin
      BY <1>0, <1>1, <2>5
    <3> QED BY <2>1, <2>2, <3>1, <1>1
  <2> QED BY <2>3, <2>4, <2>5, <1>1
<1>3. ASSUME NEW i \in 1..l PROVE new[Margin + size + i - 1] = offer[i]
  <2> DEFINE j == p + i - 1
  <2>1. j \in 0..Width - 1 /\ p <= j /\ j < p + n /\ j - p + 1 = i /\ i \in 1..n /\ i <= l
    BY <1>0, <1>1
  <2> HIDE DEF j
  <2>2. new[j] = offer[i]
    BY <1>1, <2>1 DEF Written, Padded
  <2> QED BY <1>1, <2>2 DEF j
<1> QED BY <1>2, <1>3 DEF Painted, Offers

\* printLiveAutocompletion: whatever was offered before, the row ends with the new offer.
LEMMA LiveFacts ==
  ASSUME NEW s \in Editors, Lined(s), NEW t, t = Live(s)
  PROVE  /\ t \in Editors /\ Lined(t) /\ Offered(t)
         /\ t.line = s.line /\ t.size = s.size /\ t.cursor = s.cursor
<1>1. CASE ~ s.autocomplete
  <2>1. t = s
    BY <1>1 DEF Live
  <2> QED BY <1>1, <2>1 DEF Offered
<1>2. CASE s.autocomplete
  <2> DEFINE offer == Offer(s)
             length == s.size + Len(offer)
             blanks == Spaces(s.length - length)
             str == offer \o blanks
             forward == CursorForward(s, s.cursor)
             written == Put(forward, str)
             size == s.size
             p == Margin + size
  <2>1. /\ s.line \in Seq(Letter) /\ size \in Nat /\ s.cursor \in Nat /\ s.length \in Nat /\ s.column \in Nat
        /\ size = Len(s.line) /\ size + 2 <= CmdMaxSize /\ s.cursor <= size /\ size <= s.length /\ s.length <= MaxLineLength
        /\ s.column = Margin + size - s.cursor /\ Painted(s.row, s.line, s.length)
    BY <1>2, EditorFacts DEF Lined, Extent
  <2>2. offer \in Seq(Letter) /\ Len(offer) \in Nat /\ size + Len(offer) <= MaxLineLength
    BY <2>1, OfferFacts
  <2>3. length \in Nat /\ length = size + Len(offer) /\ s.length - length \in Int
    BY <2>1, <2>2
  <2> HIDE DEF offer, length
  <2>4. blanks \in Seq(Letter) /\ Len(blanks) \in Nat /\ Len(blanks) = (IF 0 < s.length - length THEN s.length - length ELSE 0)
        /\ \A i \in 1..Len(blanks) : blanks[i] = Blank
    <3> DEFINE n == s.length - length
    <3>1. n \in Int
      BY <2>3
    <3> HIDE DEF n
    <3>2. Spaces(n) \in Seq(Letter) /\ Len(Spaces(n)) = (IF 0 < n THEN n ELSE 0) /\ \A i \in 1..Len(Spaces(n)) : Spaces(n)[i] = Blank
      BY <3>1, SpacesFacts
    <3> QED BY <3>2 DEF n
  <2> HIDE DEF blanks
  <2>5. /\ str \in Seq(Glyph) /\ Len(str) = Len(offer) + Len(blanks)
        /\ \A i \in 1..Len(offer) + Len(blanks) : str[i] = IF i <= Len(offer) THEN offer[i] ELSE Blank
    <3>1. Letter \subseteq Glyph
      BY WidthFacts
    <3>2. offer \in Seq(Glyph) /\ blanks \in Seq(Glyph)
      BY <2>2, <2>4, <3>1
    <3>3. str \in Seq(Glyph) /\ Len(str) = Len(offer) + Len(blanks)
      BY <3>2
    <3>4. ASSUME NEW i \in 1..Len(offer) + Len(blanks) PROVE str[i] = IF i <= Len(offer) THEN offer[i] ELSE Blank
      <4>1. str[i] = IF i <= Len(offer) THEN offer[i] ELSE blanks[i - Len(offer)]
        BY <3>2
      <4>2. ~ i <= Len(offer) => i - Len(offer) \in 1..Len(blanks)
        BY <2>2, <2>4
      <4> QED BY <4>1, <4>2, <2>4
    <3> QED BY <3>3, <3>4
  <2> HIDE DEF str, p
  <2>6. forward \in Editors /\ SameLine(s, forward) /\ forward.row = s.row /\ forward.column = p
    <3>1. forward = [s EXCEPT !.column = p] /\ p \in Nat
      <4>1. s.column + s.cursor = p /\ p \in Nat
        BY <2>1, WidthFacts DEF p
      <4>2. forward = [s EXCEPT !.column = s.column + s.cursor]
        BY DEF CursorForward
      <4> QED BY <4>1, <4>2
    <3> HIDE DEF forward
    <3> QED BY <3>1 DEF Editors, SameLine
  <2> HIDE DEF forward
  <2>7. /\ written \in Editors /\ SameLine(forward, written)
        /\ Written(s.row, written.row, p, str, Len(str))
    BY <2>5, <2>6, PutFacts
  <2> HIDE DEF written
  <2>8. t = [written EXCEPT !.length = length, !.column = s.column]
    BY <1>2 DEF Live, written, forward, str, blanks, length, offer
  <2>9. t \in Editors
    <3> DEFINE column == s.column
    <3>1. column \in Nat /\ t = [written EXCEPT !.length = length, !.column = column]
      BY <2>1, <2>8
    <3> HIDE DEF column
    <3> QED BY <2>3, <2>7, <3>1 DEF Editors
  <2>10. /\ t.line = s.line /\ t.size = s.size /\ t.cursor = s.cursor /\ t.autocomplete = s.autocomplete
         /\ t.length = length /\ t.column = s.column /\ t.row = written.row
    BY <2>6, <2>7, <2>8 DEF SameLine, Editors
  <2>11. /\ Painted(t.row, t.line, size + Len(offer))
         /\ Offers(t.row, Margin + size, offer, Len(offer))
    <3> DEFINE l == Len(offer)
               n == Len(str)
               extent == s.length
               line == s.line
    <3>1. /\ l \in Nat /\ n \in Nat /\ extent \in Nat /\ size \in Nat /\ l <= n /\ extent <= size + n /\ size <= extent
          /\ Len(line) = size /\ size + l <= MaxLineLength
      <4> DEFINE b == Len(blanks)
      <4>1. /\ l \in Nat /\ b \in Nat /\ n = l + b /\ size \in Nat /\ extent \in Nat /\ size <= extent
            /\ Len(line) = size /\ size + l <= MaxLineLength
            /\ length = size + l /\ b = IF 0 < extent - length THEN extent - length ELSE 0
        BY <2>1, <2>2, <2>3, <2>4, <2>5
      <4> HIDE DEF l, n, b, extent, size, line
      <4> QED BY <4>1
    <3>2. Painted(s.row, line, extent)
      BY <2>1
    <3>3. Written(s.row, t.row, Margin + size, str, n)
      BY <2>7, <2>10 DEF p
    <3>4. Padded(str, offer, l, n)
      BY <2>5 DEF Padded
    <3>5. t.line = line
      BY <2>10
    <3> HIDE DEF l, n, extent, size, line
    <3>6. Painted(t.row, line, size + l) /\ Offers(t.row, Margin + size, offer, l)
      BY <3>1, <3>2, <3>3, <3>4, OfferPainted
    <3> QED BY <3>5, <3>6 DEF l
  <2>12. Lined(t)
    BY <1>2, <2>1, <2>2, <2>3, <2>10, <2>11 DEF Lined, Extent
  <2>13. Offer(t) = offer
    BY <2>10 DEF Offer, offer
  <2>15. Offered(t)
    BY <2>3, <2>10, <2>11, <2>13 DEF Offered
  <2> QED BY <2>9, <2>10, <2>12, <2>15
<1> QED BY <1>1, <1>2

-----------------------------------------------------------------------------
(* Clearing, showing and expanding the line *)

\* clearCurrentLine: the row is blank and the cursor at its beginning.
LEMMA ClearFacts ==
  ASSUME NEW s \in Editors, Lined(s), NEW t, t = ClearCurrentLine(s)
  PROVE  /\ t \in Editors /\ t.row = BlankRow /\ t.column = 0 /\ t.length = 0 /\ t.cursor = 0
         /\ t.line = s.line /\ t.size = s.size
<1> DEFINE back == Return(s)
           n == s.length + Len(Invitation)
           blanks == Spaces(n)
           written == Put(back, blanks)
<1>1. /\ s.size = Len(s.line) /\ s.size \in Nat /\ s.length \in Nat /\ s.size <= s.length /\ s.row \in Rows
      /\ Painted(s.row, s.line, Extent(s)) /\ Extent(s) \in Nat /\ Extent(s) <= s.length
  BY EditorFacts DEF Lined, Extent
<1>2. n \in Nat /\ n = Margin + s.length
  BY <1>1, WidthFacts DEF Margin
<1> HIDE DEF n
<1>3. blanks \in Seq(Glyph) /\ Len(blanks) = n /\ \A i \in 1..n : blanks[i] = Blank
  <2>1. blanks \in Seq(Letter) /\ Len(blanks) = n /\ \A i \in 1..n : blanks[i] = Blank
    <3>1. n \in Int /\ (IF 0 < n THEN n ELSE 0) = n
      BY <1>2
    <3> QED BY <3>1, SpacesFacts
  <2> HIDE DEF blanks
  <2> QED BY <2>1, WidthFacts
<1>4. back \in Editors /\ SameLine(s, back) /\ back.row = s.row /\ back.column = 0
  BY DEF Return, Editors, SameLine
<1> HIDE DEF blanks, back
<1>5. written \in Editors /\ SameLine(back, written) /\ Written(s.row, written.row, 0, blanks, n)
  BY <1>3, <1>4, PutFacts
<1> HIDE DEF written
<1>6. t = [Return(written) EXCEPT !.length = 0, !.cursor = 0]
  BY DEF ClearCurrentLine, written, back, blanks, n
<1>7. written.row = BlankRow
  <2> DEFINE extent == Extent(s)
             length == s.length
             row == written.row
  <2>1. extent \in Nat /\ length \in Nat /\ extent <= length /\ n = Margin + length
    BY <1>1, <1>2
  <2>2. row \in [0..Width - 1 -> Glyph]
    BY <1>5, EditorFacts DEF Rows
  <2>3. \A i \in 0..Width - 1 : Margin + extent <= i => s.row[i] = Blank
    BY <1>1 DEF Painted
  <2>4. \A i \in 0..Width - 1 : row[i] = IF 0 <= i /\ i < 0 + n THEN blanks[i - 0 + 1] ELSE s.row[i]
    BY <1>5 DEF Written
  <2> HIDE DEF extent, length, row
  <2>5. ASSUME NEW i \in 0..Width - 1 PROVE row[i] = Blank
    <3>1. CASE i < n
      <4>1. i - 0 + 1 \in 1..n /\ 0 <= i /\ i < 0 + n
        BY <3>1, <1>2, WidthFacts
      <4> QED BY <4>1, <1>3, <2>4
    <3>2. CASE n <= i
      <4>1. Margin + extent <= i /\ ~ i < 0 + n
        BY <3>2, <1>2, <2>1, WidthFacts
      <4> QED BY <4>1, <2>3, <2>4
    <3> QED BY <3>1, <3>2, <1>2, WidthFacts
  <2> QED BY <2>2, <2>5 DEF BlankRow, row
<1> QED BY <1>4, <1>5, <1>6, <1>7 DEF Return, Editors, SameLine

\* The prompt and the line on a blank row.
LEMMA ShowLineFacts ==
  ASSUME NEW s \in Editors, s.row = BlankRow, s.column = 0, s.size = Len(s.line), s.size + 2 <= CmdMaxSize,
         NEW t, t = ShowLine(s)
  PROVE  /\ t \in Editors /\ t.line = s.line /\ t.size = s.size /\ t.cursor = s.cursor /\ t.length = s.size
         /\ t.column = Margin + s.size /\ Painted(t.row, t.line, s.size)
<1> DEFINE a == Put(s, Invitation)
           b == Put(a, s.line)
           size == s.size
<1>1. s.line \in Seq(Letter) /\ size \in Nat /\ Invitation \in Seq(Glyph) /\ Margin \in Nat /\ s.line \in Seq(Glyph)
      /\ size = Len(s.line) /\ Margin = Len(Invitation)
  BY EditorFacts, WidthFacts DEF Margin
<1>2. a \in Editors /\ SameLine(s, a) /\ a.column = Margin /\ Written(BlankRow, a.row, 0, Invitation, Margin)
  <2>1. a \in Editors /\ SameLine(s, a) /\ a.column = 0 + Margin /\ Written(BlankRow, a.row, 0, Invitation, Margin)
    BY <1>1, PutFacts
  <2> QED BY <1>1, <2>1
<1> HIDE DEF a, b
<1>3. b \in Editors /\ SameLine(a, b) /\ b.column = Margin + size /\ Written(a.row, b.row, Margin, s.line, size)
  <2>1. b = Put(a, s.line)
    BY DEF b
  <2>2. b \in Editors /\ SameLine(a, b) /\ b.column = a.column + Len(s.line) /\ Written(a.row, b.row, a.column, s.line, Len(s.line))
    BY <2>1, <1>1, <1>2, PutFacts
  <2> QED BY <1>1, <1>2, <2>2
<1>4. t = [b EXCEPT !.length = s.size]
  BY DEF ShowLine, a, b
<1>5. Painted(b.row, s.line, size)
  <2> DEFINE line == s.line
             new == b.row
             old == a.row
  <2>1. Len(line) = size /\ size \in Nat /\ Margin \in Nat /\ Width \in Nat
    BY <1>1, WidthFacts
  <2>2. \A i \in 0..Width - 1 : old[i] = IF 0 <= i /\ i < 0 + Margin THEN Invitation[i - 0 + 1] ELSE Blank
    BY <1>2 DEF Written, BlankRow
  <2>3. \A i \in 0..Width - 1 : new[i] = IF Margin <= i /\ i < Margin + size THEN line[i - Margin + 1] ELSE old[i]
    BY <1>3 DEF Written
  <2> HIDE DEF line, new, old, size
  <2>4. ASSUME NEW i \in 0..Width - 1
        PROVE  /\ i < Margin => new[i] = Invitation[i + 1]
               /\ Margin <= i /\ i < Margin + Len(line) => new[i] = line[i - Margin + 1]
               /\ Margin + size <= i => new[i] = Blank
    <3>1. i - 0 + 1 = i + 1 /\ i \in Int /\ 0 <= i
      BY <2>1
    <3> QED BY <2>1, <2>2, <2>3, <3>1
  <2> QED BY <2>4 DEF Painted, line, new
<1> QED BY <1>1, <1>2, <1>3, <1>4, <1>5 DEF SameLine, Editors

\* Writing the end of a longer line that begins with the line shown.
IsRestOf(str, line, from, n) == \A i \in 1..n : str[i] = line[from + i]

\* What is written behind a common beginning completes the line on the row.
LEMMA ExpandPainted ==
  ASSUME NEW old, NEW new, NEW line, NEW longer, NEW str, NEW extent \in Nat, NEW from \in Nat, NEW n \in Nat,
         Len(line) \in Nat, from <= Len(line), Len(longer) = from + n, Len(line) <= Len(longer), extent <= Len(longer),
         Agree(line, longer, Len(line)), Painted(old, line, extent),
         Written(old, new, Margin + from, str, n), IsRestOf(str, longer, from, n)
  PROVE  Painted(new, longer, Len(longer))
<1> DEFINE l == Len(line)
           m == Len(longer)
           p == Margin + from
<1>1. Margin \in Nat /\ Width \in Nat /\ p \in Nat /\ p = Margin + from /\ l \in Nat /\ m \in Nat
      /\ from <= l /\ l <= m /\ m = from + n /\ extent <= m
  BY WidthFacts
<1>2. \A i \in 0..Width - 1 : new[i] = IF p <= i /\ i < p + n THEN str[i - p + 1] ELSE old[i]
  BY DEF Written
<1>3. \A i \in 0..Width - 1 : /\ i < Margin => old[i] = Invitation[i + 1]
                              /\ Margin <= i /\ i < Margin + l => old[i] = line[i - Margin + 1]
                              /\ Margin + extent <= i => old[i] = Blank
  BY DEF Painted
<1>4. (\A i \in 1..l : line[i] = longer[i]) /\ \A i \in 1..n : str[i] = longer[from + i]
  BY DEF Agree, IsRestOf
<1> HIDE DEF l, m, p
<1>5. ASSUME NEW i \in 0..Width - 1
      PROVE  /\ i < Margin => new[i] = Invitation[i + 1]
             /\ Margin <= i /\ i < Margin + m => new[i] = longer[i - Margin + 1]
             /\ Margin + m <= i => new[i] = Blank
  <2>1. CASE i < Margin
    <3>1. ~ p <= i /\ ~ Margin <= i /\ ~ Margin + m <= i
      BY <2>1, <1>1
    <3> QED BY <2>1, <3>1, <1>2, <1>3
  <2>2. CASE Margin <= i /\ i < p
    <3>1. i - Margin + 1 \in 1..l /\ i < Margin + l /\ ~ i < Margin /\ ~ Margin + m <= i
      BY <2>2, <1>1
    <3> QED BY <2>2, <3>1, <1>1, <1>2, <1>3, <1>4
  <2>3. CASE p <= i /\ i < p + n
    <3>1. i - p + 1 \in 1..n /\ from + (i - p + 1) = i - Margin + 1 /\ ~ i < Margin /\ ~ Margin + m <= i
      BY <2>3, <1>1
    <3> QED BY <2>3, <3>1, <1>2, <1>4
  <2>4. CASE p + n <= i
    <3>1. Margin + extent <= i /\ ~ i < Margin /\ ~ i < Margin + m /\ ~ i < p + n
      BY <2>4, <1>1
    <3> QED BY <3>1, <1>2, <1>3
  <2> QED BY <2>1, <2>2, <2>3, <2>4, <1>1
<1> QED BY <1>5 DEF Painted, m

\* What SubSeq leaves when the beginning is taken away.
LEMMA SuffixFacts ==
  ASSUME NEW T, NEW s \in Seq(T), NEW m \in Nat, m <= Len(s)
  PROVE  LET u == SubSeq(s, m + 1, Len(s)) IN u \in Seq(T) /\ Len(u) = Len(s) - m /\ IsRestOf(u, s, m, Len(s) - m)
<1> DEFINE n == Len(s) - m
           u == SubSeq(s, m + 1, Len(s))
<1>1. n \in Nat /\ Len(s) = m + n
  OBVIOUS
<1> HIDE DEF n
<1>2. u = [i \in 1..n |-> s[m + i]]
  BY <1>1
<1>3. \A i \in 1..n : s[m + i] \in T
  BY <1>1
<1> HIDE DEF u
<1>4. u \in Seq(T) /\ Len(u) = n /\ \A i \in 1..n : u[i] = s[m + i]
  BY <1>1, <1>2, <1>3
<1> QED BY <1>4 DEF IsRestOf, n, u

LEMMA ResizeType ==
  ASSUME NEW s \in Editors, NEW line \in Lines, NEW size \in Nat, NEW length \in Nat,
         NEW t, t = [s EXCEPT !.line = line, !.size = size, !.length = length, !.cursor = 0]
  PROVE  t \in Editors
BY DEF Editors

\* onAutocompleteRequest, expanding: only the right part is written, and the whole line is shown.
LEMMA ExpandFacts ==
  ASSUME NEW s \in Editors, Lined(s), NEW line \in Seq(Letter), Len(s.line) <= Len(line), Agree(s.line, line, Len(s.line)),
         Extent(s) <= Len(line), Len(line) + 2 <= CmdMaxSize, NEW t, t = Expand(s, line)
  PROVE  t \in Editors /\ Lined(t)
<1> DEFINE part == ExpandedPart(s, line)
           written == Put(s, part)
           from == s.size - s.cursor
           n == Len(line) - from
           extent == Extent(s)
           m == Len(line)
<1>1. /\ s.size \in Nat /\ s.cursor \in Nat /\ s.cursor <= s.size /\ s.size = Len(s.line) /\ extent \in Nat /\ s.size <= m
      /\ extent <= m /\ m \in Nat /\ s.column \in Nat /\ s.column = Margin + s.size - s.cursor /\ Painted(s.row, s.line, extent)
      /\ m + 2 <= CmdMaxSize
  BY EditorFacts DEF Lined
<1>2. /\ from \in Nat /\ n \in Nat /\ from <= s.size /\ m = from + n /\ s.column = Margin + from
      /\ s.column + n = Margin + m /\ m <= MaxLineLength
  <2> DEFINE size == s.size
             cursor == s.cursor
  <2>1. size \in Nat /\ cursor \in Nat /\ cursor <= size /\ size <= m /\ m \in Nat /\ s.column = Margin + size - cursor
        /\ m + 2 <= CmdMaxSize
    BY <1>1
  <2>2. from = size - cursor
    OBVIOUS
  <2> HIDE DEF size, cursor, m, from
  <2>3. from \in Nat /\ n \in Nat /\ from <= size /\ m = from + n /\ s.column = Margin + from
    BY <2>1, <2>2, WidthFacts DEF m
  <2> HIDE DEF n
  <2>4. s.column + n = Margin + m /\ m <= MaxLineLength
    BY <2>1, <2>3, WidthFacts
  <2> QED BY <2>3, <2>4 DEF size
<1>3. part \in Seq(Glyph) /\ Len(part) = n /\ IsRestOf(part, line, from, n)
  <2>1. line \in Seq(Glyph)
    BY WidthFacts
  <2>2. from \in Nat /\ from <= Len(line)
    BY <1>1, <1>2
  <2> HIDE DEF from
  <2> QED BY <2>1, <2>2, SuffixFacts DEF ExpandedPart, from
<1> HIDE DEF part
<1>4. written \in Editors /\ SameLine(s, written) /\ written.column = s.column + n /\ Written(s.row, written.row, s.column, part, n)
  BY <1>3, PutFacts
<1> HIDE DEF written
<1>5. t = [written EXCEPT !.line = line, !.size = m, !.length = m, !.cursor = 0]
  BY DEF Expand, written, part
<1>6. t \in Editors
  <2>1. m \in Nat /\ written \in Editors /\ line \in Lines
    BY <1>1, <1>4 DEF Lines
  <2> HIDE DEF m
  <2> QED BY <1>5, <2>1, ResizeType
<1>7. t.line = line /\ t.size = m /\ t.length = m /\ t.cursor = 0 /\ t.column = Margin + m /\ t.row = written.row
  BY <1>2, <1>4, <1>5 DEF Editors
<1>8. Painted(t.row, t.line, m)
  <2> DEFINE short == s.line
             old == s.row
             new == written.row
  <2>1. Len(short) \in Nat /\ from <= Len(short) /\ Len(line) = from + n /\ Len(short) <= Len(line) /\ extent <= Len(line)
    BY <1>1, <1>2
  <2>2. Agree(short, line, Len(short)) /\ Painted(old, short, extent) /\ Written(old, new, Margin + from, part, n)
    BY <1>1, <1>2, <1>4
  <2>3. extent \in Nat /\ from \in Nat /\ n \in Nat
    BY <1>1, <1>2
  <2> HIDE DEF short, old, new, extent, from, n
  <2>4. Painted(new, line, Len(line))
    BY <1>3, <2>1, <2>2, <2>3, ExpandPainted
  <2> QED BY <1>7, <2>4 DEF new
<1>9. Extent(t) = m
  BY <1>7 DEF Extent
<1>10. m = Len(line) /\ m + 2 <= CmdMaxSize /\ 0 <= m /\ m <= m /\ Margin + m = Margin + m - 0
  BY <1>1, WidthFacts
<1> QED BY <1>2, <1>6, <1>7, <1>8, <1>9, <1>10 DEF Lined

\* A new row is blank.
LEMMA LineBreakFacts ==
  ASSUME NEW s \in Editors, NEW t, t = LineBreak(s)
  PROVE  /\ t \in Editors /\ t.row = BlankRow /\ t.column = 0 /\ SameLine(s, t)
<1>1. BlankRow \in Rows
  BY WidthFacts DEF BlankRow, Rows
<1> HIDE DEF BlankRow
<1> QED BY <1>1 DEF LineBreak, Editors, SameLine

\* The line shown again from the beginning of a row, with the cursor at its end.
LEMMA ShownIsLined ==
  ASSUME NEW s \in Editors, s.row = BlankRow, s.column = 0, s.size = Len(s.line), s.size + 2 <= CmdMaxSize, s.cursor = 0,
         NEW t, t = ShowLine(s)
  PROVE  t \in Editors /\ Lined(t)
<1> DEFINE size == s.size
<1>1. /\ t \in Editors /\ t.line = s.line /\ t.size = size /\ t.cursor = 0 /\ t.length = size
      /\ t.column = Margin + size /\ Painted(t.row, t.line, size)
  BY ShowLineFacts
<1>2. size \in Nat /\ size + 2 <= CmdMaxSize /\ size = Len(s.line)
  BY EditorFacts
<1>3. Extent(t) = size
  BY <1>1 DEF Extent
<1> HIDE DEF size
<1>4. 0 <= size /\ size <= size /\ size <= MaxLineLength /\ Margin + size = Margin + size - 0
  BY <1>2, WidthFacts
<1> QED BY <1>1, <1>2, <1>3, <1>4 DEF Lined

\* onAutocompleteRequest, in all its cases.
LEMMA RequestFacts ==
  ASSUME NEW s \in Editors, Lined(s), Offered(s), NEW t, t = AutocompleteRequest(s)
  PROVE  t \in Editors /\ Lined(t)
<1> DEFINE C == Candidates(s.line)
           line == s.line
           first == First(line)
           length == CompletedLength(line, s.size)
           common == SubSeq(first, 1, length)
<1>1. CASE ~ s.autocomplete \/ C = {}
  <2>1. t = s
    BY <1>1 DEF AutocompleteRequest
  <2> QED BY <2>1
<1>2. CASE s.autocomplete /\ C # {}
  <2>1. line \in Seq(Letter) /\ s.size = Len(line) /\ s.size + 2 <= CmdMaxSize /\ s.size \in Nat
    BY EditorFacts DEF Lined
  <2>2. /\ first \in Seq(Letter) /\ Len(first) \in Nat /\ Len(first) + 3 <= CmdMaxSize
        /\ \A i \in 1..Len(line) : line[i] = first[i]
        /\ length \in Nat /\ Len(line) <= length /\ length <= Len(first)
    BY <1>2, <2>1, CompletionFacts
  <2>3. Extent(s) = length
    <3>1. s.size + Len(Offer(s)) = length
      BY <1>2, <2>1, OfferFacts
    <3> QED BY <1>2, <3>1 DEF Offered, Extent
  <2> HIDE DEF C, first, length
  <2>4. CASE C = {Min(C)}
    <3> DEFINE longer == Append(first, Blank)
    <3>1. longer \in Seq(Letter) /\ Len(longer) = Len(first) + 1 /\ \A i \in 1..Len(first) : longer[i] = first[i]
      BY <2>2, WidthFacts
    <3>2. t = Expand(s, longer)
      BY <1>2, <2>4 DEF AutocompleteRequest, C, first
    <3> HIDE DEF longer
    <3>3. Len(line) <= Len(longer) /\ length <= Len(longer) /\ Len(longer) + 2 <= CmdMaxSize
      BY <2>1, <2>2, <3>1, WidthFacts
    <3>4. Agree(line, longer, Len(line))
      <4>1. \A i \in 1..Len(line) : i \in 1..Len(first)
        BY <2>1, <2>2
      <4> QED BY <4>1, <2>2, <3>1 DEF Agree
    <3> QED BY <2>3, <3>1, <3>2, <3>3, <3>4, ExpandFacts
  <2>5. CASE C # {Min(C)} /\ Len(common) > s.size
    <3>1. common \in Seq(Letter) /\ Len(common) = length /\ \A i \in 1..length : common[i] = first[i]
      BY <2>2, SubSeqFacts
    <3>2. t = Expand(s, common)
      BY <1>2, <2>5 DEF AutocompleteRequest, C, first, length
    <3> HIDE DEF common
    <3>3. Len(line) <= Len(common) /\ length <= Len(common) /\ Len(common) + 2 <= CmdMaxSize
      BY <2>1, <2>2, <3>1, WidthFacts
    <3>4. Agree(line, common, Len(line))
      <4>1. \A i \in 1..Len(line) : i \in 1..length
        BY <2>1, <2>2
      <4> QED BY <4>1, <2>2, <3>1 DEF Agree
    <3> QED BY <2>3, <3>1, <3>2, <3>3, <3>4, ExpandFacts
  <2>6. CASE C # {Min(C)} /\ ~ Len(common) > s.size
    <3> DEFINE c == ClearCurrentLine(s)
               b == LineBreak(c)
    <3>1. c \in Editors /\ c.cursor = 0 /\ c.line = line /\ c.size = s.size
      BY ClearFacts
    <3> HIDE DEF c
    <3>2. b \in Editors /\ b.row = BlankRow /\ b.column = 0 /\ SameLine(c, b)
      BY <3>1, LineBreakFacts
    <3> HIDE DEF b
    <3>3. t = ShowLine(b)
      BY <1>2, <2>6 DEF AutocompleteRequest, C, first, length, common, b, c
    <3>4. b.cursor = 0 /\ b.line = line /\ b.size = s.size
      BY <3>1, <3>2 DEF SameLine
    <3> QED BY <2>1, <3>2, <3>3, <3>4, ShownIsLined
  <2> QED BY <2>4, <2>5, <2>6
<1> QED BY <1>1, <1>2

-----------------------------------------------------------------------------
(* The invariant of the editor *)

EditorInv == ed \in Editors /\ Lined(ed) /\ Offered(ed)

SameButLast(s, t) ==
  /\ t.line = s.line /\ t.size = s.size /\ t.cursor = s.cursor /\ t.length = s.length
  /\ t.autocomplete = s.autocomplete /\ t.row = s.row /\ t.column = s.column

LEMMA LiveInv ==
  ASSUME NEW s \in Editors, Lined(s), ed' = Live(s)
  PROVE  EditorInv'
BY LiveFacts DEF EditorInv

\* The end of the loop of embeddedCliProcess makes the invariant of a lined editor.
LEMMA AfterInv ==
  ASSUME NEW s \in Editors, Lined(s), NEW c \in Chars, After(s, c)
  PROVE  EditorInv'
<1> DEFINE t == Live(s)
<1>1. t \in Editors /\ Lined(t) /\ Offered(t)
  BY LiveFacts
<1>2. ed' = [t EXCEPT !.lastChar = c]
  BY DEF After
<1> HIDE DEF t
<1>3. ed' \in Editors /\ SameButLast(t, ed')
  BY <1>1, <1>2 DEF Editors, SameButLast
<1>4. Lined(ed') /\ Offered(ed')
  BY <1>1, <1>3 DEF SameButLast, Lined, Offered, Extent, Offer
<1> QED BY <1>3, <1>4 DEF EditorInv

LEMMA CharFacts == Typed \subseteq Chars /\ Keys \subseteq Chars /\ {"CR", "LF", "BS", "TAB", "ESC", "["} \subseteq Chars
BY EditorAssumption DEF Chars, Keys

-----------------------------------------------------------------------------
(* The characters of the line *)

LEMMA ConcatFacts ==
  ASSUME NEW T, NEW s \in Seq(T), NEW t \in Seq(T), NEW u, u = s \o t
  PROVE  /\ u \in Seq(T) /\ Len(u) = Len(s) + Len(t)
         /\ \A i \in 1..Len(s) + Len(t) : u[i] = IF i <= Len(s) THEN s[i] ELSE t[i - Len(s)]
OBVIOUS

Inserted(s, at, c) == SubSeq(s, 1, at) \o <<c>> \o SubSeq(s, at + 1, Len(s))

HasInserted(new, s, at, c, n) == \A i \in 1..n : new[i] = IF i <= at THEN s[i] ELSE IF i = at + 1 THEN c ELSE s[i - 1]

\* A sequence with one more element at a place.
LEMMA InsertFacts ==
  ASSUME NEW T, NEW s \in Seq(T), NEW at \in Nat, at <= Len(s), NEW c \in T, NEW new, new = Inserted(s, at, c)
  PROVE  new \in Seq(T) /\ Len(new) = Len(s) + 1 /\ HasInserted(new, s, at, c, Len(s) + 1)
<1> DEFINE a == SubSeq(s, 1, at)
           b == SubSeq(s, at + 1, Len(s))
           ac == a \o <<c>>
<1>1. a \in Seq(T) /\ Len(a) = at /\ \A i \in 1..at : a[i] = s[i]
  OBVIOUS
<1>2. at \in Nat /\ at <= Len(s) /\ Len(s) \in Nat
  OBVIOUS
<1>3. b \in Seq(T) /\ Len(b) = Len(s) - at /\ \A i \in 1..Len(s) - at : b[i] = s[at + i]
  BY <1>2, SuffixFacts DEF IsRestOf
<1> HIDE DEF a, b
<1>4. ac \in Seq(T) /\ Len(ac) = at + 1 /\ \A i \in 1..at + 1 : ac[i] = IF i <= at THEN s[i] ELSE c
  <2>1. ac = Append(a, c)
    BY <1>1
  <2> QED BY <2>1, <1>1, <1>2
<1>5. new = ac \o b
  BY DEF a, b, Inserted
<1> HIDE DEF ac
<1>6. /\ new \in Seq(T) /\ Len(new) = Len(s) + 1
      /\ \A i \in 1..Len(s) + 1 : new[i] = IF i <= at + 1 THEN ac[i] ELSE b[i - (at + 1)]
  <2> DEFINE la == Len(ac)
             lb == Len(b)
             n == Len(s)
  <2>1. la = at + 1 /\ lb = n - at /\ n \in Nat /\ la + lb = n + 1
    BY <1>2, <1>3, <1>4
  <2>2. new \in Seq(T) /\ Len(new) = la + lb /\ \A i \in 1..la + lb : new[i] = IF i <= la THEN ac[i] ELSE b[i - la]
    <3>1. ac \in Seq(T) /\ b \in Seq(T)
      BY <1>3, <1>4
    <3> QED BY <3>1, <1>5, ConcatFacts
  <2> HIDE DEF la, lb, n
  <2>3. new \in Seq(T) /\ Len(new) = n + 1 /\ \A i \in 1..n + 1 : new[i] = IF i <= at + 1 THEN ac[i] ELSE b[i - (at + 1)]
    BY <2>1, <2>2
  <2> QED BY <2>3 DEF n
<1>7. ASSUME NEW i \in 1..Len(s) + 1 PROVE new[i] = IF i <= at THEN s[i] ELSE IF i = at + 1 THEN c ELSE s[i - 1]
  <2>1. CASE i <= at + 1
    <3>1. i \in 1..at + 1
      BY <2>1, <1>2
    <3>2. new[i] = ac[i]
      BY <2>1, <1>6
    <3> QED BY <3>1, <3>2, <1>2, <1>4
  <2>2. CASE i > at + 1
    <3> DEFINE j == i - (at + 1)
    <3>1. j \in 1..Len(s) - at /\ at + j = i - 1 /\ ~ i <= at /\ i # at + 1
      BY <2>2, <1>2
    <3>2. new[i] = b[j]
      BY <2>2, <1>2, <1>6
    <3> HIDE DEF j
    <3> QED BY <3>1, <3>2, <1>3
  <2> QED BY <2>1, <2>2, <1>2
<1> QED BY <1>6, <1>7 DEF HasInserted

\* What lies right of the cursor has moved, if anything does.
Shifted(old, new, p, k) == \A i \in 0..Width - 1 : i # p => new[i] = IF i < p \/ k = 0 THEN old[i] ELSE old[i - 1]

\* A cell inserted at the cursor and written to shows the longer line.
LEMMA InsertPainted ==
  ASSUME NEW old, NEW mid, NEW new, NEW line, NEW longer, NEW str, NEW c, NEW at \in Nat, NEW k \in Nat, NEW extent \in Nat,
         Len(line) = at + k, Len(line) <= extent, Len(longer) = at + k + 1,
         HasInserted(longer, line, at, c, at + k + 1),
         str[1] = c, Painted(old, line, extent), Shifted(old, mid, Margin + at, k), Written(mid, new, Margin + at, str, 1)
  PROVE  Painted(new, longer, extent + 1)
<1> DEFINE p == Margin + at
           m == at + k
<1>1. Margin \in Nat /\ Width \in Nat /\ p \in Nat /\ p = Margin + at /\ m \in Nat /\ m = at + k /\ m <= extent
  BY WidthFacts
<1>2. \A i \in 0..Width - 1 : new[i] = IF p <= i /\ i < p + 1 THEN str[i - p + 1] ELSE mid[i]
  BY DEF Written
<1>3. \A i \in 0..Width - 1 : /\ i < Margin => old[i] = Invitation[i + 1]
                              /\ Margin <= i /\ i < Margin + m => old[i] = line[i - Margin + 1]
                              /\ Margin + extent <= i => old[i] = Blank
  BY DEF Painted
<1>4. \A i \in 0..Width - 1 : i # p => mid[i] = IF i < p \/ k = 0 THEN old[i] ELSE old[i - 1]
  BY DEF Shifted
<1>5. \A i \in 1..m + 1 : longer[i] = IF i <= at THEN line[i] ELSE IF i = at + 1 THEN c ELSE line[i - 1]
  BY <1>1 DEF HasInserted
<1> HIDE DEF m, p
<1>6. ASSUME NEW i \in 0..Width - 1
      PROVE  /\ i < Margin => new[i] = Invitation[i + 1]
             /\ Margin <= i /\ i < Margin + (m + 1) => new[i] = longer[i - Margin + 1]
             /\ Margin + (extent + 1) <= i => new[i] = Blank
  <2>1. CASE i < Margin
    <3>1. ~ p <= i /\ i # p /\ i < p /\ ~ Margin <= i /\ ~ Margin + (extent + 1) <= i
      BY <2>1, <1>1
    <3> QED BY <2>1, <3>1, <1>2, <1>3, <1>4
  <2>2. CASE Margin <= i /\ i < p
    <3>1. /\ ~ p <= i /\ i # p /\ ~ i < Margin /\ ~ Margin + (extent + 1) <= i /\ i < Margin + m
          /\ i - Margin + 1 \in 1..m + 1 /\ i - Margin + 1 <= at
      BY <2>2, <1>1
    <3>2. new[i] = line[i - Margin + 1]
      BY <2>2, <3>1, <1>2, <1>3, <1>4
    <3> QED BY <3>1, <3>2, <1>5
  <2>3. CASE i = p
    <3>1. /\ p <= i /\ i < p + 1 /\ i - p + 1 = 1 /\ ~ i < Margin /\ ~ Margin + (extent + 1) <= i
          /\ i - Margin + 1 \in 1..m + 1 /\ ~ i - Margin + 1 <= at /\ i - Margin + 1 = at + 1
      BY <2>3, <1>1
    <3>2. new[i] = c
      BY <3>1, <1>2
    <3> QED BY <3>1, <3>2, <1>5
  <2>4. CASE p < i /\ k = 0
    <3>1. /\ ~ i < p + 1 /\ i # p /\ ~ i < Margin /\ ~ i < Margin + (m + 1)
          /\ (Margin + (extent + 1) <= i => Margin + extent <= i)
      BY <2>4, <1>1
    <3> QED BY <2>4, <3>1, <1>2, <1>3, <1>4
  <2>5. CASE p < i /\ k # 0
    <3> DEFINE j == i - 1
    <3>1. /\ ~ i < p + 1 /\ i # p /\ ~ i < p /\ ~ i < Margin /\ j \in 0..Width - 1 /\ Margin <= j
          /\ (Margin + (extent + 1) <= i => Margin + extent <= j)
          /\ (i < Margin + (m + 1) => j < Margin + m /\ i - Margin + 1 \in 1..m + 1)
          /\ ~ i - Margin + 1 <= at /\ i - Margin + 1 # at + 1 /\ (i - Margin + 1) - 1 = j - Margin + 1
      BY <2>5, <1>1
    <3>2. new[i] = old[j]
      BY <2>5, <3>1, <1>2, <1>4
    <3> HIDE DEF j
    <3>3. i < Margin + (m + 1) => longer[i - Margin + 1] = line[j - Margin + 1]
      BY <3>1, <1>5
    <3> QED BY <3>1, <3>2, <3>3, <1>3
  <2> QED BY <2>1, <2>2, <2>3, <2>4, <2>5, <1>1
<1>7. Len(longer) = m + 1
  BY <1>1
<1> QED BY <1>6, <1>7 DEF Painted

\* A cell deleted before the cursor shows the shorter line.
LEMMA DeletePainted ==
  ASSUME NEW old, NEW new, NEW line, NEW shorter, NEW at \in Nat, NEW k \in Nat, NEW extent \in Nat,
         Len(line) = at + k, 1 <= at, Len(line) <= extent, extent <= MaxLineLength, Len(shorter) = at + k - 1,
         \A i \in 1..at + k - 1 : shorter[i] = IF i < at THEN line[i] ELSE line[i + 1],
         Painted(old, line, extent),
         \A i \in 0..Width - 1 : new[i] = IF i < Margin + at - 1 THEN old[i] ELSE IF i + 1 < Width THEN old[i + 1] ELSE Blank
  PROVE  Painted(new, shorter, extent - 1)
<1> DEFINE p == Margin + at - 1
           m == at + k - 1
<1>1. /\ Margin \in Nat /\ Width \in Nat /\ p \in Nat /\ p = Margin + at - 1 /\ m \in Nat /\ m = at + k - 1 /\ m + 1 <= extent
      /\ Margin + extent < Width
  BY WidthFacts
<1>2. \A i \in 0..Width - 1 : new[i] = IF i < p THEN old[i] ELSE IF i + 1 < Width THEN old[i + 1] ELSE Blank
  OBVIOUS
<1>3. \A i \in 0..Width - 1 : /\ i < Margin => old[i] = Invitation[i + 1]
                              /\ Margin <= i /\ i < Margin + (m + 1) => old[i] = line[i - Margin + 1]
                              /\ Margin + extent <= i => old[i] = Blank
  BY DEF Painted
<1>4. \A i \in 1..m : shorter[i] = IF i < at THEN line[i] ELSE line[i + 1]
  OBVIOUS
<1> HIDE DEF m, p
<1>5. ASSUME NEW i \in 0..Width - 1
      PROVE  /\ i < Margin => new[i] = Invitation[i + 1]
             /\ Margin <= i /\ i < Margin + m => new[i] = shorter[i - Margin + 1]
             /\ Margin + (extent - 1) <= i => new[i] = Blank
  <2>1. CASE i < Margin
    <3>1. i < p \/ i = p
      BY <2>1, <1>1
    <3>2. i < p /\ ~ Margin <= i /\ ~ Margin + (extent - 1) <= i
      BY <2>1, <1>1
    <3> QED BY <2>1, <3>2, <1>2, <1>3
  <2>2. CASE Margin <= i /\ i < p
    <3>1. /\ ~ i < Margin /\ ~ Margin + (extent - 1) <= i /\ i < Margin + (m + 1)
          /\ i - Margin + 1 \in 1..m /\ i - Margin + 1 < at
      BY <2>2, <1>1
    <3> QED BY <2>2, <3>1, <1>2, <1>3, <1>4
  <2>3. CASE p <= i
    <3> DEFINE j == i + 1
    <3>1. /\ ~ i < p /\ ~ i < Margin /\ Margin <= j /\ j \in Int
          /\ (Margin + (extent - 1) <= i => Margin + extent <= j)
          /\ (i < Margin + m => j < Margin + (m + 1) /\ j < Width /\ i - Margin + 1 \in 1..m)
          /\ ~ i - Margin + 1 < at /\ (i - Margin + 1) + 1 = j - Margin + 1
          /\ (j < Width => j \in 0..Width - 1)
      <4>1. 1 <= at /\ at \in Nat /\ extent \in Nat
        OBVIOUS
      <4>2. i \in 0..Width - 1 /\ p <= i
        BY <2>3
      <4> QED BY ONLY <4>1, <4>2, <1>1
    <3>2. new[i] = IF j < Width THEN old[j] ELSE Blank
      BY <2>3, <3>1, <1>2
    <3> HIDE DEF j
    <3>3. i < Margin + m => shorter[i - Margin + 1] = line[j - Margin + 1]
      BY <3>1, <1>4
    <3> QED BY <3>1, <3>2, <3>3, <1>3
  <2> QED BY <2>1, <2>2, <2>3, <1>1
<1> QED BY <1>5 DEF Painted, m

-----------------------------------------------------------------------------
(* Each action keeps the invariant of the editor *)

\* A change of the mode or of what was typed last, and of nothing else.
LEMMA ModeIsLined ==
  ASSUME NEW s \in Editors, Lined(s), NEW b \in BOOLEAN, NEW t, t = [s EXCEPT !.escape = b]
  PROVE  t \in Editors /\ Lined(t) /\ SameButLast(s, t)
<1>1. t \in Editors
  BY DEF Editors
<1>2. SameButLast(s, t)
  BY DEF Editors, SameButLast
<1> QED BY <1>1, <1>2 DEF SameButLast, Lined, Extent

LEMMA ColumnType ==
  ASSUME NEW s \in Editors, NEW column \in Nat, NEW t, t = [s EXCEPT !.column = column]
  PROVE  t \in Editors /\ SameLine(s, t) /\ t.row = s.row /\ t.column = column
BY DEF Editors, SameLine

Moves(s, t) ==
  \/ s.cursor > 0 /\ t = [CursorForward(s, 1) EXCEPT !.cursor = @ - 1]
  \/ s.cursor < Len(s.line) /\ t = [CursorBack(s, 1) EXCEPT !.cursor = @ + 1]

\* The arrows move the column with the insertion point.
LEMMA MoveIsLined ==
  ASSUME NEW s \in Editors, Lined(s), NEW t, Moves(s, t)
  PROVE  t \in Editors /\ Lined(t)
<1> DEFINE size == s.size
           cursor == s.cursor
           column == s.column
<1>1. /\ size \in Nat /\ cursor \in Nat /\ column \in Nat /\ size = Len(s.line) /\ cursor <= size /\ column = Margin + size - cursor
      /\ Margin \in Nat
  BY LinedFacts
<1>2. PICK new \in Nat, to \in Nat : t = [s EXCEPT !.column = to, !.cursor = new] /\ new <= size /\ to = Margin + size - new
  <2>1. CASE cursor > 0 /\ t = [CursorForward(s, 1) EXCEPT !.cursor = @ - 1]
    <3>1. t = [s EXCEPT !.column = column + 1, !.cursor = cursor - 1]
      BY <2>1 DEF CursorForward, Editors
    <3>2. cursor > 0
      BY <2>1
    <3> HIDE DEF size, cursor, column
    <3>3. cursor - 1 \in Nat /\ column + 1 \in Nat /\ cursor - 1 <= size /\ column + 1 = Margin + size - (cursor - 1)
      BY <1>1, <3>2
    <3> QED BY <3>1, <3>3
  <2>2. CASE cursor < size /\ t = [CursorBack(s, 1) EXCEPT !.cursor = @ + 1]
    <3>1. t = [s EXCEPT !.column = IF 1 > column THEN 0 ELSE column - 1, !.cursor = cursor + 1]
      BY <2>2 DEF CursorBack, Editors
    <3>2. cursor < size
      BY <2>2
    <3> HIDE DEF size, cursor, column
    <3>3. ~ 1 > column /\ cursor + 1 \in Nat /\ column - 1 \in Nat /\ cursor + 1 <= size /\ column - 1 = Margin + size - (cursor + 1)
      BY <1>1, <3>2
    <3> QED BY <3>1, <3>3
  <2> QED BY <1>1, <2>1, <2>2 DEF Moves
<1>3. /\ t \in Editors /\ t.line = s.line /\ t.size = s.size /\ t.length = s.length /\ t.autocomplete = s.autocomplete
      /\ t.row = s.row /\ t.column = to /\ t.cursor = new
  BY <1>2 DEF Editors
<1> QED BY <1>2, <1>3 DEF Lined, Extent

WithChar(s, c) ==
  [Put(IF s.cursor > 0 THEN InsertCell(s) ELSE s, <<c>>) EXCEPT
     !.line = Inserted(s.line, Len(s.line) - s.cursor, c), !.size = @ + 1, !.length = @ + 1]

\* onCharInput: line, lengths and row grow by the same character.
LEMMA CharInputIsLined ==
  ASSUME NEW s \in Editors, Lined(s), NEW c \in Letter, HasRoom(s), s.length < MaxLineLength, NEW t, t = WithChar(s, c)
  PROVE  t \in Editors /\ Lined(t)
<1> DEFINE size == s.size
           cursor == s.cursor
           column == s.column
           length == s.length
           line == s.line
           at == Len(line) - cursor
           longer == Inserted(line, at, c)
           shifted == IF cursor > 0 THEN InsertCell(s) ELSE s
           put == Put(shifted, <<c>>)
           extent == Extent(s)
<1>1. /\ size \in Nat /\ cursor \in Nat /\ column \in Nat /\ length \in Nat /\ line \in Seq(Letter) /\ size = Len(line) /\ cursor <= size
      /\ size <= length /\ column = Margin + size - cursor /\ Margin \in Nat /\ size + 2 < CmdMaxSize /\ CmdMaxSize \in Nat
      /\ length < MaxLineLength /\ MaxLineLength \in Nat
      /\ extent \in Nat /\ size <= extent /\ Painted(s.row, line, extent)
  BY LinedFacts DEF HasRoom
<1>2. /\ at \in Nat /\ at <= size /\ size = at + cursor /\ column = Margin + at /\ column + 1 = Margin + (size + 1) - cursor
      /\ (size + 1) + 2 <= CmdMaxSize /\ cursor <= size + 1 /\ size + 1 <= length + 1 /\ length + 1 <= MaxLineLength
      /\ length + 1 \in Nat /\ size + 1 \in Nat
  <2>1. at = size - cursor
    BY <1>1
  <2> HIDE DEF size, cursor, column, length, at
  <2> QED BY <1>1, <2>1
<1>3. longer \in Seq(Letter) /\ Len(longer) = size + 1 /\ HasInserted(longer, line, at, c, size + 1)
  <2>1. longer \in Seq(Letter) /\ Len(longer) = Len(line) + 1 /\ HasInserted(longer, line, at, c, Len(line) + 1)
    <3> DEFINE T == Letter
    <3>1. line \in Seq(T) /\ at \in Nat /\ at <= Len(line) /\ c \in T
      BY <1>1, <1>2
    <3> HIDE DEF line, at, T
    <3> QED BY <3>1, InsertFacts DEF T
  <2> HIDE DEF longer
  <2> QED BY <1>1, <2>1
<1> HIDE DEF longer, at
<1>4. shifted \in Editors /\ SameLine(s, shifted) /\ shifted.column = column /\ Shifted(s.row, shifted.row, Margin + at, cursor)
  <2>1. CASE cursor = 0
    <3>1. shifted = s
      BY <2>1
    <3>2. s.row \in [0..Width - 1 -> Glyph]
      BY EditorFacts DEF Rows
    <3> QED BY <2>1, <3>1, <3>2 DEF Shifted, SameLine
  <2>2. CASE cursor # 0
    <3> DEFINE row == [i \in 0..Width - 1 |-> IF i > column THEN s.row[i - 1] ELSE IF i = column THEN Blank ELSE s.row[i]]
    <3>1. s.row \in [0..Width - 1 -> Glyph]
      BY EditorFacts DEF Rows
    <3>2. shifted = [s EXCEPT !.row = row]
      <4>1. cursor > 0
        BY <1>1, <2>2
      <4>2. shifted = InsertCell(s)
        BY <4>1
      <4>3. DOMAIN s.row = 0..Width - 1
        BY <3>1
      <4> HIDE DEF shifted
      <4> QED BY <4>2, <4>3 DEF InsertCell
    <3>3. row \in Rows
      <4>1. \A i \in 0..Width - 1 : i > column => i - 1 \in 0..Width - 1
        BY <1>1, WidthFacts
      <4> QED BY <3>1, <4>1, WidthFacts DEF Rows
    <3>4. Shifted(s.row, row, Margin + at, cursor)
      <4> DEFINE p == Margin + at
      <4>1. p = column /\ column \in Nat
        BY <1>1, <1>2
      <4> HIDE DEF p, column
      <4>2. \A i \in 0..Width - 1 : i # p => row[i] = IF i < p \/ cursor = 0 THEN s.row[i] ELSE s.row[i - 1]
        BY <2>2, <4>1, WidthFacts
      <4> QED BY <4>2 DEF Shifted, p
    <3> HIDE DEF row, shifted
    <3>5. shifted \in Editors /\ SameLine(s, shifted) /\ shifted.column = column /\ shifted.row = row
      BY <3>2, <3>3 DEF Editors, SameLine
    <3> QED BY <3>4, <3>5
  <2> QED BY <2>1, <2>2
<1> HIDE DEF shifted
<1>5. <<c>> \in Seq(Glyph) /\ Len(<<c>>) = 1 /\ <<c>>[1] = c
  BY WidthFacts
<1>6. put \in Editors /\ SameLine(shifted, put) /\ put.column = column + 1 /\ Written(shifted.row, put.row, column, <<c>>, 1)
  <2>1. put = Put(shifted, <<c>>)
    OBVIOUS
  <2> HIDE DEF put
  <2>2. /\ put \in Editors /\ SameLine(shifted, put) /\ put.column = shifted.column + Len(<<c>>)
        /\ Written(shifted.row, put.row, shifted.column, <<c>>, Len(<<c>>))
    BY <2>1, <1>4, <1>5, PutFacts
  <2> QED BY <2>2, <1>4, <1>5
<1> HIDE DEF put
<1>7. t = [put EXCEPT !.line = longer, !.size = size + 1, !.length = length + 1]
  <2>1. t = [put EXCEPT !.line = longer, !.size = @ + 1, !.length = @ + 1]
    BY DEF put, longer, shifted, at, WithChar
  <2>2. put.size = size /\ put.length = length
    BY <1>4, <1>6 DEF SameLine
  <2> QED BY <1>6, <2>1, <2>2 DEF Editors
<1>8. /\ t \in Editors /\ t.line = longer /\ t.size = size + 1 /\ t.length = length + 1 /\ t.cursor = cursor
      /\ t.column = column + 1 /\ t.row = put.row /\ t.autocomplete = s.autocomplete
  <2> DEFINE m == size + 1
             n == length + 1
  <2>1. m \in Nat /\ n \in Nat /\ longer \in Lines /\ t = [put EXCEPT !.line = longer, !.size = m, !.length = n]
    BY <1>2, <1>3, <1>7 DEF Lines
  <2> HIDE DEF m, n
  <2>2. t \in Editors
    BY <1>6, <2>1 DEF Editors
  <2> QED BY <1>4, <1>6, <2>1, <2>2 DEF Editors, SameLine, m, n
<1>9. Painted(t.row, t.line, extent + 1)
  <2> DEFINE old == s.row
             mid == shifted.row
             new == put.row
             str == <<c>>
  <2>1. Shifted(old, mid, Margin + at, cursor) /\ Written(mid, new, Margin + at, str, 1) /\ Painted(old, line, extent)
    BY <1>1, <1>2, <1>4, <1>6
  <2>2. Len(line) = at + cursor /\ Len(line) <= extent /\ Len(longer) = at + cursor + 1
    BY <1>1, <1>2, <1>3
  <2>3. HasInserted(longer, line, at, c, at + cursor + 1)
    BY <1>2, <1>3
  <2>4. str[1] = c /\ at \in Nat /\ cursor \in Nat /\ extent \in Nat
    BY <1>1, <1>2
  <2> HIDE DEF old, mid, new, str, cursor, extent, line
  <2>5. Painted(new, longer, extent + 1)
    BY <2>1, <2>2, <2>3, <2>4, InsertPainted
  <2> QED BY <1>8, <2>5 DEF new
<1>10. Extent(t) = extent + 1
  BY <1>8 DEF Extent
<1> QED BY <1>2, <1>3, <1>8, <1>9, <1>10 DEF Lined

WithoutChar(s) ==
  [DeleteCell(CursorBack(s, 1)) EXCEPT !.line = RemoveAt(s.line, Len(s.line) - s.cursor), !.size = Shortened(s)]

\* onControlInput, backspace: line and row lose the same character; inputLineLength is not shortened.
LEMMA BackspaceIsLined ==
  ASSUME NEW s \in Editors, Lined(s), s.size - s.cursor > 0, NEW t, t = WithoutChar(s)
  PROVE  t \in Editors /\ Lined(t)
<1> DEFINE size == s.size
           cursor == s.cursor
           column == s.column
           length == s.length
           line == s.line
           at == Len(line) - cursor
           p == column - 1
           shorter == RemoveAt(line, at)
           extent == Extent(s)
           row == [i \in 0..Width - 1 |-> IF i < p THEN s.row[i] ELSE IF i + 1 \in 0..Width - 1 THEN s.row[i + 1] ELSE Blank]
           back == CursorBack(s, 1)
<1>1. /\ size \in Nat /\ cursor \in Nat /\ column \in Nat /\ length \in Nat /\ line \in Seq(Letter) /\ size = Len(line) /\ cursor <= size
      /\ size <= length /\ column = Margin + size - cursor /\ Margin \in Nat /\ size + 2 <= CmdMaxSize /\ CmdMaxSize \in Nat
      /\ length <= MaxLineLength /\ MaxLineLength \in Nat /\ size - cursor > 0
      /\ extent \in Nat /\ size <= extent /\ extent <= MaxLineLength /\ Painted(s.row, line, extent)
  BY LinedFacts
<1>2. /\ at \in Nat /\ 1 <= at /\ at <= size /\ size = at + cursor /\ column = Margin + at /\ p = Margin + at - 1 /\ p \in Nat
      /\ p = Margin + (size - 1) - cursor /\ (size - 1) + 2 <= CmdMaxSize /\ cursor <= size - 1 /\ size - 1 <= length
      /\ size - 1 \in Nat /\ ~ 1 > column
  <2>1. at = size - cursor /\ p = column - 1
    BY <1>1
  <2> HIDE DEF size, cursor, column, length, at, p, extent
  <2>2. at \in Nat /\ 1 <= at /\ at <= size /\ size = at + cursor /\ column = Margin + at /\ cursor <= size - 1
    BY <1>1, <2>1
  <2>3. p = Margin + at - 1 /\ p \in Nat /\ p = Margin + (size - 1) - cursor /\ ~ 1 > column
    BY <1>1, <2>1, <2>2
  <2>4. (size - 1) + 2 <= CmdMaxSize /\ size - 1 <= length /\ size - 1 \in Nat
    BY <1>1, <2>2
  <2> QED BY <2>2, <2>3, <2>4
<1>3. shorter \in Seq(Letter) /\ Len(shorter) = size - 1 /\ \A i \in 1..size - 1 : shorter[i] = IF i < at THEN line[i] ELSE line[i + 1]
  <2> DEFINE T == Letter
  <2>1. line \in Seq(T) /\ at \in 1..Len(line)
    BY <1>1, <1>2
  <2> HIDE DEF line, at, T
  <2>2. shorter \in Seq(T) /\ Len(shorter) = Len(line) - 1 /\ \A i \in 1..Len(line) - 1 : shorter[i] = IF i < at THEN line[i] ELSE line[i + 1]
    BY <2>1, RemoveAtFacts
  <2> QED BY <1>1, <2>2 DEF T
<1> HIDE DEF shorter, at
<1>4. back = [s EXCEPT !.column = p]
  BY <1>2 DEF CursorBack
<1>5. back \in Editors /\ SameLine(s, back) /\ back.row = s.row /\ back.column = p
  <2>1. p \in Nat
    BY <1>2
  <2> HIDE DEF p, back
  <2> QED BY <1>4, <2>1 DEF Editors, SameLine
<1>6. s.row \in [0..Width - 1 -> Glyph] /\ DOMAIN back.row = 0..Width - 1
  BY <1>5, EditorFacts DEF Rows
<1>7. DeleteCell(back) = [back EXCEPT !.row = row]
  <2> HIDE DEF back, p
  <2> QED BY <1>5, <1>6 DEF DeleteCell
<1>8. row \in Rows
  BY <1>6, WidthFacts DEF Rows
<1>9. t = [back EXCEPT !.row = row, !.line = shorter, !.size = size - 1]
  <2>1. t = [DeleteCell(back) EXCEPT !.line = shorter, !.size = size - 1]
    BY DEF WithoutChar, Shortened, shorter, at
  <2> HIDE DEF back, row
  <2> QED BY <1>7, <2>1
<1>10. \A i \in 0..Width - 1 : row[i] = IF i < Margin + at - 1 THEN s.row[i] ELSE IF i + 1 < Width THEN s.row[i + 1] ELSE Blank
  <2>1. \A i \in 0..Width - 1 : i + 1 \in 0..Width - 1 <=> i + 1 < Width
    BY WidthFacts
  <2>2. p = Margin + at - 1
    BY <1>2
  <2> HIDE DEF p
  <2> QED BY <2>1, <2>2
<1> HIDE DEF row, back
<1>11. /\ t \in Editors /\ t.line = shorter /\ t.size = size - 1 /\ t.length = length /\ t.cursor = cursor
       /\ t.column = p /\ t.row = row /\ t.autocomplete = s.autocomplete
  <2> DEFINE m == size - 1
  <2>1. m \in Nat /\ shorter \in Lines /\ t = [back EXCEPT !.row = row, !.line = shorter, !.size = m]
    BY <1>2, <1>3, <1>9 DEF Lines
  <2> HIDE DEF m
  <2>2. t \in Editors
    BY <1>5, <1>8, <2>1 DEF Editors
  <2> QED BY <1>5, <2>1, <2>2 DEF Editors, SameLine, m
<1>12. Painted(t.row, t.line, extent - 1)
  <2> DEFINE old == s.row
  <2>1. Len(line) = at + cursor /\ 1 <= at /\ Len(line) <= extent /\ extent <= MaxLineLength /\ Len(shorter) = at + cursor - 1
    BY <1>1, <1>2, <1>3
  <2>2. \A i \in 1..at + cursor - 1 : shorter[i] = IF i < at THEN line[i] ELSE line[i + 1]
    <3>1. at + cursor - 1 = size - 1
      <4>1. at \in Nat /\ cursor \in Nat /\ size \in Nat /\ size = at + cursor
        BY <1>1, <1>2
      <4> HIDE DEF size, cursor
      <4> QED BY <4>1
    <3> QED BY <1>3, <3>1
  <2>3. Painted(old, line, extent) /\ at \in Nat /\ cursor \in Nat /\ extent \in Nat
    BY <1>1, <1>2
  <2>4. \A i \in 0..Width - 1 : row[i] = IF i < Margin + at - 1 THEN old[i] ELSE IF i + 1 < Width THEN old[i + 1] ELSE Blank
    BY <1>10
  <2> HIDE DEF old, cursor, extent, line
  <2>5. Painted(row, shorter, extent - 1)
    BY <2>1, <2>2, <2>3, <2>4, DeletePainted
  <2> QED BY <1>11, <2>5
<1>13. Painted(t.row, t.line, Extent(t))
  <2>1. CASE s.autocomplete
    <3>1. extent = length /\ Extent(t) = length
      BY <2>1, <1>11 DEF Extent
    <3>2. \A i \in 0..Width - 1 : Margin + length <= i => Margin + (length - 1) <= i
      BY <1>1
    <3> QED BY <1>12, <3>1, <3>2 DEF Painted
  <2>2. CASE ~ s.autocomplete
    <3>1. extent = size /\ Extent(t) = size - 1
      BY <2>2, <1>11 DEF Extent
    <3> QED BY <1>12, <3>1
  <2> QED BY <2>1, <2>2
<1> QED BY <1>1, <1>2, <1>3, <1>11, <1>13 DEF Lined

\* The line replaced by an item of the history.
LEMMA ReplaceIsLined ==
  ASSUME NEW s \in Editors, Lined(s), NEW item \in Seq(Letter), Len(item) + 2 <= CmdMaxSize, NEW t, t = ReplaceLine(s, item)
  PROVE  t \in Editors /\ Lined(t)
<1> DEFINE c == ClearCurrentLine(s)
           m == Len(item)
           r == [c EXCEPT !.line = item, !.size = m]
<1>1. c \in Editors /\ c.row = BlankRow /\ c.column = 0 /\ c.cursor = 0
  BY ClearFacts
<1>2. m \in Nat /\ item \in Lines
  BY DEF Lines
<1> HIDE DEF c
<1>3. r \in Editors /\ r.row = BlankRow /\ r.column = 0 /\ r.cursor = 0 /\ r.line = item /\ r.size = m
  <2> HIDE DEF m
  <2>1. r \in Editors
    BY <1>1, <1>2 DEF Editors
  <2> QED BY <1>1, <2>1 DEF Editors
<1>4. t = ShowLine(r)
  BY DEF ReplaceLine, c
<1> HIDE DEF r
<1> QED BY <1>3, <1>4, ShownIsLined

\* The row after a line break: the invitation and nothing else.
Ended(s, toggles) ==
  Put([LineBreak(s) EXCEPT !.line = <<>>, !.size = 0, !.length = 0, !.cursor = 0,
                           !.autocomplete = IF toggles THEN ~@ ELSE @], Invitation)

\* onControlInput, line end: an empty line behind a new prompt.
LEMMA EndedIsLined ==
  ASSUME NEW s \in Editors, NEW toggles \in BOOLEAN, NEW t, t = Ended(s, toggles)
  PROVE  t \in Editors /\ Lined(t)
<1> DEFINE b == LineBreak(s)
           auto == IF toggles THEN ~ b.autocomplete ELSE b.autocomplete
           e == [b EXCEPT !.line = <<>>, !.size = 0, !.length = 0, !.cursor = 0, !.autocomplete = auto]
<1>1. b \in Editors /\ b.row = BlankRow /\ b.column = 0
  BY LineBreakFacts
<1> HIDE DEF b
<1>2. <<>> \in Lines /\ 0 \in Nat
  BY DEF Lines
<1>3. auto \in BOOLEAN
  BY <1>1 DEF Editors
<1> HIDE DEF auto
<1>4. e \in Editors
  BY <1>1, <1>2, <1>3 DEF Editors
<1>5. e.row = BlankRow /\ e.column = 0 /\ e.line = <<>> /\ e.size = 0 /\ e.length = 0 /\ e.cursor = 0
  BY <1>1 DEF Editors
<1>6. t = Put(e, Invitation)
  BY DEF Ended, b, auto
<1> HIDE DEF e
<1>7. Invitation \in Seq(Glyph) /\ Len(Invitation) = Margin /\ Margin \in Nat
  BY WidthFacts DEF Margin
<1>8. t \in Editors /\ SameLine(e, t) /\ t.column = e.column + Margin /\ Written(BlankRow, t.row, 0, Invitation, Margin)
  <2>1. t \in Editors /\ SameLine(e, t) /\ t.column = e.column + Len(Invitation) /\ Written(e.row, t.row, e.column, Invitation, Len(Invitation))
    BY <1>4, <1>6, <1>7, PutFacts
  <2> QED BY <2>1, <1>5, <1>7
<1>9. t.line = <<>> /\ t.size = 0 /\ t.length = 0 /\ t.cursor = 0 /\ t.column = 0 + Margin /\ Extent(t) = 0 /\ Len(t.line) = 0
  BY <1>5, <1>8 DEF SameLine, Extent
<1>10. Painted(t.row, t.line, 0)
  <2>1. \A i \in 0..Width - 1 : t.row[i] = IF 0 <= i /\ i < 0 + Margin THEN Invitation[i - 0 + 1] ELSE Blank
    BY <1>8 DEF Written, BlankRow
  <2>2. ASSUME NEW i \in 0..Width - 1
        PROVE  /\ i < Margin => t.row[i] = Invitation[i + 1]
               /\ Margin <= i /\ i < Margin + 0 => t.row[i] = t.line[i - Margin + 1]
               /\ Margin + 0 <= i => t.row[i] = Blank
    <3>1. i - 0 + 1 = i + 1 /\ i \in Int /\ 0 <= i
      BY WidthFacts
    <3> QED BY <2>1, <3>1, <1>7
  <2> QED BY <1>9, <2>2 DEF Painted
<1> QED BY <1>7, <1>8, <1>9, <1>10, WidthFacts DEF Lined

\* A line that something else prints.
LEMMA PrintIsLined ==
  ASSUME NEW s \in Editors, Lined(s),
         NEW t, t = CursorBack(ShowLine(LineBreak([ClearCurrentLine(s) EXCEPT !.cursor = s.cursor])), s.cursor)
  PROVE  t \in Editors /\ Lined(t)
<1> DEFINE c == ClearCurrentLine(s)
           cursor == s.cursor
           size == s.size
           r == [c EXCEPT !.cursor = cursor]
           b == LineBreak(r)
           shown == ShowLine(b)
           column == Margin + size
<1>1. /\ cursor \in Nat /\ size \in Nat /\ cursor <= size /\ size = Len(s.line) /\ size + 2 <= CmdMaxSize
      /\ CmdMaxSize \in Nat /\ CmdMaxSize <= MaxLineLength /\ MaxLineLength \in Nat /\ Margin \in Nat
  BY LinedFacts
<1>2. c \in Editors /\ c.line = s.line /\ c.size = size
  BY ClearFacts
<1> HIDE DEF c
<1>3. r \in Editors /\ r.line = s.line /\ r.size = size /\ r.cursor = cursor
  <2>1. cursor \in Nat
    BY <1>1
  <2> HIDE DEF cursor, size
  <2> QED BY <1>2, <2>1 DEF Editors
<1> HIDE DEF r
<1>4. b \in Editors /\ b.row = BlankRow /\ b.column = 0 /\ b.line = s.line /\ b.size = size /\ b.cursor = cursor
  BY <1>3, LineBreakFacts DEF SameLine
<1> HIDE DEF b
<1>5. /\ shown \in Editors /\ shown.line = s.line /\ shown.size = size /\ shown.cursor = cursor /\ shown.length = size
      /\ shown.column = column /\ Painted(shown.row, s.line, size)
  BY <1>1, <1>4, ShowLineFacts
<1> HIDE DEF shown
<1> DEFINE to == column - cursor
<1>6. /\ to \in Nat /\ ~ cursor > column /\ to = Margin + size - cursor /\ size <= size /\ size <= MaxLineLength
  <2>1. size \in Nat /\ cursor \in Nat /\ cursor <= size /\ Margin \in Nat
    BY <1>1
  <2>2. size <= MaxLineLength
    BY LinedFacts
  <2> HIDE DEF size, cursor
  <2> QED BY <2>1, <2>2
<1>7. t = [shown EXCEPT !.column = to]
  <2>1. t = CursorBack(shown, cursor)
    BY DEF shown, b, r, c
  <2> HIDE DEF size, cursor
  <2> QED BY <1>5, <1>6, <2>1 DEF CursorBack
<1>8. t \in Editors /\ SameLine(shown, t) /\ t.row = shown.row /\ t.column = to
  BY <1>5, <1>6, <1>7, ColumnType
<1>9. Extent(t) = size
  BY <1>5, <1>8 DEF SameLine, Extent
<1> QED BY <1>1, <1>5, <1>6, <1>8, <1>9 DEF SameLine, Lined

-----------------------------------------------------------------------------
(* The invariant of the history *)

Histories == [buf : [0..HistorySize - 1 -> Letter \cup {NUL}], count : Nat, current : Nat]

\* Every command would fit the line again.
Fitting(commands) == \A i \in DOMAIN commands : Len(commands[i]) + 2 <= CmdMaxSize

HistoryInv ==
  /\ history \in Histories /\ history.count = Len(recent) /\ history.current <= history.count
  /\ Holds(history.buf, recent) /\ Distinct(recent) /\ Fitting(recent)

LEMMA HistoriesType ==
  ASSUME NEW buf \in [0..HistorySize - 1 -> Letter \cup {NUL}], NEW count \in Nat, NEW current \in Nat
  PROVE  [buf |-> buf, count |-> count, current |-> current] \in Histories
BY DEF Histories

LEMMA HistoryFacts ==
  ASSUME HistoryInv
  PROVE  /\ history = [buf |-> history.buf, count |-> history.count, current |-> history.current]
         /\ history.count \in Nat /\ history.current \in Nat /\ history.count = Len(recent)
         /\ recent \in Commands /\ DOMAIN recent = 1..Len(recent)
<1>1. history \in Histories /\ Holds(history.buf, recent)
  BY DEF HistoryInv
<1>2. recent \in Commands /\ DOMAIN recent = 1..Len(recent)
  BY <1>1, HoldsFacts, CommandFacts
<1> QED BY <1>1, <1>2 DEF Histories, HistoryInv

\* The item that an arrow reaches fits the line.
LEMMA ItemFits ==
  ASSUME HistoryInv, NEW n \in 1..history.count
  PROVE  ItemAt(history, n) \in Seq(Letter) /\ Len(ItemAt(history, n)) + 2 <= CmdMaxSize
<1>1. n \in 1..Len(recent) /\ Holds(history.buf, recent) /\ recent \in Commands /\ DOMAIN recent = 1..Len(recent)
  BY HistoryFacts DEF HistoryInv
<1>2. ItemAt(history, n) = recent[n]
  BY <1>1, Decode
<1>3. recent[n] \in Seq(Letter)
  BY <1>1, CommandFacts
<1> QED BY <1>1, <1>2, <1>3 DEF HistoryInv, Fitting

\* A new command, and the history seen from its newest item again.
LEMMA PutInv ==
  ASSUME HistoryInv, NEW line \in Seq(Letter), Len(line) + 2 <= CmdMaxSize, NEW new, new = HistoryPut(history, line),
         history' = [new EXCEPT !.current = 0], recent' = Remember(recent, line)
  PROVE  HistoryInv'
<1> DEFINE d == Remember(recent, line)
<1>1. /\ new.count = Len(d) /\ Holds(new.buf, d) /\ Distinct(d)
      /\ new = [buf |-> new.buf, count |-> new.count, current |-> history.current]
      /\ \A i \in DOMAIN d : d[i] = line \/ \E j \in DOMAIN recent : d[i] = recent[j]
  BY HistoryFacts, PutKeepsHolding DEF HistoryInv
<1> DEFINE buf == new.buf
           count == new.count
<1> HIDE DEF d
<1>2. d \in Commands /\ Len(d) \in Nat /\ new.buf \in [0..HistorySize - 1 -> Letter \cup {NUL}]
  BY <1>1, HoldsFacts DEF Holds
<1>3. Fitting(d)
  BY <1>1 DEF HistoryInv, Fitting
<1>4. history' = [buf |-> new.buf, count |-> new.count, current |-> 0] /\ recent' = d
  BY <1>1 DEF d
<1>5. /\ buf = new.buf /\ count = Len(d) /\ count \in Nat /\ buf \in [0..HistorySize - 1 -> Letter \cup {NUL}]
      /\ history' = [buf |-> buf, count |-> count, current |-> 0] /\ Holds(buf, d)
  BY <1>1, <1>2, <1>4
<1> HIDE DEF buf, count
<1>6. history' \in Histories
  <2> DEFINE h == [buf |-> buf, count |-> count, current |-> 0]
  <2>1. h \in Histories
    BY <1>5, HistoriesType
  <2>2. history' = h
    BY <1>5
  <2> HIDE DEF h
  <2> QED BY <2>1, <2>2
<1>7. history'.count = Len(d) /\ history'.buf = buf /\ history'.current = 0 /\ 0 <= Len(d)
  BY <1>2, <1>5
<1> QED BY <1>1, <1>3, <1>4, <1>5, <1>6, <1>7 DEF HistoryInv

\* Navigating leaves the items alone.
LEMMA CurrentInv ==
  ASSUME HistoryInv, NEW n \in Nat, n <= history.count, history' = [history EXCEPT !.current = n], recent' = recent
  PROVE  HistoryInv'
<1>1. /\ history' = [buf |-> history.buf, count |-> history.count, current |-> n]
      /\ history'.count = history.count /\ history'.buf = history.buf /\ history'.current = n
  BY HistoryFacts
<1>2. history' \in Histories
  BY <1>1 DEF HistoryInv, Histories
<1> QED BY <1>1, <1>2 DEF HistoryInv

-----------------------------------------------------------------------------
(* The inductive invariant *)

IInv == EditorInv /\ HistoryInv

\* embeddedCliProcess, at its first call: the prompt alone is shown, and the history is empty.
LEMMA InitInv == ASSUME Init PROVE IInv
<1> DEFINE bare == [row |-> BlankRow, column |-> 0]
           row == Put(bare, Invitation).row
<1>1. /\ ed.line = <<>> /\ ed.size = 0 /\ ed.cursor = 0 /\ ed.length = 0 /\ ed.lastChar = NUL /\ ed.escape = FALSE
      /\ ed.autocomplete = TRUE /\ ed.row = row /\ ed.column = Margin
      /\ ed = [line |-> <<>>, size |-> 0, cursor |-> 0, length |-> 0, lastChar |-> NUL, escape |-> FALSE,
               autocomplete |-> TRUE, row |-> row, column |-> Margin]
  BY DEF Init, Margin
<1>2. Margin \in Nat /\ Width \in Nat /\ Invitation \in Seq(Glyph) /\ Len(Invitation) = Margin /\ Blank \in Glyph
  BY WidthFacts DEF Margin
<1>3. BlankRow \in [0..Width - 1 -> Glyph] /\ DOMAIN BlankRow = 0..Width - 1 /\ \A i \in 0..Width - 1 : BlankRow[i] = Blank
  BY <1>2 DEF BlankRow
<1>4. row = [i \in 0..Width - 1 |-> IF i \in 0..0 + Margin - 1 THEN Invitation[i - 0 + 1] ELSE BlankRow[i]]
  BY <1>2, <1>3 DEF Put
<1> HIDE DEF row
<1>5. \A i \in 0..Width - 1 : i \in 0..0 + Margin - 1 <=> i < Margin
  BY <1>2
<1>6. ASSUME NEW i \in 0..Width - 1 PROVE row[i] = IF i < Margin THEN Invitation[i + 1] ELSE Blank
  <2>1. i - 0 + 1 = i + 1
    BY <1>2
  <2> QED BY <2>1, <1>3, <1>4, <1>5
<1>7. row \in Rows
  <2>1. \A i \in 0..Width - 1 : i < Margin => i + 1 \in 1..Margin
    BY <1>2
  <2>2. \A i \in 0..Width - 1 : row[i] \in Glyph
    BY <2>1, <1>2, <1>6
  <2> QED BY <2>2, <1>4 DEF Rows
<1>8. ed \in Editors
  <2>1. <<>> \in Lines /\ NUL \in Chars
    BY DEF Lines, Chars
  <2> QED BY <1>1, <1>2, <1>7, <2>1 DEF Editors
<1>9. Len(ed.line) = 0 /\ Extent(ed) = 0
  BY <1>1 DEF Extent
<1>10. Painted(ed.row, ed.line, 0)
  <2> SUFFICES ASSUME NEW i \in 0..Width - 1
               PROVE  /\ i < Margin => row[i] = Invitation[i + 1]
                      /\ Margin <= i /\ i < Margin + 0 => row[i] = ed.line[i - Margin + 1]
                      /\ Margin + 0 <= i => row[i] = Blank
    BY <1>1, <1>9 DEF Painted
  <2>1. Margin + 0 = Margin /\ (Margin <= i <=> ~ i < Margin)
    BY <1>2
  <2> QED BY <1>6, <2>1
<1>11. Lined(ed)
  <2>1. 0 + 2 <= CmdMaxSize /\ 0 <= MaxLineLength /\ Margin = Margin + 0 - 0
    BY WidthFacts
  <2> QED BY <1>1, <1>9, <1>10, <2>1 DEF Lined
<1>12. Offered(ed)
  <2>1. Candidates(ed.line) = {}
    BY <1>1 DEF Candidates
  <2>2. Offer(ed) = <<>>
    BY <2>1 DEF Offer
  <2> DEFINE offer == Offer(ed)
             p == Margin + 0
  <2>3. \A i \in 1..0 : ed.row[p + i - 1] = offer[i]
    OBVIOUS
  <2> HIDE DEF offer, p
  <2>4. Offers(ed.row, p, offer, 0)
    BY <2>3 DEF Offers
  <2>5. Len(offer) = 0 /\ 0 = 0 + 0
    BY <2>2 DEF offer
  <2>6. ed.length = ed.size + Len(offer) /\ Margin + ed.size = p
    BY <1>1, <2>5 DEF p
  <2> QED BY <2>4, <2>5, <2>6 DEF Offered, offer
<1>13. HistoryInv
  <2>1. /\ history = [buf |-> [i \in 0..HistorySize - 1 |-> NUL], count |-> 0, current |-> 0] /\ recent = <<>>
    BY DEF Init, EmptyHistory
  <2>2. recent \in Commands /\ Len(recent) = 0 /\ DOMAIN recent = {}
    BY <2>1 DEF Commands
  <2>3. Bytes(recent, Len(recent)) = 0
    BY <2>2, BytesFacts
  <2>4. history \in Histories /\ history.count = 0 /\ history.current = 0 /\ history.buf \in [0..HistorySize - 1 -> Letter \cup {NUL}]
    BY <2>1 DEF Histories
  <2>5. Holds(history.buf, recent)
    BY <2>2, <2>3, <2>4, HistoryAssumption DEF Holds
  <2> QED BY <2>2, <2>4, <2>5 DEF HistoryInv, Distinct, Fitting
<1> QED BY <1>8, <1>11, <1>12, <1>13 DEF IInv, EditorInv

-----------------------------------------------------------------------------
(* The steps *)

\* Most characters leave the history alone.
LEMMA UnchangedInv ==
  ASSUME HistoryInv, HistoryUnchanged
  PROVE  HistoryInv'
BY DEF HistoryUnchanged, HistoryInv, Histories

\* A character after which the editor is s again but for the escape mode.
LEMMA ModeStep ==
  ASSUME IInv, NEW b \in BOOLEAN, NEW c \in Chars, After([ed EXCEPT !.escape = b], c)
  PROVE  EditorInv'
<1> DEFINE s == [ed EXCEPT !.escape = b]
<1>1. s \in Editors /\ Lined(s)
  BY ModeIsLined DEF IInv, EditorInv
<1>2. After(s, c)
  OBVIOUS
<1> HIDE DEF s
<1> QED BY <1>1, <1>2, AfterInv

LEMMA IgnoredInv ==
  ASSUME IInv, NEW c \in Typed \cup Keys, Ignored(c)
  PROVE  IInv'
<1>1. c \in Chars /\ ed \in Editors /\ Lined(ed) /\ After(ed, c) /\ HistoryUnchanged /\ HistoryInv
  BY CharFacts DEF Ignored, IInv, EditorInv
<1> QED BY <1>1, AfterInv, UnchangedInv DEF IInv

LEMMA EscapeModeInv ==
  ASSUME IInv, EscapeMode
  PROVE  IInv'
<1>1. HistoryInv /\ HistoryUnchanged /\ "[" \in Chars /\ TRUE \in BOOLEAN
  BY CharFacts DEF EscapeMode, IInv
<1>2. EditorInv'
  BY <1>1, ModeStep DEF EscapeMode
<1> QED BY <1>1, <1>2, UnchangedInv DEF IInv

LEMMA SkipEscapedInv ==
  ASSUME IInv, NEW c \in Keys, SkipEscaped(c)
  PROVE  IInv'
<1> DEFINE b == (c # "[")
<1>1. HistoryInv /\ HistoryUnchanged /\ c \in Chars /\ After([ed EXCEPT !.escape = b], c)
  BY CharFacts DEF SkipEscaped, IInv
<1>2. b \in BOOLEAN
  OBVIOUS
<1> HIDE DEF b
<1>3. EditorInv'
  BY <1>1, <1>2, ModeStep
<1> QED BY <1>1, <1>3, UnchangedInv DEF IInv

LEMMA ArrowAtEndInv ==
  ASSUME IInv, NEW c \in Keys, ArrowAtEnd(c)
  PROVE  IInv'
<1>1. HistoryInv /\ HistoryUnchanged /\ c \in Chars /\ FALSE \in BOOLEAN
  BY CharFacts DEF ArrowAtEnd, IInv
<1>2. EditorInv'
  BY <1>1, ModeStep DEF ArrowAtEnd
<1> QED BY <1>1, <1>2, UnchangedInv DEF IInv

\* The item that an arrow brings into the line fits it.
LEMMA NavigateHistoryInv ==
  ASSUME IInv, NEW c \in Keys, NavigateHistory(c)
  PROVE  IInv'
<1> DEFINE s == [ed EXCEPT !.escape = FALSE]
           item == IF history'.current = 0 THEN <<>> ELSE ItemAt(history, history'.current)
           r == ReplaceLine(s, item)
           t == Live(r)
<1>1. s \in Editors /\ Lined(s) /\ c \in Chars /\ HistoryInv
  BY ModeIsLined, CharFacts DEF IInv, EditorInv
<1>2. \E n \in Nat : n <= history.count /\ history' = [history EXCEPT !.current = n]
  <2>1. history.count \in Nat /\ history.current \in Nat
    BY <1>1, HistoryFacts
  <2>2. CASE history.current < history.count /\ history' = [history EXCEPT !.current = @ + 1]
    <3> DEFINE n == history.current + 1
    <3>1. n \in Nat /\ n <= history.count /\ history' = [history EXCEPT !.current = n]
      BY <2>1, <2>2
    <3> HIDE DEF n
    <3> QED BY <3>1
  <2>3. CASE history.current > 0 /\ history' = [history EXCEPT !.current = @ - 1]
    <3> DEFINE n == history.current - 1
    <3>1. history.current <= history.count
      BY <1>1 DEF HistoryInv
    <3>2. n \in Nat /\ n <= history.count /\ history' = [history EXCEPT !.current = n]
      BY <2>1, <2>3, <3>1
    <3> HIDE DEF n
    <3> QED BY <3>2
  <2> QED BY <2>2, <2>3 DEF NavigateHistory
<1>3. PICK n \in Nat : n <= history.count /\ history' = [history EXCEPT !.current = n]
  BY <1>2
<1>4. history'.current = n
  BY <1>1, <1>3, HistoryFacts
<1>5. item \in Seq(Letter) /\ Len(item) + 2 <= CmdMaxSize
  <2>1. CASE n = 0
    <3>1. item = <<>> /\ 0 + 2 <= CmdMaxSize
      BY <1>4, <2>1, WidthFacts
    <3> HIDE DEF item
    <3>2. <<>> \in Seq(Letter) /\ Len(<<>>) = 0
      OBVIOUS
    <3> QED BY <3>1, <3>2
  <2>2. CASE n # 0
    <3>1. n \in 1..history.count /\ item = ItemAt(history, n)
      BY <1>1, <1>3, <1>4, <2>2, HistoryFacts
    <3> QED BY <1>1, <3>1, ItemFits
  <2> QED BY <2>1, <2>2
<1>6. After(t, c)
  BY DEF NavigateHistory
<1> HIDE DEF s, item
<1>7. r \in Editors /\ Lined(r)
  BY <1>1, <1>5, ReplaceIsLined
<1> HIDE DEF r
<1>8. t \in Editors /\ Lined(t)
  BY <1>7, LiveFacts
<1> HIDE DEF t
<1>9. EditorInv'
  BY <1>1, <1>6, <1>8, AfterInv
<1>10. recent' = recent
  BY DEF NavigateHistory
<1>11. HistoryInv'
  BY <1>1, <1>3, <1>10, CurrentInv
<1> QED BY <1>9, <1>11 DEF IInv

LEMMA MoveCursorInv ==
  ASSUME IInv, NEW c \in Keys, MoveCursor(c)
  PROVE  IInv'
<1> DEFINE s == [ed EXCEPT !.escape = FALSE]
<1>1. s \in Editors /\ Lined(s) /\ SameButLast(ed, s) /\ c \in Chars /\ HistoryInv /\ HistoryUnchanged
  BY ModeIsLined, CharFacts DEF MoveCursor, IInv, EditorInv
<1>2. PICK t : Moves(s, t) /\ After(t, c)
  <2>1. s.cursor = ed.cursor /\ s.line = ed.line
    BY <1>1 DEF SameButLast
  <2>2. CASE ed.cursor > 0 /\ After([CursorForward(s, 1) EXCEPT !.cursor = @ - 1], c)
    <3> DEFINE t == [CursorForward(s, 1) EXCEPT !.cursor = @ - 1]
    <3>1. Moves(s, t) /\ After(t, c)
      BY <2>1, <2>2 DEF Moves
    <3> HIDE DEF t
    <3> QED BY <3>1
  <2>3. CASE ed.cursor < Len(ed.line) /\ After([CursorBack(s, 1) EXCEPT !.cursor = @ + 1], c)
    <3> DEFINE t == [CursorBack(s, 1) EXCEPT !.cursor = @ + 1]
    <3>1. Moves(s, t) /\ After(t, c)
      BY <2>1, <2>3 DEF Moves
    <3> HIDE DEF t
    <3> QED BY <3>1
  <2> QED BY <2>2, <2>3 DEF MoveCursor
<1> HIDE DEF s
<1>3. t \in Editors /\ Lined(t)
  BY <1>1, <1>2, MoveIsLined
<1> QED BY <1>1, <1>2, <1>3, AfterInv, UnchangedInv DEF IInv

LEMMA CharInputInv ==
  ASSUME IInv, NEW c \in Typed, CharInput(c)
  PROVE  IInv'
<1> DEFINE t == WithChar(ed, c)
<1>1. ed \in Editors /\ Lined(ed) /\ HasRoom(ed) /\ ed.length < MaxLineLength /\ HistoryInv /\ HistoryUnchanged
  BY DEF CharInput, LengthBound, IInv, EditorInv
<1>2. c \in Letter /\ c \in Chars
  BY EditorAssumption, CharFacts
<1>3. After(t, c)
  BY DEF CharInput, WithChar, Inserted
<1>4. t \in Editors /\ Lined(t)
  BY <1>1, <1>2, CharInputIsLined
<1> HIDE DEF t
<1> QED BY <1>1, <1>2, <1>3, <1>4, AfterInv, UnchangedInv DEF IInv

LEMMA BackspaceInv ==
  ASSUME IInv, Backspace
  PROVE  IInv'
<1> DEFINE t == WithoutChar(ed)
<1>1. ed \in Editors /\ Lined(ed) /\ ed.size - ed.cursor > 0 /\ HistoryInv /\ HistoryUnchanged /\ "BS" \in Chars
  BY CharFacts DEF Backspace, IInv, EditorInv
<1>2. After(t, "BS")
  BY DEF Backspace, WithoutChar, RemoveAt
<1>3. t \in Editors /\ Lined(t)
  BY <1>1, BackspaceIsLined
<1> HIDE DEF t
<1> QED BY <1>1, <1>2, <1>3, AfterInv, UnchangedInv DEF IInv

LEMMA TabInv ==
  ASSUME IInv, Tab
  PROVE  IInv'
<1> DEFINE t == AutocompleteRequest(ed)
<1>1. ed \in Editors /\ Lined(ed) /\ Offered(ed) /\ HistoryInv /\ HistoryUnchanged /\ "TAB" \in Chars /\ After(t, "TAB")
  BY CharFacts DEF Tab, IInv, EditorInv
<1>2. t \in Editors /\ Lined(t)
  BY <1>1, RequestFacts
<1> HIDE DEF t
<1> QED BY <1>1, <1>2, AfterInv, UnchangedInv DEF IInv

\* What is put into the history is the completed line.
LEMMA EnterInv ==
  ASSUME IInv, NEW c \in {"CR", "LF"}, Enter(c)
  PROVE  IInv'
<1> DEFINE completed == AutocompleteRequest(ed)
           line == completed.line
           executed == ~IsBlank(line)
           toggles == executed /\ CommandName(line) = Toggling
           t == Ended(completed, toggles)
<1>1. ed \in Editors /\ Lined(ed) /\ Offered(ed) /\ HistoryInv /\ c \in Chars
  BY CharFacts DEF IInv, EditorInv
<1>2. After(t, c)
  BY DEF Enter, Ended
<1>3. /\ history' = [IF executed THEN HistoryPut(history, line) ELSE history EXCEPT !.current = 0]
      /\ recent' = IF executed THEN Remember(recent, line) ELSE recent
  BY DEF Enter
<1>4. completed \in Editors /\ Lined(completed)
  BY <1>1, RequestFacts
<1>5. toggles \in BOOLEAN
  OBVIOUS
<1>6. executed \in BOOLEAN
  OBVIOUS
<1> HIDE DEF completed
<1>7. line \in Seq(Letter) /\ Len(line) + 2 <= CmdMaxSize
  BY <1>4, EditorFacts DEF Lined
<1> HIDE DEF toggles, executed, line
<1>8. EditorInv'
  <2>1. t \in Editors /\ Lined(t)
    BY <1>4, <1>5, EndedIsLined
  <2> HIDE DEF t
  <2> QED BY <1>1, <1>2, <2>1, AfterInv
<1>9. HistoryInv'
  <2>1. CASE executed
    <3> DEFINE new == HistoryPut(history, line)
    <3>1. history' = [new EXCEPT !.current = 0] /\ recent' = Remember(recent, line)
      BY <1>3, <2>1
    <3>2. new = HistoryPut(history, line)
      OBVIOUS
    <3> HIDE DEF new
    <3> QED BY <1>1, <1>7, <3>1, <3>2, PutInv
  <2>2. CASE ~ executed
    <3>1. history' = [history EXCEPT !.current = 0] /\ recent' = recent
      BY <1>3, <2>2
    <3>2. 0 \in Nat /\ 0 <= history.count
      BY <1>1, HistoryFacts
    <3> QED BY <1>1, <3>1, <3>2, CurrentInv
  <2> QED BY <2>1, <2>2
<1> QED BY <1>8, <1>9 DEF IInv

\* A line printed in between leaves prompt, line and offer on the row below it.
LEMMA PrintLineInv ==
  ASSUME IInv, PrintLine
  PROVE  IInv'
<1> DEFINE t == CursorBack(ShowLine(LineBreak([ClearCurrentLine(ed) EXCEPT !.cursor = ed.cursor])), ed.cursor)
<1>1. ed \in Editors /\ Lined(ed) /\ HistoryInv /\ HistoryUnchanged /\ ed' = Live(t)
  BY DEF PrintLine, IInv, EditorInv
<1>2. t \in Editors /\ Lined(t)
  BY <1>1, PrintIsLined
<1> HIDE DEF t
<1> QED BY <1>1, <1>2, LiveInv, UnchangedInv DEF IInv

\* The invariant is inductive.
LEMMA NextInv ==
  ASSUME IInv, [Next]_vars
  PROVE  IInv'
<1>1. ASSUME NEW c \in Typed, CharInput(c) PROVE IInv'
  BY <1>1, CharInputInv
<1>2. ASSUME NEW c \in Typed \cup Keys, Ignored(c) PROVE IInv'
  BY <1>2, IgnoredInv
<1>3. CASE EscapeMode
  BY <1>3, EscapeModeInv
<1>4. ASSUME NEW c \in Keys, SkipEscaped(c) PROVE IInv'
  BY <1>4, SkipEscapedInv
<1>5. ASSUME NEW c \in Keys, NavigateHistory(c) PROVE IInv'
  BY <1>5, NavigateHistoryInv
<1>6. ASSUME NEW c \in Keys, ArrowAtEnd(c) PROVE IInv'
  BY <1>6, ArrowAtEndInv
<1>7. ASSUME NEW c \in Keys, MoveCursor(c) PROVE IInv'
  BY <1>7, MoveCursorInv
<1>8. CASE Backspace
  BY <1>8, BackspaceInv
<1>9. CASE Tab
  BY <1>9, TabInv
<1>10. ASSUME NEW c \in {"CR", "LF"}, Enter(c) PROVE IInv'
  BY <1>10, EnterInv
<1>11. CASE PrintLine
  BY <1>11, PrintLineInv
<1>12. CASE UNCHANGED vars
  BY <1>12 DEF vars, IInv, EditorInv, HistoryInv, Histories, Editors, Lined, Offered, Extent, Offer
<1> QED BY <1>1, <1>2, <1>3, <1>4, <1>5, <1>6, <1>7, <1>8, <1>9, <1>10, <1>11, <1>12 DEF Next

\* Of every state that any sequence of characters and printed lines leads to:
\* the row is painted, the lengths fit it, and the bytes hold the commands.
THEOREM EditorInductive == Spec => []IInv
<1>1. Init => IInv
  BY InitInv
<1>2. IInv /\ [Next]_vars => IInv'
  BY NextInv
<1> QED BY <1>1, <1>2, PTL DEF Spec

-----------------------------------------------------------------------------
(* What follows from the invariant *)

\* Every component keeps its type: the line and the numbers stay within the
\* buffer, the cursor within the row, the history within its bytes.
THEOREM CliEditorTypes == Spec => []TypeOK
<1>1. IInv => TypeOK
  <2> SUFFICES ASSUME IInv PROVE TypeOK
    OBVIOUS
  <2> DEFINE line == ed.line
             size == ed.size
             cursor == ed.cursor
             column == ed.column
             length == ed.length
  <2>1. /\ ed \in Editors /\ line \in Seq(Letter) /\ size \in Nat /\ cursor \in Nat /\ column \in Nat /\ length \in Nat
        /\ size = Len(line) /\ size + 2 <= CmdMaxSize /\ cursor <= size /\ length <= MaxLineLength
        /\ column = Margin + size - cursor /\ HistoryInv
    BY EditorFacts DEF IInv, EditorInv, Lined
  <2>2. /\ ed.lastChar \in Letter \cup Keys \cup {NUL} /\ ed.escape \in BOOLEAN /\ ed.autocomplete \in BOOLEAN
        /\ ed.row \in [0..Width - 1 -> Letter \cup ToSet(Invitation)]
    BY <2>1 DEF Editors, Chars, Rows, Glyph
  <2>3. history.buf \in [0..HistorySize - 1 -> Letter \cup {NUL}] /\ history.count \in Nat /\ history.current \in 0..history.count
    <3>1. history.current <= history.count /\ history.count \in Nat /\ history.current \in Nat
      BY <2>1, HistoryFacts DEF HistoryInv
    <3> QED BY <2>1, <3>1 DEF HistoryInv, Histories
  <2> HIDE DEF line, size, cursor, column, length
  <2>4. /\ size \in 0..CmdMaxSize - 2 /\ cursor \in 0..CmdMaxSize - 2 /\ length \in 0..MaxLineLength
        /\ column \in 0..Width - 1
    BY <2>1, WidthFacts
  <2>5. line \in [1..size -> Letter]
    BY <2>1
  <2>6. line \in UNION {[1..n -> Letter] : n \in 0..CmdMaxSize - 2}
    BY <2>4, <2>5
  <2> QED BY <2>2, <2>3, <2>4, <2>6 DEF TypeOK, line, size, cursor, column, length
<1> QED BY <1>1, EditorInductive, PTL

\* The lengths that onCharInput, onControlInput, navigateHistory and
\* onAutocompleteRequest each keep on their own agree after every character.
THEOREM LengthsAgree == Spec => []SizesAgree
<1>1. IInv => SizesAgree
  BY DEF IInv, EditorInv, Lined, SizesAgree
<1> QED BY <1>1, EditorInductive, PTL

Joined(u, a, b, m, n) == \A i \in 1..m + n : u[i] = IF i <= m THEN a[i] ELSE b[i - m]

LEMMA JoinedFacts ==
  ASSUME NEW T, NEW a \in Seq(T), NEW b \in Seq(T)
  PROVE  a \o b \in Seq(T) /\ Len(a \o b) = Len(a) + Len(b) /\ Joined(a \o b, a, b, Len(a), Len(b))
BY DEF Joined

\* The same with the three parts that the row shows, counted from 0.
Consists(u, a, b, c, m, n, l) ==
  \A i \in 0..m + n + l - 1 :
    /\ i < m => u[i + 1] = a[i + 1]
    /\ m <= i /\ i < m + n => u[i + 1] = b[i - m + 1]
    /\ m + n <= i => u[i + 1] = c[i - (m + n) + 1]

LEMMA ConsistsFacts ==
  ASSUME NEW T, NEW a \in Seq(T), NEW b \in Seq(T), NEW c \in Seq(T)
  PROVE  /\ Len((a \o b) \o c) = Len(a) + Len(b) + Len(c)
         /\ Consists((a \o b) \o c, a, b, c, Len(a), Len(b), Len(c))
<1> DEFINE m == Len(a)
           n == Len(b)
           l == Len(c)
<1>0. m \in Nat /\ n \in Nat /\ l \in Nat /\ Len(a) = m /\ Len(b) = n /\ Len(c) = l
  OBVIOUS
<1> HIDE DEF m, n, l
<1> DEFINE ab == a \o b
           u == ab \o c
<1>1. ab \in Seq(T) /\ Len(ab) = m + n /\ Joined(ab, a, b, m, n)
  <2>1. ab \in Seq(T) /\ Len(ab) = Len(a) + Len(b) /\ Joined(ab, a, b, Len(a), Len(b))
    BY JoinedFacts
  <2> HIDE DEF ab
  <2> QED BY <1>0, <2>1
<1> HIDE DEF ab
<1>2. Len(u) = m + n + l /\ Joined(u, ab, c, m + n, l)
  <2>1. Len(u) = Len(ab) + Len(c) /\ Joined(u, ab, c, Len(ab), Len(c))
    BY <1>1, JoinedFacts
  <2> HIDE DEF u
  <2> QED BY <1>0, <1>1, <2>1
<1> HIDE DEF u
<1>3. ASSUME NEW i \in 0..m + n + l - 1
      PROVE  /\ i < m => u[i + 1] = a[i + 1]
             /\ m <= i /\ i < m + n => u[i + 1] = b[i - m + 1]
             /\ m + n <= i => u[i + 1] = c[i - (m + n) + 1]
  <2> DEFINE k == i + 1
             size == m + n
  <2>1. /\ k \in 1..size + l
        /\ i < m => k <= size /\ k \in 1..size /\ k <= m
        /\ m <= i /\ i < size => k <= size /\ k \in 1..size /\ ~ k <= m /\ k - m = i - m + 1
        /\ size <= i => ~ k <= size /\ k - size = i - size + 1
    BY <1>0
  <2> HIDE DEF k, size
  <2>2. u[k] = IF k <= size THEN ab[k] ELSE c[k - size]
    BY <1>2, <2>1 DEF Joined, size
  <2>3. k \in 1..size => ab[k] = IF k <= m THEN a[k] ELSE b[k - m]
    BY <1>1 DEF Joined, size
  <2> QED BY <2>1, <2>2, <2>3 DEF k, size
<1>4. Consists(u, a, b, c, m, n, l)
  BY <1>3 DEF Consists
<1> QED BY <1>2, <1>4 DEF u, ab, m, n, l

\* After any mixture of typing, editing, history, autocompletion and printing
\* the row of the terminal shows what will be executed and what all candidates
\* for its completion have in common, and nothing else.
THEOREM TerminalShowsLine == Spec => []ScreenShowsLine
<1>1. IInv => ScreenShowsLine
  <2> SUFFICES ASSUME IInv PROVE ScreenShowsLine
    OBVIOUS
  <2> DEFINE offer == IF ed.autocomplete THEN Offer(ed) ELSE <<>>
             head == Invitation \o ed.line
             shown == head \o offer
             l == Len(offer)
             size == ed.size
             row == ed.row
  <2>1. /\ ed \in Editors /\ Lined(ed) /\ Offered(ed) /\ ed.line \in Seq(Letter) /\ ed.line \in Seq(Glyph) /\ size \in Nat
        /\ size = Len(ed.line) /\ size + 2 <= CmdMaxSize /\ row \in [0..Width - 1 -> Glyph]
        /\ Painted(row, ed.line, Extent(ed)) /\ ed.column = Margin + ed.size - ed.cursor
    <3>1. ed \in Editors /\ Lined(ed) /\ Offered(ed) /\ ed.line \in Seq(Letter) /\ size \in Nat /\ row \in Rows
      BY EditorFacts DEF IInv, EditorInv
    <3>2. ed.line \in Seq(Glyph)
      BY <3>1, WidthFacts
    <3> QED BY <3>1, <3>2 DEF Lined, Rows
  <2>2. offer \in Seq(Letter) /\ offer \in Seq(Glyph) /\ l \in Nat
    <3>1. Offer(ed) \in Seq(Letter)
      BY <2>1, OfferFacts
    <3>2. offer \in Seq(Letter)
      BY <3>1
    <3> HIDE DEF offer
    <3> QED BY <3>2, WidthFacts
  <2>3. Extent(ed) = size + l
    <3>1. CASE ed.autocomplete
      BY <2>1, <3>1 DEF Extent, Offered
    <3>2. CASE ~ ed.autocomplete
      <4>1. offer = <<>>
        BY <3>2
      <4>2. l = 0
        BY <4>1
      <4> HIDE DEF l, offer
      <4>3. Extent(ed) = size
        BY <3>2 DEF Extent
      <4> HIDE DEF size
      <4> QED BY <2>1, <4>2, <4>3
    <3> QED BY <3>1, <3>2
  <2>4. Offers(row, Margin + size, offer, l)
    <3>1. CASE ed.autocomplete
      BY <2>1, <3>1 DEF Offered
    <3>2. CASE ~ ed.autocomplete
      <4>1. offer = <<>>
        BY <3>2
      <4>2. l = 0
        BY <4>1
      <4> HIDE DEF l, offer, size, row
      <4>3. \A i \in 1..l : row[Margin + size + i - 1] = offer[i]
        BY <4>2
      <4> QED BY <4>3 DEF Offers
    <3> QED BY <3>1, <3>2
  <2> HIDE DEF offer, l, size, row, head
  <2>5. Margin \in Nat /\ Width \in Nat /\ Invitation \in Seq(Glyph) /\ Len(Invitation) = Margin
    BY WidthFacts DEF Margin
  <2>6. Len(shown) = Margin + size + l /\ Consists(shown, Invitation, ed.line, offer, Margin, size, l)
    <3>1. Len(offer) = l
      BY DEF l
    <3>2. shown = (Invitation \o ed.line) \o offer
      BY DEF head
    <3> DEFINE line == ed.line
    <3>3. line \in Seq(Glyph) /\ Len(line) = size
      BY <2>1
    <3> HIDE DEF line, shown
    <3>4. /\ Len((Invitation \o line) \o offer) = Len(Invitation) + Len(line) + Len(offer)
          /\ Consists((Invitation \o line) \o offer, Invitation, line, offer, Len(Invitation), Len(line), Len(offer))
      BY <2>2, <2>5, <3>3, ConsistsFacts
    <3>5. shown = (Invitation \o line) \o offer
      BY <3>2 DEF line
    <3>6. Len(shown) = Margin + size + l /\ Consists(shown, Invitation, line, offer, Margin, size, l)
      BY <2>5, <3>1, <3>3, <3>4, <3>5
    <3> QED BY <3>6 DEF line
  <2> HIDE DEF shown
  <2>7. ASSUME NEW i \in 0..Width - 1 PROVE row[i] = IF i < Len(shown) THEN shown[i + 1] ELSE Blank
    <3>1. /\ i < Len(shown) <=> i \in 0..Margin + size + l - 1
          /\ ~ i < Len(shown) <=> Margin + (size + l) <= i
          /\ i < Margin \/ (Margin <= i /\ i < Margin + size) => i < Len(shown)
      BY <2>1, <2>2, <2>5, <2>6
    <3>2. CASE i < Margin
      BY <2>1, <2>6, <3>1, <3>2 DEF Painted, Consists
    <3>3. CASE Margin <= i /\ i < Margin + size
      BY <2>1, <2>6, <3>1, <3>3 DEF Painted, Consists
    <3>4. CASE Margin + size <= i /\ i < Len(shown)
      <4> DEFINE j == i - (Margin + size) + 1
      <4>1. j \in 1..l /\ Margin + size + j - 1 = i
        <5>1. /\ Margin \in Nat /\ size \in Nat /\ l \in Nat /\ i \in Nat /\ Margin + size <= i
              /\ i < Margin + size + l
          BY <2>1, <2>2, <2>5, <2>6, <3>4
        <5> QED BY <5>1
      <4>2. shown[i + 1] = offer[j]
        BY <2>6, <3>1, <3>4 DEF Consists
      <4> HIDE DEF j
      <4>3. row[Margin + size + j - 1] = offer[j]
        BY <2>4, <4>1 DEF Offers
      <4> QED BY <3>4, <4>1, <4>2, <4>3
    <3>5. CASE ~ i < Len(shown)
      BY <2>1, <2>3, <3>1, <3>5 DEF Painted
    <3>6. i < Margin \/ (Margin <= i /\ i < Margin + size) \/ (Margin + size <= i /\ i < Len(shown)) \/ ~ i < Len(shown)
      BY <2>1, <2>5
    <3> QED BY <3>2, <3>3, <3>4, <3>5, <3>6
  <2>8. row = [i \in 0..Width - 1 |-> IF i < Len(shown) THEN shown[i + 1] ELSE Blank]
    BY <2>1, <2>7
  <2> QED BY <2>1, <2>8 DEF ScreenShowsLine, row, shown, head, offer, Margin
<1> QED BY <1>1, EditorInductive, PTL

\* historyPut, historyRemove and historyGet keep in one buffer of bytes, with
\* NULs between the items and left-over bytes behind them, exactly the latest
\* commands, each once.
THEOREM HistoryDecodes == Spec => []HistoryIsRecent
<1>1. IInv => HistoryIsRecent
  <2> SUFFICES ASSUME IInv PROVE HistoryIsRecent
    OBVIOUS
  <2>1. HistoryInv /\ Holds(history.buf, recent) /\ Distinct(recent)
    BY DEF IInv, HistoryInv
  <2>2. recent \in Commands /\ DOMAIN recent = 1..Len(recent) /\ history.count = Len(recent)
    BY <2>1, HistoryFacts
  <2>3. \A n \in 1..Len(recent) : ItemAt(history, n) = recent[n]
    BY <2>1, <2>2, Decode
  <2>4. recent = [n \in 1..Len(recent) |-> recent[n]]
    BY <2>2 DEF Commands
  <2>5. Items(history) = recent
    BY <2>2, <2>3, <2>4 DEF Items
  <2> QED BY <2>1, <2>5 DEF HistoryIsRecent, Distinct
<1> QED BY <1>1, EditorInductive, PTL

\* getAutocompletedCommand compares each binding with the first alone and
\* narrows one length; what remains is common to all, and the longest such.
THEOREM CompletionIsSafe == Spec => []CompletionIsCommon
<1>1. IInv => CompletionIsCommon
  <2> SUFFICES ASSUME IInv, Candidates(ed.line) # {}
               PROVE  SubSeq(First(ed.line), 1, CompletedLength(ed.line, ed.size))
                        = LongestCommonPrefix({Names[n] : n \in Candidates(ed.line)})
    BY DEF CompletionIsCommon
  <2>1. ed.line \in Seq(Letter) /\ ed.size = Len(ed.line)
    BY EditorFacts DEF IInv, EditorInv, Lined
  <2> QED BY <2>1, CompletionIsLongest
<1> QED BY <1>1, EditorInductive, PTL
=============================================================================
