------------------------- MODULE UserSSHConfigProofs -------------------------
(***************************************************************************)
(* Theorems about the managed blocks in the user's OpenSSH config, for any *)
(* aliases, ports, number of commands and contents of the file.            *)
(*                                                                         *)
(* Three views of a content are inductive.  Tidy, that every end marker    *)
(* closes a whole block and there is one for an alias, survives overlaps   *)
(* and kills.  While nothing disturbs the commands, a content Keeps the    *)
(* user's original below what holds no line of the user; and, if no alias  *)
(* is a prefix of another one, what it holds above is a head of blocks and *)
(* blank lines, with one block for each alias that should have one.        *)
(***************************************************************************)
EXTENDS UserSSHConfig, SequenceTheorems, WellFoundedInduction, FiniteSetTheorems, TLAPS

-----------------------------------------------------------------------------
(* The operators on contents. *)

LEMMA LeastElement ==
    ASSUME NEW S, S \subseteq Nat, S # {}
    PROVE  Min(S) \in S /\ \A x \in S : Min(S) <= x
<1>. DEFINE Less == {p \in Nat \X Nat : p[1] < p[2]}
<1>1. IsWellFoundedOn(Less, Nat) BY NatLessThanWellFounded DEF OpToRel
<1>2. \E x \in S : \A y \in S : <<y, x>> \notin Less
  <2>. HIDE DEF Less
  <2>. QED BY <1>1, WFMin
<1>3. PICK x \in S : \A y \in S : <<y, x>> \notin Less BY <1>2
<1>4. ASSUME NEW y \in S PROVE x <= y
  <2>1. x \in Nat /\ y \in Nat OBVIOUS
  <2>2. <<y, x>> \in Less <=> y < x BY <2>1
  <2>. QED BY <1>3, <2>1, <2>2
<1>5. \E z \in S : \A y \in S : z <= y BY <1>4
<1>. QED BY <1>5 DEF Min

LEMMA BlankKind == Blank.kind = "blank"
BY DEF Blank, Line

\* TrimLeft drops blank lines, and all of them.
IsLead(s, k) ==
    /\ \A i \in 1..k : s[i] = Blank
    /\ k < Len(s) => s[k + 1] # Blank

LEMMA Trimmed ==
    ASSUME NEW s \in Seq(Lines)
    PROVE  \E k \in 0..Len(s) : /\ IsLead(s, k)
                                /\ TrimLeft(s) = SubSeq(s, k + 1, Len(s))
<1>. DEFINE rest == {i \in DOMAIN s : s[i] # Blank}
<1>1. Len(s) \in Nat /\ DOMAIN s = 1..Len(s) BY LenProperties
<1>2. CASE rest = {}
  <2>1. TrimLeft(s) = <<>> BY <1>2 DEF TrimLeft
  <2>2. SubSeq(s, Len(s) + 1, Len(s)) = <<>> BY <1>1, SubSeqEmpty
  <2>3. IsLead(s, Len(s)) BY <1>1, <1>2 DEF IsLead
  <2>. QED BY <1>1, <2>1, <2>2, <2>3
<1>3. CASE rest # {}
  <2>1. rest \subseteq Nat BY <1>1
  <2>2. Min(rest) \in rest /\ \A x \in rest : Min(rest) <= x BY <1>3, <2>1, LeastElement
  <2>3. TrimLeft(s) = SubSeq(s, Min(rest), Len(s)) BY <1>3 DEF TrimLeft
  <2>. DEFINE k == Min(rest) - 1
  <2>4. k \in 0..Len(s) /\ k + 1 = Min(rest) BY <1>1, <2>2
  <2>5. IsLead(s, k)
    <3>1. ASSUME NEW i \in 1..k PROVE s[i] = Blank
      <4>1. i \in 1..Len(s) /\ i < Min(rest) BY <2>4, <1>1
      <4>2. Min(rest) \in Nat BY <2>1, <2>2
      <4>3. ~(Min(rest) <= i) BY <4>1, <4>2
      <4>4. i \notin rest BY <4>3, <2>2
      <4>. QED BY <4>1, <4>4, <1>1
    <3>2. s[k + 1] # Blank BY <2>2, <2>4
    <3>. QED BY <3>1, <3>2 DEF IsLead
  <2>6. TrimLeft(s) = SubSeq(s, k + 1, Len(s)) BY <2>3, <2>4
  <2>. QED BY <2>4, <2>5, <2>6
<1>. QED BY <1>2, <1>3

LEMMA SuffixIs ==
    ASSUME NEW s \in Seq(Lines), NEW k \in 0..Len(s)
    PROVE  /\ SubSeq(s, k + 1, Len(s)) \in Seq(Lines)
           /\ Len(SubSeq(s, k + 1, Len(s))) = Len(s) - k
           /\ \A i \in 1..(Len(s) - k) : SubSeq(s, k + 1, Len(s))[i] = s[k + i]
<1>1. Len(s) \in Nat BY LenProperties
<1>2. \A i \in (k + 1)..Len(s) : s[i] \in Lines BY <1>1, ElementOfSeq
<1>3. k + 1 \in Int /\ Len(s) \in Int BY <1>1
<1>4. /\ SubSeq(s, k + 1, Len(s)) \in Seq(Lines)
      /\ Len(SubSeq(s, k + 1, Len(s))) = IF k + 1 <= Len(s) THEN Len(s) - (k + 1) + 1 ELSE 0
      /\ \A i \in 1..(Len(s) - (k + 1) + 1) : SubSeq(s, k + 1, Len(s))[i] = s[(k + 1) + i - 1]
    BY <1>2, <1>3, SubSeqProperties
<1>5. ASSUME NEW i \in 1..(Len(s) - k) PROVE SubSeq(s, k + 1, Len(s))[i] = s[k + i]
  <2>1. i \in 1..(Len(s) - (k + 1) + 1) /\ (k + 1) + i - 1 = k + i BY <1>1
  <2>. QED BY <1>4, <2>1
<1>6. Len(SubSeq(s, k + 1, Len(s))) = Len(s) - k BY <1>1, <1>4
<1>. QED BY <1>4, <1>5, <1>6

LEMMA PrefixIs ==
    ASSUME NEW s \in Seq(Lines), NEW k \in 0..Len(s)
    PROVE  /\ SubSeq(s, 1, k) \in Seq(Lines)
           /\ Len(SubSeq(s, 1, k)) = k
           /\ \A i \in 1..k : SubSeq(s, 1, k)[i] = s[i]
<1>1. Len(s) \in Nat /\ k \in Int BY LenProperties
<1>2. \A i \in 1..k : s[i] \in Lines BY <1>1, ElementOfSeq
<1>3. /\ SubSeq(s, 1, k) \in Seq(Lines)
      /\ Len(SubSeq(s, 1, k)) = IF 1 <= k THEN k - 1 + 1 ELSE 0
      /\ \A i \in 1..(k - 1 + 1) : SubSeq(s, 1, k)[i] = s[1 + i - 1]
    BY <1>1, <1>2, SubSeqProperties
<1>4. ASSUME NEW i \in 1..k PROVE SubSeq(s, 1, k)[i] = s[i]
  <2>1. i \in 1..(k - 1 + 1) /\ 1 + i - 1 = i BY <1>1
  <2>. QED BY <1>3, <2>1
<1>5. Len(SubSeq(s, 1, k)) = k BY <1>1, <1>3
<1>. QED BY <1>3, <1>4, <1>5

\* The two places that a turn of the loop cuts at.
LEMMA CutPlaces ==
    ASSUME NEW s \in Seq(Lines), NEW a \in Aliases, Stops(s, a) # {}
    PROVE  LET b == Min(Starts(s, a))
               e == Min(Stops(s, a))
           IN  /\ b \in Starts(s, a) /\ \A i \in Starts(s, a) : b <= i
               /\ e \in Stops(s, a) /\ \A i \in Stops(s, a) : e <= i
               /\ b \in 1..Len(s) /\ e \in 1..Len(s) /\ b < e
               /\ s[b].kind = "begin" /\ s[e].kind = "end"
<1>1. Len(s) \in Nat /\ DOMAIN s = 1..Len(s) BY LenProperties
<1>2. Starts(s, a) \subseteq 1..Len(s) /\ Stops(s, a) \subseteq 1..Len(s)
    BY <1>1 DEF Starts, Stops, Marks
<1>3. Starts(s, a) # {} BY DEF Stops
<1>4. /\ Min(Starts(s, a)) \in Starts(s, a)
      /\ \A i \in Starts(s, a) : Min(Starts(s, a)) <= i
    BY <1>1, <1>2, <1>3, LeastElement
<1>5. /\ Min(Stops(s, a)) \in Stops(s, a)
      /\ \A i \in Stops(s, a) : Min(Stops(s, a)) <= i
    BY <1>1, <1>2, LeastElement
<1>6. PICK j \in Starts(s, a) : j < Min(Stops(s, a)) BY <1>5 DEF Stops
<1>7. Min(Starts(s, a)) < Min(Stops(s, a))
  <2>1. /\ Min(Starts(s, a)) \in Nat /\ Min(Stops(s, a)) \in Nat /\ j \in Nat
        /\ Min(Starts(s, a)) <= j
    BY <1>1, <1>2, <1>4, <1>5
  <2>. QED BY <1>6, <2>1
<1>8. s[Min(Starts(s, a))].kind = "begin" /\ s[Min(Stops(s, a))].kind = "end"
    BY <1>4, <1>5 DEF Starts, Stops, Marks
<1>. QED BY <1>2, <1>4, <1>5, <1>7, <1>8

\* r is s without the lines from b to e, the former by the latter.
Without(r, s, b, e) ==
    /\ r \in Seq(Lines)
    /\ Len(r) = Len(s) - (e - b + 1)
    /\ \A i \in 1..(b - 1) : r[i] = s[i]
    /\ \A i \in b..Len(r) : r[i] = s[i + (e - b + 1)]

LEMMA Joined ==
    ASSUME NEW s \in Seq(Lines), NEW b \in 1..Len(s), NEW e \in b..Len(s)
    PROVE  Without(SubSeq(s, 1, b - 1) \o SubSeq(s, e + 1, Len(s)), s, b, e)
<1>. DEFINE u == SubSeq(s, 1, b - 1)
            v == SubSeq(s, e + 1, Len(s))
            r == u \o v
<1>1. Len(s) \in Nat /\ b - 1 \in 0..Len(s) /\ e \in 0..Len(s)
    BY LenProperties
<1>2. u \in Seq(Lines) /\ Len(u) = b - 1 /\ \A i \in 1..(b - 1) : u[i] = s[i]
    BY <1>1, PrefixIs
<1>3. /\ v \in Seq(Lines) /\ Len(v) = Len(s) - e
      /\ \A i \in 1..(Len(s) - e) : v[i] = s[e + i]
    BY <1>1, SuffixIs
<1>. HIDE DEF u, v
<1>4. /\ r \in Seq(Lines) /\ Len(r) = Len(u) + Len(v)
      /\ \A i \in 1..(Len(u) + Len(v)) : r[i] = IF i <= Len(u) THEN u[i] ELSE v[i - Len(u)]
    BY <1>2, <1>3, ConcatProperties
<1>. HIDE DEF r
<1>5. Len(r) = Len(s) - (e - b + 1) BY <1>1, <1>2, <1>3, <1>4
<1>6. ASSUME NEW i \in 1..(b - 1) PROVE r[i] = s[i]
  <2>1. i \in 1..(Len(u) + Len(v)) /\ i <= Len(u) BY <1>1, <1>2, <1>3
  <2>. QED BY <1>2, <1>4, <2>1
<1>7. ASSUME NEW i \in b..Len(r) PROVE r[i] = s[i + (e - b + 1)]
  <2>1. /\ i \in 1..(Len(u) + Len(v)) /\ ~(i <= Len(u)) /\ i - Len(u) \in 1..(Len(s) - e)
        /\ e + (i - Len(u)) = i + (e - b + 1)
    BY <1>1, <1>2, <1>3, <1>5
  <2>2. r[i] = v[i - Len(u)] BY <1>4, <2>1
  <2>. QED BY <1>3, <2>1, <2>2
<1>8. r \in Seq(Lines) BY <1>4
<1>9. Without(r, s, b, e) BY <1>5, <1>6, <1>7, <1>8 DEF Without
<1>. QED BY <1>9 DEF r, u, v

\* A turn for an alias that is no prefix of the marker it finds: the block goes,
\* with the blank lines after it.
LEMMA TurnRemoves ==
    ASSUME NEW s \in Seq(Lines), NEW a \in Aliases, Stops(s, a) # {},
           s[Min(Stops(s, a))].name = a
    PROVE  \E m \in Min(Stops(s, a))..Len(s) :
               /\ \A i \in (Min(Stops(s, a)) + 1)..m : s[i] = Blank
               /\ m < Len(s) => s[m + 1] # Blank
               /\ Without(removeManagedBlock(s, a), s, Min(Starts(s, a)), m)
<1>. DEFINE b == Min(Starts(s, a))
            e == Min(Stops(s, a))
            v == SubSeq(s, e + 1, Len(s))
<1>1. Len(s) \in Nat /\ b \in 1..Len(s) /\ e \in 1..Len(s) /\ b < e
    BY CutPlaces, LenProperties
<1>2. removeManagedBlock(s, a) = SubSeq(s, 1, b - 1) \o TrimLeft(v)
    BY DEF removeManagedBlock, AfterEnd
<1>. HIDE DEF b, e
<1>3. /\ v \in Seq(Lines) /\ Len(v) = Len(s) - e
      /\ \A i \in 1..(Len(s) - e) : v[i] = s[e + i]
    BY <1>1, SuffixIs
<1>. HIDE DEF v
<1>4. PICK k \in 0..Len(v) : IsLead(v, k) /\ TrimLeft(v) = SubSeq(v, k + 1, Len(v))
    BY <1>3, Trimmed
<1>. DEFINE m == e + k
<1>5. m \in e..Len(s) /\ m \in b..Len(s) /\ m \in 0..Len(s) BY <1>1, <1>3
<1>6. SubSeq(v, k + 1, Len(v)) = SubSeq(s, m + 1, Len(s))
  <2>. DEFINE x == SubSeq(v, k + 1, Len(v))
              y == SubSeq(s, m + 1, Len(s))
  <2>1. x \in Seq(Lines) /\ Len(x) = Len(v) - k /\ \A i \in 1..(Len(v) - k) : x[i] = v[k + i]
    BY <1>3, SuffixIs
  <2>2. y \in Seq(Lines) /\ Len(y) = Len(s) - m /\ \A i \in 1..(Len(s) - m) : y[i] = s[m + i]
    BY <1>5, SuffixIs
  <2>. HIDE DEF x, y
  <2>3. Len(x) = Len(y) BY <1>1, <1>3, <2>1, <2>2
  <2>4. ASSUME NEW i \in 1..Len(x) PROVE x[i] = y[i]
    <3>1. i \in 1..(Len(v) - k) /\ i \in 1..(Len(s) - m) /\ k + i \in 1..(Len(s) - e)
          /\ e + (k + i) = m + i
      BY <1>1, <1>3, <2>1
    <3>. QED BY <3>1, <1>3, <2>1, <2>2
  <2>5. x = y BY <2>1, <2>2, <2>3, <2>4, SeqEqual
  <2>. QED BY <2>5 DEF x, y
<1>7. ASSUME NEW i \in (e + 1)..m PROVE s[i] = Blank
  <2>1. i - e \in 1..k /\ i - e \in 1..(Len(s) - e) /\ e + (i - e) = i BY <1>1, <1>3
  <2>. QED BY <1>3, <1>4, <2>1 DEF IsLead
<1>8. ASSUME m < Len(s) PROVE s[m + 1] # Blank
  <2>1. k < Len(v) /\ k + 1 \in 1..(Len(s) - e) /\ e + (k + 1) = m + 1 BY <1>1, <1>3, <1>8
  <2>. QED BY <1>3, <1>4, <2>1 DEF IsLead
<1>9. Without(SubSeq(s, 1, b - 1) \o SubSeq(s, m + 1, Len(s)), s, b, m)
    BY <1>1, <1>5, Joined
<1>10. Without(removeManagedBlock(s, a), s, b, m) BY <1>2, <1>4, <1>6, <1>9
<1>. HIDE DEF m
<1>11. \E n \in e..Len(s) : /\ \A i \in (e + 1)..n : s[i] = Blank
                            /\ n < Len(s) => s[n + 1] # Blank
                            /\ Without(removeManagedBlock(s, a), s, b, n)
    BY <1>5, <1>7, <1>8, <1>10
<1>. QED BY <1>11 DEF b, e

LEMMA LinesMade ==
    /\ Blank \in Lines
    /\ \A a \in Names : /\ Line("begin", a, 0) \in Lines /\ Line("end", a, 0) \in Lines
                         /\ Line("tail", a, 0) \in Lines
                         /\ \A p \in Ports : Line("body", a, p) \in Lines
<1>1. Blank \in Lines BY DEF Line, Blank, Lines, Names
<1>2. ASSUME NEW a \in Names
      PROVE  /\ Line("begin", a, 0) \in Lines /\ Line("end", a, 0) \in Lines
             /\ Line("tail", a, 0) \in Lines
    BY DEF Line, Lines
<1>3. ASSUME NEW a \in Names, NEW p \in Ports PROVE Line("body", a, p) \in Lines
    BY FileAssumption DEF Line, Lines
<1>. QED BY <1>1, <1>2, <1>3

\* A turn for an alias that is a prefix of the marker it finds.
LEMMA TurnLeavesTail ==
    ASSUME NEW s \in Seq(Lines), NEW a \in Aliases, Stops(s, a) # {},
           s[Min(Stops(s, a))].name # a
    PROVE  LET b == Min(Starts(s, a))
               e == Min(Stops(s, a))
               r == removeManagedBlock(s, a)
           IN  /\ r \in Seq(Lines)
               /\ Len(r) = Len(s) - (e - b)
               /\ \A i \in 1..(b - 1) : r[i] = s[i]
               /\ r[b].kind = "tail"
               /\ \A i \in (b + 1)..Len(r) : r[i] = s[i + (e - b)]
<1>. DEFINE b == Min(Starts(s, a))
            e == Min(Stops(s, a))
            u == SubSeq(s, 1, b - 1)
            v == SubSeq(s, e + 1, Len(s))
            t == Line("tail", s[e].name, 0)
            w == <<t>> \o v
            r == u \o w
<1>1. Len(s) \in Nat /\ b \in 1..Len(s) /\ e \in 1..Len(s) /\ b < e
    BY CutPlaces, LenProperties
<1>2. removeManagedBlock(s, a) = r
    BY DEF removeManagedBlock, AfterEnd
<1>3. t \in Lines /\ t.kind = "tail"
  <2>1. s[e] \in Lines BY <1>1, ElementOfSeq
  <2>2. s[e].name \in Names BY <2>1 DEF Lines
  <2>3. t.kind = "tail" BY DEF Line
  <2>. QED BY <2>2, <2>3, LinesMade
<1>. HIDE DEF b, e, t
<1>4. u \in Seq(Lines) /\ Len(u) = b - 1 /\ \A i \in 1..(b - 1) : u[i] = s[i]
  <2>1. b - 1 \in 0..Len(s) BY <1>1
  <2>. QED BY <2>1, PrefixIs
<1>5. /\ v \in Seq(Lines) /\ Len(v) = Len(s) - e
      /\ \A i \in 1..(Len(s) - e) : v[i] = s[e + i]
  <2>1. e \in 0..Len(s) BY <1>1
  <2>. QED BY <2>1, SuffixIs
<1>. HIDE DEF u, v
<1>6. <<t>> \in Seq(Lines) /\ Len(<<t>>) = 1 /\ <<t>>[1] = t BY <1>3
<1>7. /\ w \in Seq(Lines) /\ Len(w) = 1 + Len(v)
      /\ \A i \in 1..(1 + Len(v)) : w[i] = IF i <= 1 THEN <<t>>[i] ELSE v[i - 1]
    BY <1>5, <1>6, ConcatProperties
<1>. HIDE DEF w
<1>8. /\ r \in Seq(Lines) /\ Len(r) = Len(u) + Len(w)
      /\ \A i \in 1..(Len(u) + Len(w)) : r[i] = IF i <= Len(u) THEN u[i] ELSE w[i - Len(u)]
    BY <1>4, <1>7, ConcatProperties
<1>. HIDE DEF r
<1>9. Len(r) = Len(s) - (e - b) BY <1>1, <1>4, <1>5, <1>7, <1>8
<1>10. ASSUME NEW i \in 1..(b - 1) PROVE r[i] = s[i]
  <2>1. i \in 1..(Len(u) + Len(w)) /\ i <= Len(u) BY <1>1, <1>4, <1>5, <1>7
  <2>. QED BY <1>4, <1>8, <2>1
<1>11. r[b].kind = "tail"
  <2>1. /\ b \in 1..(Len(u) + Len(w)) /\ ~(b <= Len(u)) /\ b - Len(u) = 1
        /\ 1 \in 1..(1 + Len(v))
    BY <1>1, <1>4, <1>5, <1>7
  <2>2. r[b] = w[1] BY <1>8, <2>1
  <2>3. w[1] = t BY <1>6, <1>7, <2>1
  <2>. QED BY <1>3, <2>2, <2>3
<1>12. ASSUME NEW i \in (b + 1)..Len(r) PROVE r[i] = s[i + (e - b)]
  <2>1. /\ i \in 1..(Len(u) + Len(w)) /\ ~(i <= Len(u)) /\ i - Len(u) \in 1..(1 + Len(v))
        /\ ~(i - Len(u) <= 1) /\ (i - Len(u)) - 1 \in 1..(Len(s) - e)
        /\ e + ((i - Len(u)) - 1) = i + (e - b)
    BY <1>1, <1>4, <1>5, <1>7, <1>9
  <2>2. r[i] = w[i - Len(u)] BY <1>8, <2>1
  <2>3. w[i - Len(u)] = v[(i - Len(u)) - 1] BY <1>7, <2>1
  <2>. QED BY <1>5, <2>1, <2>2, <2>3
<1>13. r \in Seq(Lines) BY <1>8
<1>. QED BY <1>2, <1>9, <1>10, <1>11, <1>12, <1>13 DEF b, e

BlockIn(s, i, a, p) ==
    /\ s[i] = Line("begin", a, 0)
    /\ s[i + 1] = Line("body", a, p)
    /\ s[i + 2] = Line("end", a, 0)

\* r is s with a block before it, and with a blank line in place of those that s
\* begins with.
Prepended(r, s, k, a, p) ==
    /\ r \in Seq(Lines)
    /\ BlockIn(r, 1, a, p)
    /\ k = Len(s) => Len(r) = 3
    /\ k < Len(s) => Len(r) = 4 + (Len(s) - k) /\ r[4] = Blank
    /\ \A i \in 1..(Len(s) - k) : r[4 + i] = s[k + i]

LEMMA PrependIs ==
    ASSUME NEW s \in Seq(Lines), NEW a \in Aliases, NEW p \in Ports
    PROVE  \E k \in 0..Len(s) : /\ IsLead(s, k)
                                /\ Prepended(prependManagedBlock(s, Block(a, p)), s, k, a, p)
<1>. DEFINE r == prependManagedBlock(s, Block(a, p))
<1>1. Len(s) \in Nat BY LenProperties
<1>2. PICK k \in 0..Len(s) : IsLead(s, k) /\ TrimLeft(s) = SubSeq(s, k + 1, Len(s))
    BY Trimmed
<1>. DEFINE v == SubSeq(s, k + 1, Len(s))
            x == Line("begin", a, 0)
            y == Line("body", a, p)
            z == Line("end", a, 0)
<1>3. v \in Seq(Lines) /\ Len(v) = Len(s) - k /\ \A i \in 1..(Len(s) - k) : v[i] = s[k + i]
    BY SuffixIs
<1>4. r = IF v = <<>> THEN <<x, y, z>> ELSE <<x, y, z>> \o <<Blank>> \o v
    BY <1>2 DEF prependManagedBlock, Block
<1>5. x \in Lines /\ y \in Lines /\ z \in Lines /\ Blank \in Lines
    BY LinesMade DEF Names
<1>. HIDE DEF r, v
<1>6. CASE k = Len(s)
  <2>1. v = <<>>
    <3>1. Len(v) = 0 BY <1>1, <1>3, <1>6
    <3>. QED BY <1>3, <3>1, EmptySeq
  <2>2. r = <<x, y, z>> BY <1>4, <2>1
  <2>. HIDE DEF x, y, z
  <2>3. r \in Seq(Lines) /\ Len(r) = 3 /\ r[1] = x /\ r[2] = y /\ r[3] = z
    BY <1>5, <2>2
  <2>4. 1..(Len(s) - k) = {} BY <1>1, <1>6
  <2>5. BlockIn(r, 1, a, p) BY <2>3 DEF BlockIn, x, y, z
  <2>6. Prepended(r, s, k, a, p) BY <1>1, <1>6, <2>3, <2>4, <2>5 DEF Prepended
  <2>. QED BY <1>2, <2>6 DEF r
<1>7. CASE k < Len(s)
  <2>1. v # <<>>
    <3>1. Len(v) # 0 BY <1>1, <1>3, <1>7
    <3>. QED BY <3>1, EmptySeq
  <2>. HIDE DEF x, y, z
  <2>. DEFINE h == <<x, y, z>> \o <<Blank>>
  <2>2. /\ h \in Seq(Lines) /\ Len(h) = 4
        /\ h[1] = x /\ h[2] = y /\ h[3] = z /\ h[4] = Blank
    BY <1>5
  <2>3. r = h \o v BY <1>4, <2>1
  <2>. HIDE DEF h
  <2>4. /\ r \in Seq(Lines) /\ Len(r) = Len(h) + Len(v)
        /\ \A i \in 1..(Len(h) + Len(v)) : r[i] = IF i <= Len(h) THEN h[i] ELSE v[i - Len(h)]
    BY <1>3, <2>2, <2>3, ConcatProperties
  <2>5. Len(r) = 4 + (Len(s) - k) BY <1>3, <2>2, <2>4
  <2>6. r[1] = x /\ r[2] = y /\ r[3] = z /\ r[4] = Blank
    <3>1. \A i \in 1..4 : i \in 1..(Len(h) + Len(v)) /\ i <= Len(h) BY <1>1, <1>3, <2>2
    <3>2. \A i \in 1..4 : r[i] = h[i] BY <2>4, <3>1
    <3>. QED BY <2>2, <3>2
  <2>7. ASSUME NEW i \in 1..(Len(s) - k) PROVE r[4 + i] = s[k + i]
    <3>1. 4 + i \in 1..(Len(h) + Len(v)) /\ ~(4 + i <= Len(h)) /\ (4 + i) - Len(h) = i
      BY <1>1, <1>3, <2>2
    <3>2. r[4 + i] = v[i] BY <2>4, <3>1
    <3>. QED BY <1>3, <3>2
  <2>8. BlockIn(r, 1, a, p) BY <2>6 DEF BlockIn, x, y, z
  <2>9. Prepended(r, s, k, a, p) BY <1>1, <1>7, <2>4, <2>5, <2>6, <2>7, <2>8 DEF Prepended
  <2>. QED BY <1>2, <2>9 DEF r
<1>8. k = Len(s) \/ k < Len(s) BY <1>1
<1>. QED BY <1>6, <1>7, <1>8

-----------------------------------------------------------------------------
(* Types. *)

\* A command that is under way has a request.
OpInv == \A c \in Commands : pc[c] # "idle" => op[c] \in [alias : Aliases, port : Ports \cup {0}]

LEMMA RemovalTyped ==
    ASSUME NEW s \in Seq(Lines), NEW a \in Aliases, Stops(s, a) # {}
    PROVE  removeManagedBlock(s, a) \in Seq(Lines)
BY TurnRemoves, TurnLeavesTail DEF Without

LEMMA NoBlockLeftTyped ==
    ASSUME NEW s \in Seq(Lines), NEW a \in Aliases
    PROVE  NoBlockLeft(s, a) \in Seq(Lines)
<1>1. TrimLeft(s) \in Seq(Lines) BY Trimmed, SuffixIs
<1>. QED BY <1>1 DEF NoBlockLeft

LEMMA UpdatedTyped ==
    ASSUME TypeOK, OpInv, NEW c \in Commands, pc[c] = "remove"
    PROVE  Updated(c) \in Seq(Lines)
<1>1. op[c] \in [alias : Aliases, port : Ports \cup {0}] /\ new[c] \in Seq(Lines)
    BY DEF TypeOK, OpInv
<1>2. NoBlockLeft(new[c], op[c].alias) \in Seq(Lines) BY <1>1, NoBlockLeftTyped
<1>3. CASE op[c].port = 0 BY <1>2, <1>3 DEF Updated
<1>4. CASE op[c].port # 0
  <2>1. op[c].port \in Ports /\ op[c].alias \in Aliases BY <1>1, <1>4
  <2>2. prependManagedBlock(NoBlockLeft(new[c], op[c].alias), Block(op[c].alias, op[c].port))
            \in Seq(Lines)
    BY <1>2, <2>1, PrependIs DEF Prepended
  <2>. QED BY <1>4, <2>2 DEF Updated
<1>. QED BY <1>3, <1>4

LEMMA InitTyped == Init => TypeOK /\ OpInv
<1>. SUFFICES ASSUME Init PROVE TypeOK /\ OpInv OBVIOUS
<1>1. <<>> \in Seq(Lines) BY EmptySeq
<1>2. file \in Seq(Lines) BY FileAssumption DEF Init
<1>. QED BY <1>1, <1>2 DEF Init, TypeOK, OpInv

LEMMA StepTyped == TypeOK /\ OpInv /\ [Next]_vars => (TypeOK /\ OpInv)'
<1>. SUFFICES ASSUME TypeOK, OpInv, [Next]_vars PROVE TypeOK' /\ OpInv' OBVIOUS
<1>1. <<>> \in Seq(Lines) BY EmptySeq
<1>. USE DEF TypeOK, OpInv
<1>2. ASSUME NEW c \in Commands, NEW a \in Aliases, NEW p \in Ports \cup {0}, Call(c, a, p)
      PROVE  TypeOK' /\ OpInv'
    BY <1>2 DEF Call, Disturb
<1>3. ASSUME NEW c \in Commands, Read(c) PROVE TypeOK' /\ OpInv'
    BY <1>3 DEF Read
<1>4. ASSUME NEW c \in Commands, RemoveBlock(c) PROVE TypeOK' /\ OpInv'
  <2>1. removeManagedBlock(new[c], op[c].alias) \in Seq(Lines)
    BY <1>4, RemovalTyped DEF RemoveBlock
  <2>. QED BY <1>4, <2>1 DEF RemoveBlock
<1>5. ASSUME NEW c \in Commands, Update(c) PROVE TypeOK' /\ OpInv'
  <2>1. Updated(c) \in Seq(Lines) BY <1>5, UpdatedTyped DEF Update
  <2>2. op[c] \in [alias : Aliases, port : Ports \cup {0}] BY <1>5 DEF Update
  <2>3. CASE op[c].port = 0 /\ Updated(c) = read[c]
    <3>1. Done(c) /\ Achieved(c) /\ UNCHANGED <<original, file, disturbed>>
      BY <1>5, <2>3 DEF Update
    <3>2. wanted' \in [Aliases -> Ports \cup {0}] BY <2>2, <3>1 DEF Achieved
    <3>. QED BY <1>1, <3>1, <3>2 DEF Done
  <2>4. CASE ~(op[c].port = 0 /\ Updated(c) = read[c])
    BY <1>1, <1>5, <2>1, <2>2, <2>4 DEF Update
  <2>. QED BY <2>3, <2>4
<1>6. ASSUME NEW c \in Commands, Truncate(c) PROVE TypeOK' /\ OpInv'
    BY <1>1, <1>6 DEF Truncate
<1>7. ASSUME NEW c \in Commands, Write(c) PROVE TypeOK' /\ OpInv'
  <2>1. op[c] \in [alias : Aliases, port : Ports \cup {0}] BY <1>7 DEF Write
  <2>. QED BY <1>1, <1>7, <2>1 DEF Write, Done, Achieved
<1>8. ASSUME NEW c \in Commands, Crash(c) PROVE TypeOK' /\ OpInv'
    BY <1>1, <1>8 DEF Crash, Done, Disturb
<1>9. CASE UNCHANGED vars BY <1>9 DEF vars
<1>. QED BY <1>2, <1>3, <1>4, <1>5, <1>6, <1>7, <1>8, <1>9 DEF Next

\* Whatever the user's file holds and however commands overlap and are killed,
\* the file stays a file of lines, and every block in it names a port.
THEOREM TypeCorrect == Spec => []TypeOK
BY InitTyped, StepTyped, PTL DEF Spec

-----------------------------------------------------------------------------
(* Every end marker closes a whole block, whatever happens. *)

Closed(s) ==
    \A i \in DOMAIN s : s[i].kind = "end" =>
        /\ i > 2
        /\ s[i - 1].kind = "body"
        /\ s[i - 2].kind = "begin" /\ s[i - 2].name = s[i].name

EndsOnce(s) ==
    \A i, j \in DOMAIN s :
        s[i].kind = "end" /\ s[j].kind = "end" /\ s[i].name = s[j].name => i = j

Tidy(s) == Closed(s) /\ EndsOnce(s)

LEMMA EmptyIsTidy == Tidy(<<>>)
BY DEF Tidy, Closed, EndsOnce

\* A block before the place b, or after the place m, is not cut, if the lines at
\* b, e and m are as the loop finds them.
LEMMA BlocksUncut ==
    ASSUME NEW s \in Seq(Lines), Closed(s), NEW b \in 1..Len(s), s[b].kind = "begin",
           NEW e \in 1..Len(s), s[e].kind = "end", NEW m \in e..Len(s),
           \A i \in (e + 1)..m : s[i] = Blank,
           NEW j \in (m + 1)..Len(s), s[j].kind = "end"
    PROVE  j - 2 > m
<1>1. Len(s) \in Nat /\ DOMAIN s = 1..Len(s) BY LenProperties
<1>2. s[j - 1].kind = "body" /\ s[j - 2].kind = "begin" /\ j > 2
  <2>1. j \in 1..Len(s) BY <1>1
  <2>. QED BY <1>1, <2>1 DEF Closed
<1>3. ASSUME NEW i \in e..m PROVE s[i].kind \in {"end", "blank"}
  <2>1. CASE i = e BY <2>1
  <2>2. CASE i # e
    <3>1. i \in (e + 1)..m BY <2>2
    <3>. QED BY <3>1, BlankKind
  <2>. QED BY <2>1, <2>2
<1>4. j - 1 \notin e..m BY <1>2, <1>3
<1>5. j - 2 \notin e..m BY <1>2, <1>3
<1>. QED BY <1>1, <1>4, <1>5

LEMMA WithoutIsTidy ==
    ASSUME NEW s \in Seq(Lines), Tidy(s), NEW b \in 1..Len(s), s[b].kind = "begin",
           NEW e \in 1..Len(s), b < e, s[e].kind = "end", NEW m \in e..Len(s),
           \A i \in (e + 1)..m : s[i] = Blank,
           NEW r, Without(r, s, b, m)
    PROVE  Tidy(r)
<1>1. Len(s) \in Nat /\ DOMAIN s = 1..Len(s) BY LenProperties
<1>. DEFINE d == m - b + 1
            place(i) == IF i < b THEN i ELSE i + d
<1>2. /\ r \in Seq(Lines) /\ Len(r) = Len(s) - d /\ DOMAIN r = 1..Len(r)
      /\ \A i \in 1..(b - 1) : r[i] = s[i]
      /\ \A i \in b..Len(r) : r[i] = s[i + d]
  <2>1. r \in Seq(Lines) BY DEF Without
  <2>. QED BY <2>1, LenProperties DEF Without
<1>3. d \in Nat /\ Len(r) \in Nat BY <1>1, <1>2
<1>4. ASSUME NEW i \in 1..Len(r)
      PROVE  place(i) \in 1..Len(s) /\ r[i] = s[place(i)] /\ (i >= b => place(i) > m)
  <2>1. CASE i < b
    <3>1. i \in 1..(b - 1) /\ i \in 1..Len(s) BY <2>1, <1>1
    <3>. QED BY <3>1, <2>1, <1>2
  <2>2. CASE ~(i < b)
    <3>1. i \in b..Len(r) /\ i + d \in 1..Len(s) /\ i + d > m BY <2>2, <1>1, <1>2, <1>3
    <3>. QED BY <3>1, <2>2, <1>2
  <2>. QED BY <2>1, <2>2
<1>5. Closed(r)
  <2>. SUFFICES ASSUME NEW i \in 1..Len(r), r[i].kind = "end"
                PROVE  /\ i > 2 /\ r[i - 1].kind = "body"
                       /\ r[i - 2].kind = "begin" /\ r[i - 2].name = r[i].name
    BY <1>2 DEF Closed
  <2>1. CASE i < b
    <3>1. /\ i > 2 /\ s[i - 1].kind = "body" /\ s[i - 2].kind = "begin"
          /\ s[i - 2].name = s[i].name /\ r[i] = s[i]
      BY <2>1, <1>1, <1>4 DEF Tidy, Closed
    <3>2. i - 1 \in 1..(b - 1) /\ i - 2 \in 1..(b - 1) BY <2>1, <3>1
    <3>. QED BY <1>2, <3>1, <3>2
  <2>2. CASE ~(i < b)
    <3>1. i + d \in (m + 1)..Len(s) /\ r[i] = s[i + d] /\ s[i + d].kind = "end"
      BY <2>2, <1>4, <1>1, <1>3
    <3>2. (i + d) - 2 > m BY <3>1, BlocksUncut DEF Tidy
    <3>3. /\ s[(i + d) - 1].kind = "body" /\ s[(i + d) - 2].kind = "begin"
          /\ s[(i + d) - 2].name = s[i + d].name
      <4>1. i + d \in DOMAIN s BY <3>1, <1>1
      <4>. QED BY <3>1, <4>1 DEF Tidy, Closed
    <3>4. /\ i - 1 \in b..Len(r) /\ i - 2 \in b..Len(r) /\ i > 2
          /\ (i - 1) + d = (i + d) - 1 /\ (i - 2) + d = (i + d) - 2
      BY <3>1, <3>2, <1>1, <1>2, <1>3, <2>2
    <3>5. r[i - 1] = s[(i + d) - 1] /\ r[i - 2] = s[(i + d) - 2] BY <3>4, <1>2
    <3>. QED BY <3>1, <3>3, <3>4, <3>5
  <2>. QED BY <2>1, <2>2
<1>6. EndsOnce(r)
  <2>. SUFFICES ASSUME NEW i \in 1..Len(r), NEW j \in 1..Len(r), r[i].kind = "end",
                       r[j].kind = "end", r[i].name = r[j].name
                PROVE  i = j
    BY <1>2 DEF EndsOnce
  <2>1. place(i) = place(j) BY <1>1, <1>4 DEF Tidy, EndsOnce
  <2>2. /\ i < b => place(i) = i /\ place(i) < b
        /\ ~(i < b) => place(i) = i + d /\ ~(place(i) < b)
        /\ j < b => place(j) = j /\ place(j) < b
        /\ ~(j < b) => place(j) = j + d /\ ~(place(j) < b)
    BY <1>3
  <2>. HIDE DEF place
  <2>. QED BY <2>1, <2>2, <1>3
<1>. QED BY <1>5, <1>6 DEF Tidy

LEMMA RemovalIsTidy ==
    ASSUME NEW s \in Seq(Lines), Tidy(s), NEW a \in Aliases, Stops(s, a) # {}
    PROVE  Tidy(removeManagedBlock(s, a))
<1>. DEFINE b == Min(Starts(s, a))
            e == Min(Stops(s, a))
            r == removeManagedBlock(s, a)
<1>1. /\ Len(s) \in Nat /\ b \in 1..Len(s) /\ e \in 1..Len(s) /\ b < e
      /\ s[b].kind = "begin" /\ s[e].kind = "end"
    BY CutPlaces, LenProperties
<1>2. CASE s[e].name = a
  <2>1. PICK m \in e..Len(s) : /\ \A i \in (e + 1)..m : s[i] = Blank
                               /\ Without(r, s, b, m)
    BY <1>2, TurnRemoves
  <2>. HIDE DEF b, e, r
  <2>2. Tidy(r) BY <1>1, <2>1, WithoutIsTidy
  <2>. QED BY <2>2 DEF r
<1>3. CASE s[e].name # a
  <2>1. /\ r \in Seq(Lines) /\ Len(r) = Len(s) - (e - b)
        /\ \A i \in 1..(b - 1) : r[i] = s[i]
        /\ r[b].kind = "tail"
        /\ \A i \in (b + 1)..Len(r) : r[i] = s[i + (e - b)]
    BY <1>3, TurnLeavesTail
  <2>2. Len(r) \in Nat /\ DOMAIN r = 1..Len(r) /\ DOMAIN s = 1..Len(s) BY <2>1, LenProperties
  <2>. DEFINE d == e - b
              place(i) == IF i < b THEN i ELSE i + d
  <2>. HIDE DEF b, e, r
  <2>3. d \in Nat BY <1>1
  <2>4. ASSUME NEW i \in 1..Len(r), r[i].kind = "end"
        PROVE  place(i) \in 1..Len(s) /\ r[i] = s[place(i)] /\ (~(i < b) => i > b)
    <3>1. i # b BY <2>1, <2>4
    <3>2. CASE i < b
      <4>1. i \in 1..(b - 1) /\ i \in 1..Len(s) /\ place(i) = i BY <3>2, <1>1
      <4>2. r[i] = s[i] BY <4>1, <2>1
      <4>. QED BY <4>1, <4>2, <3>2
    <3>3. CASE ~(i < b)
      <4>1. i \in (b + 1)..Len(r) /\ i + d \in 1..Len(s) /\ i > b
        BY <3>1, <3>3, <1>1, <2>1, <2>2
      <4>2. r[i] = s[i + d] BY <4>1, <2>1
      <4>3. place(i) = i + d BY <3>3
      <4>. QED BY <4>1, <4>2, <4>3
    <3>. QED BY <3>2, <3>3
  <2>5. Closed(r)
    <3>. SUFFICES ASSUME NEW i \in 1..Len(r), r[i].kind = "end"
                  PROVE  /\ i > 2 /\ r[i - 1].kind = "body"
                         /\ r[i - 2].kind = "begin" /\ r[i - 2].name = r[i].name
      BY <2>2 DEF Closed
    <3>1. CASE i < b
      <4>1. /\ i > 2 /\ s[i - 1].kind = "body" /\ s[i - 2].kind = "begin"
            /\ s[i - 2].name = s[i].name /\ r[i] = s[i]
        BY <3>1, <2>2, <2>4 DEF Tidy, Closed
      <4>2. i - 1 \in 1..(b - 1) /\ i - 2 \in 1..(b - 1) BY <3>1, <4>1, <1>1
      <4>. QED BY <2>1, <4>1, <4>2
    <3>2. CASE ~(i < b)
      <4>1. i + d \in (e + 1)..Len(s) /\ r[i] = s[i + d] /\ s[i + d].kind = "end"
        BY <3>2, <2>4, <1>1
      <4>2. e \in e..Len(s) /\ \A k \in (e + 1)..e : s[k] = Blank BY <1>1
      <4>3. (i + d) - 2 > e BY <4>1, <4>2, <1>1, BlocksUncut DEF Tidy
      <4>4. /\ s[(i + d) - 1].kind = "body" /\ s[(i + d) - 2].kind = "begin"
            /\ s[(i + d) - 2].name = s[i + d].name
        <5>1. i + d \in DOMAIN s BY <4>1, <1>1, <2>2
        <5>. QED BY <4>1, <5>1 DEF Tidy, Closed
      <4>5. /\ i - 1 \in (b + 1)..Len(r) /\ i - 2 \in (b + 1)..Len(r) /\ i > 2
            /\ (i - 1) + d = (i + d) - 1 /\ (i - 2) + d = (i + d) - 2
        BY <4>1, <4>3, <1>1, <2>1, <2>2, <2>3, <3>2
      <4>6. r[i - 1] = s[(i + d) - 1] /\ r[i - 2] = s[(i + d) - 2] BY <4>5, <2>1
      <4>. QED BY <4>1, <4>4, <4>5, <4>6
    <3>. QED BY <3>1, <3>2
  <2>6. EndsOnce(r)
    <3>. SUFFICES ASSUME NEW i \in 1..Len(r), NEW j \in 1..Len(r), r[i].kind = "end",
                         r[j].kind = "end", r[i].name = r[j].name
                  PROVE  i = j
      BY <2>2 DEF EndsOnce
    <3>1. place(i) = place(j) BY <2>2, <2>4 DEF Tidy, EndsOnce
    <3>2. /\ i < b => place(i) = i /\ place(i) < b
          /\ ~(i < b) => place(i) = i + d /\ ~(place(i) < b)
          /\ j < b => place(j) = j /\ place(j) < b
          /\ ~(j < b) => place(j) = j + d /\ ~(place(j) < b)
      BY <2>3, <1>1
    <3>. HIDE DEF place
    <3>. QED BY <3>1, <3>2, <2>3
  <2>7. Tidy(r) BY <2>5, <2>6 DEF Tidy
  <2>. QED BY <2>7 DEF r
<1>. QED BY <1>2, <1>3

\* When the loop finds no more block of an alias, there is no end marker of it:
\* that would close a block, whose begin marker the search could start from.
NoEnd(s, a) == \A i \in DOMAIN s : s[i].kind = "end" => s[i].name # a

LEMMA LoopLeavesNoEnd ==
    ASSUME NEW s \in Seq(Lines), Tidy(s), NEW a \in Aliases, Stops(s, a) = {}
    PROVE  NoEnd(s, a)
<1>1. Len(s) \in Nat /\ DOMAIN s = 1..Len(s) BY LenProperties
<1>. SUFFICES ASSUME NEW i \in 1..Len(s), s[i].kind = "end", s[i].name = a PROVE FALSE
    BY <1>1 DEF NoEnd
<1>2. i > 2 /\ s[i - 2].kind = "begin" /\ s[i - 2].name = a
    BY <1>1 DEF Tidy, Closed
<1>3. i - 2 \in Starts(s, a) /\ i - 2 < i BY <1>1, <1>2 DEF Starts, Marks
<1>4. i \in Marks(s, "end", a) BY <1>1 DEF Marks
<1>. QED BY <1>3, <1>4 DEF Stops

\* Blank lines at the beginning are in no block.
LEMMA LeadUncut ==
    ASSUME NEW s \in Seq(Lines), Closed(s), NEW k \in 0..Len(s), IsLead(s, k),
           NEW i \in 1..(Len(s) - k), s[k + i].kind = "end"
    PROVE  /\ i > 2 /\ s[k + (i - 1)].kind = "body"
           /\ s[k + (i - 2)].kind = "begin" /\ s[k + (i - 2)].name = s[k + i].name
<1>1. Len(s) \in Nat /\ DOMAIN s = 1..Len(s) BY LenProperties
<1>2. k + i \in 1..Len(s) /\ (k + i) - 1 = k + (i - 1) /\ (k + i) - 2 = k + (i - 2)
    BY <1>1
<1>3. /\ k + i > 2 /\ s[(k + i) - 1].kind = "body"
      /\ s[(k + i) - 2].kind = "begin" /\ s[(k + i) - 2].name = s[k + i].name
    BY <1>1, <1>2 DEF Closed
<1>4. \A j \in 1..k : s[j].kind = "blank" BY BlankKind DEF IsLead
<1>5. (k + i) - 1 \notin 1..k /\ (k + i) - 2 \notin 1..k BY <1>3, <1>4
<1>6. i > 2
  <2>1. k \in Nat /\ i \in Nat /\ i >= 1 BY <1>1
  <2>2. k + i > 2 BY <1>3
  <2>3. i # 1 BY <1>5, <2>1, <2>2
  <2>4. i # 2 BY <1>5, <2>1, <2>2
  <2>. QED BY <2>1, <2>3, <2>4
<1>. QED BY <1>2, <1>3, <1>6

LEMMA TrimmedIsTidy ==
    ASSUME NEW s \in Seq(Lines), Tidy(s)
    PROVE  Tidy(TrimLeft(s))
<1>1. PICK k \in 0..Len(s) : IsLead(s, k) /\ TrimLeft(s) = SubSeq(s, k + 1, Len(s))
    BY Trimmed
<1>. DEFINE r == TrimLeft(s)
<1>2. r \in Seq(Lines) /\ Len(r) = Len(s) - k /\ \A i \in 1..(Len(s) - k) : r[i] = s[k + i]
    BY <1>1, SuffixIs
<1>. HIDE DEF r
<1>3. /\ Len(s) \in Nat /\ DOMAIN s = 1..Len(s) /\ DOMAIN r = 1..(Len(s) - k)
    BY <1>2, LenProperties
<1>4. Closed(r)
  <2>. SUFFICES ASSUME NEW i \in 1..(Len(s) - k), r[i].kind = "end"
                PROVE  /\ i > 2 /\ r[i - 1].kind = "body"
                       /\ r[i - 2].kind = "begin" /\ r[i - 2].name = r[i].name
    BY <1>3 DEF Closed
  <2>1. /\ i > 2 /\ s[k + (i - 1)].kind = "body"
        /\ s[k + (i - 2)].kind = "begin" /\ s[k + (i - 2)].name = s[k + i].name
    BY <1>1, <1>2, LeadUncut DEF Tidy
  <2>2. i - 1 \in 1..(Len(s) - k) /\ i - 2 \in 1..(Len(s) - k) BY <1>3, <2>1
  <2>. QED BY <1>2, <2>1, <2>2
<1>5. EndsOnce(r)
  <2>. SUFFICES ASSUME NEW i \in 1..(Len(s) - k), NEW j \in 1..(Len(s) - k),
                       r[i].kind = "end", r[j].kind = "end", r[i].name = r[j].name
                PROVE  i = j
    BY <1>3 DEF EndsOnce
  <2>1. k + i \in DOMAIN s /\ k + j \in DOMAIN s BY <1>3
  <2>2. k + i = k + j BY <1>2, <2>1 DEF Tidy, EndsOnce
  <2>. QED BY <2>2, <1>3
<1>6. Tidy(r) BY <1>4, <1>5 DEF Tidy
<1>. QED BY <1>6 DEF r

LEMMA NoBlockLeftIsTidy ==
    ASSUME NEW s \in Seq(Lines), Tidy(s), NEW a \in Aliases, Stops(s, a) = {}
    PROVE  Tidy(NoBlockLeft(s, a)) /\ NoEnd(NoBlockLeft(s, a), a)
<1>1. NoEnd(s, a) BY LoopLeavesNoEnd
<1>2. NoEnd(TrimLeft(s), a)
  <2>1. PICK k \in 0..Len(s) : TrimLeft(s) = SubSeq(s, k + 1, Len(s)) BY Trimmed
  <2>. DEFINE r == TrimLeft(s)
  <2>2. r \in Seq(Lines) /\ Len(r) = Len(s) - k /\ \A i \in 1..(Len(s) - k) : r[i] = s[k + i]
    BY <2>1, SuffixIs
  <2>. HIDE DEF r
  <2>3. Len(s) \in Nat /\ DOMAIN s = 1..Len(s) /\ DOMAIN r = 1..(Len(s) - k)
    BY <2>2, LenProperties
  <2>4. ASSUME NEW i \in DOMAIN r, r[i].kind = "end" PROVE r[i].name # a
    <3>1. k + i \in DOMAIN s /\ r[i] = s[k + i] BY <2>2, <2>3
    <3>. QED BY <1>1, <2>4, <3>1 DEF NoEnd
  <2>5. NoEnd(r, a) BY <2>4 DEF NoEnd
  <2>. QED BY <2>5 DEF r
<1>. QED BY <1>1, <1>2, TrimmedIsTidy DEF NoBlockLeft

LEMMA PrependIsTidy ==
    ASSUME NEW s \in Seq(Lines), Tidy(s), NEW a \in Aliases, NEW p \in Ports, NoEnd(s, a)
    PROVE  Tidy(prependManagedBlock(s, Block(a, p)))
<1>. DEFINE r == prependManagedBlock(s, Block(a, p))
<1>1. PICK k \in 0..Len(s) : IsLead(s, k) /\ Prepended(r, s, k, a, p)
    BY PrependIs
<1>. HIDE DEF r
<1>2. /\ Len(s) \in Nat /\ DOMAIN s = 1..Len(s) /\ r \in Seq(Lines)
      /\ Len(r) \in Nat /\ DOMAIN r = 1..Len(r)
    BY <1>1, LenProperties DEF Prepended
<1>3. /\ r[1].kind = "begin" /\ r[1].name = a /\ r[2].kind = "body"
      /\ r[3].kind = "end" /\ r[3].name = a
    BY <1>1 DEF Prepended, BlockIn, Line
<1>4. ASSUME NEW i \in 1..Len(r), r[i].kind = "end", i # 3
      PROVE  i - 4 \in 1..(Len(s) - k) /\ r[i] = s[k + (i - 4)]
  <2>. k = Len(s) \/ k < Len(s) BY LenProperties
  <2>1. i # 1 /\ i # 2 BY <1>3, <1>4
  <2>2. i # 4
    <3>1. CASE k = Len(s)
      <4>1. Len(r) = 3 BY <1>1, <3>1 DEF Prepended
      <4>. QED BY <4>1
    <3>2. CASE k < Len(s)
      <4>1. r[4].kind = "blank" BY <1>1, <3>2, BlankKind DEF Prepended
      <4>. QED BY <1>4, <4>1
    <3>. QED BY <3>1, <3>2
  <2>3. k < Len(s)
    <3>1. k = Len(s) => Len(r) = 3 BY <1>1 DEF Prepended
    <3>. QED BY <1>4, <2>1, <2>2, <3>1
  <2>4. Len(r) = 4 + (Len(s) - k) BY <1>1, <2>3 DEF Prepended
  <2>5. i \in 1..(4 + (Len(s) - k)) BY <2>4
  <2>6. i > 4 BY <1>4, <2>1, <2>2
  <2>7. Len(s) - k \in Int BY LenProperties
  <2>8. i - 4 \in 1..(Len(s) - k) /\ 4 + (i - 4) = i
    <3>. DEFINE rest == Len(s) - k
    <3>1. rest \in Int /\ i \in 1..(4 + rest) BY <2>5, <2>7
    <3>. HIDE DEF rest
    <3>2. i - 4 \in 1..rest /\ 4 + (i - 4) = i BY <2>6, <3>1
    <3>. QED BY <3>2 DEF rest
  <2>. QED BY <1>1, <2>8 DEF Prepended
<1>5. \A j \in 1..(Len(s) - k) : r[4 + j] = s[k + j] BY <1>1 DEF Prepended
<1>6. Closed(r)
  <2>. SUFFICES ASSUME NEW i \in 1..Len(r), r[i].kind = "end"
                PROVE  /\ i > 2 /\ r[i - 1].kind = "body"
                       /\ r[i - 2].kind = "begin" /\ r[i - 2].name = r[i].name
    BY <1>2 DEF Closed
  <2>1. CASE i = 3 BY <1>3, <2>1
  <2>2. CASE i # 3
    <3>. DEFINE j == i - 4
    <3>1. j \in 1..(Len(s) - k) /\ r[i] = s[k + j] BY <1>4, <2>2
    <3>. HIDE DEF j
    <3>2. /\ j > 2 /\ s[k + (j - 1)].kind = "body"
          /\ s[k + (j - 2)].kind = "begin" /\ s[k + (j - 2)].name = s[k + j].name
      BY <1>1, <3>1, LeadUncut DEF Tidy
    <3>3. j - 1 \in 1..(Len(s) - k) /\ j - 2 \in 1..(Len(s) - k) BY <1>2, <3>1, <3>2
    <3>4. i > 2 /\ 4 + (j - 1) = i - 1 /\ 4 + (j - 2) = i - 2 BY <3>1, <3>2 DEF j
    <3>5. r[i - 1] = s[k + (j - 1)] /\ r[i - 2] = s[k + (j - 2)] BY <1>5, <3>3, <3>4
    <3>. QED BY <3>1, <3>2, <3>4, <3>5
  <2>. QED BY <2>1, <2>2
<1>7. EndsOnce(r)
  <2>. SUFFICES ASSUME NEW i \in 1..Len(r), NEW j \in 1..Len(r), r[i].kind = "end",
                       r[j].kind = "end", r[i].name = r[j].name
                PROVE  i = j
    BY <1>2 DEF EndsOnce
  <2>1. \A x \in 1..Len(r) : r[x].kind = "end" /\ x # 3 => r[x].name # a
    <3>. SUFFICES ASSUME NEW x \in 1..Len(r), r[x].kind = "end", x # 3 PROVE r[x].name # a
      OBVIOUS
    <3>1. x - 4 \in 1..(Len(s) - k) /\ r[x] = s[k + (x - 4)] BY <1>4
    <3>2. k + (x - 4) \in DOMAIN s BY <1>2, <3>1
    <3>. QED BY <3>1, <3>2 DEF NoEnd
  <2>2. CASE i = 3 \/ j = 3 BY <1>3, <2>1, <2>2
  <2>3. CASE i # 3 /\ j # 3
    <3>1. /\ i - 4 \in 1..(Len(s) - k) /\ r[i] = s[k + (i - 4)]
          /\ j - 4 \in 1..(Len(s) - k) /\ r[j] = s[k + (j - 4)]
      BY <1>4, <2>3
    <3>2. k + (i - 4) \in DOMAIN s /\ k + (j - 4) \in DOMAIN s BY <1>2, <3>1
    <3>3. k + (i - 4) = k + (j - 4) BY <3>1, <3>2 DEF Tidy, EndsOnce
    <3>. QED BY <3>3, <1>2
  <2>. QED BY <2>2, <2>3
<1>8. Tidy(r) BY <1>6, <1>7 DEF Tidy
<1>. QED BY <1>8 DEF r

LEMMA UpdatedIsTidy ==
    ASSUME TypeOK, OpInv, NEW c \in Commands, pc[c] = "remove", Tidy(new[c]),
           Stops(new[c], op[c].alias) = {}
    PROVE  Tidy(Updated(c))
<1>1. op[c] \in [alias : Aliases, port : Ports \cup {0}] /\ new[c] \in Seq(Lines)
    BY DEF TypeOK, OpInv
<1>. DEFINE bare == NoBlockLeft(new[c], op[c].alias)
<1>2. bare \in Seq(Lines) /\ Tidy(bare) /\ NoEnd(bare, op[c].alias)
    BY <1>1, NoBlockLeftTyped, NoBlockLeftIsTidy
<1>. HIDE DEF bare
<1>3. CASE op[c].port = 0 BY <1>2, <1>3 DEF Updated, bare
<1>4. CASE op[c].port # 0
  <2>1. op[c].port \in Ports /\ op[c].alias \in Aliases BY <1>1, <1>4
  <2>2. Tidy(prependManagedBlock(bare, Block(op[c].alias, op[c].port)))
    BY <1>2, <2>1, PrependIsTidy
  <2>. QED BY <1>4, <2>2 DEF Updated, bare
<1>. QED BY <1>3, <1>4

TidyInv == Tidy(file) /\ \A c \in Commands : Tidy(new[c])

LEMMA StepTidy ==
    ASSUME TypeOK, OpInv, TidyInv, [Next]_vars
    PROVE  TidyInv'
<1>. USE DEF TidyInv, TypeOK
<1>1. ASSUME NEW c \in Commands, NEW a \in Aliases, NEW p \in Ports \cup {0}, Call(c, a, p)
      PROVE  TidyInv'
    BY <1>1 DEF Call
<1>2. ASSUME NEW c \in Commands, Read(c) PROVE TidyInv' BY <1>2 DEF Read
<1>3. ASSUME NEW c \in Commands, RemoveBlock(c) PROVE TidyInv'
  <2>1. Tidy(removeManagedBlock(new[c], op[c].alias))
    BY <1>3, RemovalIsTidy DEF RemoveBlock, OpInv
  <2>. QED BY <1>3, <2>1 DEF RemoveBlock
<1>4. ASSUME NEW c \in Commands, Update(c) PROVE TidyInv'
  <2>1. Tidy(Updated(c)) BY <1>4, UpdatedIsTidy DEF Update
  <2>. QED BY <1>4, <2>1, EmptyIsTidy DEF Update, Done
<1>5. ASSUME NEW c \in Commands, Truncate(c) PROVE TidyInv'
    BY <1>5, EmptyIsTidy DEF Truncate
<1>6. ASSUME NEW c \in Commands, Write(c) PROVE TidyInv'
    BY <1>6, EmptyIsTidy DEF Write, Done
<1>7. ASSUME NEW c \in Commands, Crash(c) PROVE TidyInv'
    BY <1>7, EmptyIsTidy DEF Crash, Done
<1>8. CASE UNCHANGED vars BY <1>8 DEF vars
<1>. QED BY <1>1, <1>2, <1>3, <1>4, <1>5, <1>6, <1>7, <1>8 DEF Next

LEMMA TidyInvariant ==
    ASSUME \A o \in Originals : Tidy(o)
    PROVE  Spec => [](TypeOK /\ OpInv /\ TidyInv)
<1>1. Init => TidyInv
    BY EmptyIsTidy DEF Init, TidyInv
<1>2. TypeOK /\ OpInv /\ TidyInv /\ [Next]_vars => TidyInv'
    BY StepTidy
<1>. QED BY <1>1, <1>2, InitTyped, StepTyped, PTL DEF Spec

\* A block that starts at a place has its end marker two lines below.
LEMMA BlockAtEnds ==
    ASSUME file \in Seq(Lines), NEW a \in Aliases, NEW p \in Ports, NEW i \in BlockAt(a, p)
    PROVE  i \in Nat /\ i + 2 \in DOMAIN file /\ BlockIn(file, i, a, p)
<1>1. Len(file) \in Nat /\ DOMAIN file = 1..Len(file) BY LenProperties
<1>2. i \in 1..Len(file) /\ i + 2 <= Len(file) /\ SubSeq(file, i, i + 2) = Block(a, p)
    BY <1>1 DEF BlockAt
<1>. DEFINE u == SubSeq(file, i, i + 2)
<1>3. \A j \in i..(i + 2) : file[j] \in Lines
  <2>. SUFFICES ASSUME NEW j \in i..(i + 2) PROVE file[j] \in Lines OBVIOUS
  <2>1. j \in 1..Len(file) BY <1>1, <1>2
  <2>. QED BY <2>1, ElementOfSeq
<1>4. \A j \in 1..((i + 2) - i + 1) : u[j] = file[i + j - 1]
  <2>1. i \in Int /\ i + 2 \in Int BY <1>2
  <2>. QED BY <1>3, <2>1, SubSeqProperties
<1>5. u = Block(a, p) BY <1>2
<1>. HIDE DEF u
<1>6. u[1] = file[i] /\ u[2] = file[i + 1] /\ u[3] = file[i + 2]
  <2>1. /\ 1 \in 1..((i + 2) - i + 1) /\ 2 \in 1..((i + 2) - i + 1)
        /\ 3 \in 1..((i + 2) - i + 1)
        /\ i + 1 - 1 = i /\ i + 2 - 1 = i + 1 /\ i + 3 - 1 = i + 2
    BY <1>2
  <2>2. u[1] = file[i + 1 - 1] /\ u[2] = file[i + 2 - 1] /\ u[3] = file[i + 3 - 1]
    BY <1>4, <2>1
  <2>. QED BY <2>1, <2>2
<1>7. /\ Block(a, p)[1] = Line("begin", a, 0) /\ Block(a, p)[2] = Line("body", a, p)
      /\ Block(a, p)[3] = Line("end", a, 0)
    BY DEF Block
<1>8. BlockIn(file, i, a, p) BY <1>5, <1>6, <1>7 DEF BlockIn
<1>. QED BY <1>1, <1>2, <1>8

\* In no state does the file hold two blocks of an alias, for any number of
\* overlapping commands and any kills, and even if aliases are prefixes of each
\* other, provided that each end marker in the user's original closes a block of
\* its own alias.
THEOREM OneBlock ==
    ASSUME \A o \in Originals : Tidy(o)
    PROVE  Spec => []OneBlockPerAlias
<1>1. TypeOK /\ TidyInv => OneBlockPerAlias
  <2>. SUFFICES ASSUME TypeOK, TidyInv, NEW a \in Aliases
                PROVE  Cardinality(UNION {BlockAt(a, p) : p \in Ports}) <= 1
    BY DEF OneBlockPerAlias
  <2>. DEFINE places == UNION {BlockAt(a, p) : p \in Ports}
  <2>1. ASSUME NEW i \in places, NEW j \in places PROVE i = j
    <3>1. PICK p \in Ports : i \in BlockAt(a, p) BY <2>1
    <3>2. PICK q \in Ports : j \in BlockAt(a, q) BY <2>1
    <3>3. file \in Seq(Lines) BY DEF TypeOK
    <3>4. i \in Nat /\ i + 2 \in DOMAIN file /\ BlockIn(file, i, a, p)
      BY <3>1, <3>3, BlockAtEnds
    <3>5. j \in Nat /\ j + 2 \in DOMAIN file /\ BlockIn(file, j, a, q)
      BY <3>2, <3>3, BlockAtEnds
    <3>6. /\ file[i + 2].kind = "end" /\ file[i + 2].name = a
          /\ file[j + 2].kind = "end" /\ file[j + 2].name = a
      BY <3>4, <3>5 DEF BlockIn, Line
    <3>7. i + 2 = j + 2 BY <3>4, <3>5, <3>6 DEF TidyInv, Tidy, EndsOnce
    <3>. QED BY <3>4, <3>5, <3>7
  <2>. HIDE DEF places
  <2>2. CASE places = {}
    <3>1. Cardinality(places) = 0 BY <2>2, FS_EmptySet
    <3>. QED BY <3>1 DEF places
  <2>3. CASE places # {}
    <3>1. PICK i : i \in places BY <2>3
    <3>2. places = {i} BY <2>1, <3>1
    <3>3. Cardinality(places) = 1 BY <3>2, FS_Singleton
    <3>. QED BY <3>3 DEF places
  <2>. QED BY <2>2, <2>3
<1>. QED BY <1>1, TidyInvariant, PTL

-----------------------------------------------------------------------------
(* What a content is while no two commands overlap and no write is cut short. *)

\* The first n lines: blocks, and blank lines, which it does not begin with.
HeadOf(s, n) ==
    /\ n > 0 => s[1].kind = "begin"
    /\ \A i \in 1..n :
          /\ s[i].kind \in {"begin", "body", "end"} \/ s[i] = Blank
          /\ s[i].kind = "begin" => /\ i + 2 <= n /\ s[i + 1].kind = "body"
                                    /\ s[i + 2].kind = "end" /\ s[i + 2].name = s[i].name
          /\ s[i].kind = "body" => i > 1 /\ s[i - 1].kind = "begin"

\* After them s ends as o does after its first m lines.
RestOf(s, n, o, m) ==
    /\ Len(s) - n = Len(o) - m
    /\ \A i \in 1..(Len(s) - n) : s[n + i] = o[m + i]

\* The user's original, all of it or without the blank lines it begins with, below
\* a head.
ShapedBy(s, n, o, m) ==
    /\ n \in 0..Len(s) /\ m \in 0..Len(o)
    /\ HeadOf(s, n) /\ RestOf(s, n, o, m)
    /\ IsLead(o, m) \/ (n = 0 /\ m = 0)

Shape(s, o) == \E n \in Nat, m \in Nat : ShapedBy(s, n, o, m)

\* The blocks are those that w asks for.
Managed(s, w) ==
    /\ Tidy(s)
    /\ \A i \in DOMAIN s : s[i].kind = "end" =>
          /\ s[i].name \in Aliases /\ w[s[i].name] \in Ports
          /\ BlockIn(s, i - 2, s[i].name, w[s[i].name])
    /\ \A a \in Aliases :
          w[a] # 0 => \E i \in DOMAIN s : s[i].kind = "end" /\ s[i].name = a

GoodFor(s, o, w) == Managed(s, w) /\ Shape(s, o)

NoEnds(o) == \A i \in DOMAIN o : o[i].kind # "end"

Wants == [Aliases -> Ports \cup {0}]

\* The loop finds whole blocks: from a begin marker to the end marker two lines
\* below.
LEMMA WholeBlock ==
    ASSUME NEW s \in Seq(Lines), Tidy(s), NEW o \in Seq(Lines), NoEnds(o),
           NEW n \in Nat, NEW m \in Nat, ShapedBy(s, n, o, m),
           NEW a \in Aliases, ExtendedBy[a] = {}, Stops(s, a) # {}
    PROVE  LET b == Min(Starts(s, a))
               e == Min(Stops(s, a))
           IN  /\ b \in 1..Len(s) /\ e = b + 2 /\ e <= n
               /\ s[b].kind = "begin" /\ s[b + 1].kind = "body"
               /\ s[e].kind = "end" /\ s[e].name = a
<1>. DEFINE b == Min(Starts(s, a))
            e == Min(Stops(s, a))
<1>1. Len(s) \in Nat /\ Len(o) \in Nat /\ DOMAIN s = 1..Len(s) /\ DOMAIN o = 1..Len(o)
    BY LenProperties
<1>2. /\ b \in Starts(s, a) /\ e \in Stops(s, a)
      /\ b \in 1..Len(s) /\ e \in 1..Len(s) /\ b < e
      /\ s[b].kind = "begin" /\ s[e].kind = "end"
    BY CutPlaces
<1>3. s[b].name = a /\ s[e].name = a
    BY <1>2 DEF Starts, Stops, Marks
<1>. HIDE DEF b, e
<1>4. n \in 0..Len(s) /\ m \in 0..Len(o) /\ HeadOf(s, n) /\ RestOf(s, n, o, m)
    BY DEF ShapedBy
<1>5. e <= n
  <2>. SUFFICES ASSUME ~(e <= n) PROVE FALSE OBVIOUS
  <2>1. Len(s) - n = Len(o) - m BY <1>4 DEF RestOf
  <2>2. e - n \in 1..(Len(s) - n) /\ n + (e - n) = e /\ m + (e - n) \in 1..Len(o)
    BY <1>1, <1>2, <1>4, <2>1
  <2>3. s[e] = o[m + (e - n)] BY <1>4, <2>2 DEF RestOf
  <2>. QED BY <1>1, <1>2, <2>2, <2>3 DEF NoEnds
<1>6. /\ b + 2 <= n /\ s[b + 1].kind = "body"
      /\ s[b + 2].kind = "end" /\ s[b + 2].name = s[b].name
  <2>1. b \in 1..n BY <1>2, <1>5
  <2>. QED BY <1>2, <1>4, <2>1 DEF HeadOf
<1>7. e = b + 2
  <2>1. b + 2 \in DOMAIN s /\ e \in DOMAIN s BY <1>1, <1>2, <1>4, <1>6
  <2>. QED BY <1>2, <1>3, <1>6, <2>1 DEF Tidy, EndsOnce
<1>. QED BY <1>2, <1>3, <1>5, <1>6, <1>7 DEF b, e

\* Removing a block leaves the others as they are.
LEMMA WithoutIsManaged ==
    ASSUME NEW s \in Seq(Lines), NEW w \in Wants, Managed(s, w),
           NEW b \in 1..Len(s), NEW a \in Aliases, b + 2 \in 1..Len(s),
           s[b].kind = "begin", s[b + 1].kind = "body",
           s[b + 2].kind = "end", s[b + 2].name = a,
           NEW q \in (b + 2)..Len(s), \A i \in (b + 3)..q : s[i] = Blank,
           NEW r, Without(r, s, b, q)
    PROVE  Managed(r, [w EXCEPT ![a] = 0])
<1>1. Len(s) \in Nat /\ DOMAIN s = 1..Len(s) BY LenProperties
<1>2. Tidy(s) /\ Closed(s) /\ EndsOnce(s) BY DEF Managed, Tidy
<1>. DEFINE e == b + 2
            d == q - b + 1
            v == [w EXCEPT ![a] = 0]
<1>3. Tidy(r)
  <2>1. e \in 1..Len(s) /\ b < e /\ s[e].kind = "end" /\ q \in e..Len(s) OBVIOUS
  <2>2. \A i \in (e + 1)..q : s[i] = Blank OBVIOUS
  <2>. HIDE DEF e
  <2>. QED BY <1>2, <2>1, <2>2, WithoutIsTidy
<1>4. /\ r \in Seq(Lines) /\ Len(r) = Len(s) - d /\ DOMAIN r = 1..Len(r)
      /\ \A i \in 1..(b - 1) : r[i] = s[i]
      /\ \A i \in b..Len(r) : r[i] = s[i + d]
  <2>1. r \in Seq(Lines) BY DEF Without
  <2>. QED BY <2>1, LenProperties DEF Without
<1>5. d \in Nat /\ Len(r) \in Nat BY <1>1, <1>4
<1>6. ASSUME NEW i \in 1..Len(s), s[i].kind = "end", s[i].name # a
      PROVE  i < b \/ i > q
  <2>1. i # b /\ i # b + 1 /\ i # b + 2 BY <1>6
  <2>2. i \notin (b + 3)..q BY <1>6, BlankKind
  <2>. QED BY <2>1, <2>2, <1>1
<1>7. ASSUME NEW i \in DOMAIN r, r[i].kind = "end"
      PROVE  /\ r[i].name \in Aliases /\ v[r[i].name] \in Ports
             /\ BlockIn(r, i - 2, r[i].name, v[r[i].name])
  <2>1. i > 2 /\ i \in 1..Len(r) BY <1>3, <1>4, <1>7 DEF Tidy, Closed
  <2>2. PICK j \in 1..Len(s) : /\ r[i] = s[j] /\ j # b + 2 /\ j > 2
                               /\ r[i - 1] = s[j - 1] /\ r[i - 2] = s[j - 2]
    <3>1. CASE i < b
      <4>1. /\ i \in 1..(b - 1) /\ i - 1 \in 1..(b - 1) /\ i - 2 \in 1..(b - 1)
            /\ i \in 1..Len(s) /\ i # b + 2
        BY <1>1, <2>1, <3>1
      <4>. QED BY <1>4, <2>1, <4>1
    <3>2. CASE ~(i < b)
      <4>1. i \in b..Len(r) /\ i + d \in (q + 1)..Len(s) /\ i + d \in 1..Len(s)
            /\ i + d # b + 2
        BY <1>1, <1>4, <1>5, <2>1, <3>2
      <4>2. r[i] = s[i + d] BY <1>4, <4>1
      <4>3. (i + d) - 2 > q
        <5>1. e \in 1..Len(s) /\ s[e].kind = "end" /\ q \in e..Len(s) OBVIOUS
        <5>2. \A x \in (e + 1)..q : s[x] = Blank OBVIOUS
        <5>3. s[i + d].kind = "end" BY <1>7, <4>2
        <5>. HIDE DEF e, d
        <5>. QED BY <1>2, <4>1, <5>1, <5>2, <5>3, BlocksUncut
      <4>4. /\ i - 1 \in b..Len(r) /\ i - 2 \in b..Len(r)
            /\ (i - 1) + d = (i + d) - 1 /\ (i - 2) + d = (i + d) - 2 /\ i + d > 2
        <5>1. q = b + d - 1 /\ b \in Nat /\ i \in Nat /\ i <= Len(r) BY <1>1, <2>1
        <5>. HIDE DEF d
        <5>2. i - 2 >= b
          <6>1. (i + d) - 2 > b + d - 1 BY <4>3, <5>1
          <6>. QED BY <1>5, <5>1, <6>1
        <5>3. (i - 1) + d = (i + d) - 1 /\ (i - 2) + d = (i + d) - 2 /\ i + d > 2
          BY <1>5, <2>1, <5>1
        <5>4. i - 1 \in b..Len(r) BY <1>5, <5>1, <5>2
        <5>5. i - 2 \in b..Len(r) BY <1>5, <5>1, <5>2
        <5>. QED BY <5>3, <5>4, <5>5
      <4>5. r[i - 1] = s[(i + d) - 1] /\ r[i - 2] = s[(i + d) - 2] BY <1>4, <4>4
      <4>. QED BY <4>1, <4>2, <4>4, <4>5
    <3>. QED BY <3>1, <3>2
  <2>3. s[j].kind = "end" BY <1>7, <2>2
  <2>4. s[j].name # a BY <1>1, <1>2, <2>2, <2>3 DEF EndsOnce
  <2>5. /\ s[j].name \in Aliases /\ w[s[j].name] \in Ports
        /\ BlockIn(s, j - 2, s[j].name, w[s[j].name])
    BY <1>1, <2>3 DEF Managed
  <2>6. v[s[j].name] = w[s[j].name] BY <2>4, <2>5 DEF Wants
  <2>7. /\ (j - 2) + 1 = j - 1 /\ (j - 2) + 2 = j
        /\ (i - 2) + 1 = i - 1 /\ (i - 2) + 2 = i
    BY <1>1, <1>5, <2>1
  <2>8. BlockIn(r, i - 2, s[j].name, w[s[j].name]) BY <2>2, <2>5, <2>7 DEF BlockIn
  <2>. HIDE DEF v
  <2>. QED BY <2>2, <2>5, <2>6, <2>8
<1>8. ASSUME NEW x \in Aliases, v[x] # 0
      PROVE  \E i \in DOMAIN r : r[i].kind = "end" /\ r[i].name = x
  <2>1. x # a /\ w[x] # 0 BY <1>8 DEF Wants
  <2>2. PICK j \in 1..Len(s) : s[j].kind = "end" /\ s[j].name = x
    BY <1>1, <2>1 DEF Managed
  <2>3. CASE j < b
    <3>1. j \in 1..(b - 1) /\ j \in DOMAIN r BY <1>1, <1>4, <2>3
    <3>. QED BY <1>4, <2>2, <3>1
  <2>4. CASE j > q
    <3>1. j - d \in b..Len(r) /\ j - d \in DOMAIN r /\ (j - d) + d = j
      BY <1>1, <1>4, <1>5, <2>4
    <3>2. r[j - d] = s[j] BY <1>4, <3>1
    <3>. QED BY <2>2, <3>1, <3>2
  <2>. QED BY <1>6, <2>1, <2>2, <2>3, <2>4
<1>. HIDE DEF v
<1>9. Managed(r, v) BY <1>3, <1>7, <1>8 DEF Managed
<1>. QED BY <1>9 DEF v

\* The head keeps its form when a block of it goes, with the blank lines after
\* it.  If these go on below the head, what is left of it are the lines above.
LEMMA WithoutInHead ==
    ASSUME NEW s \in Seq(Lines), Closed(s), NEW n \in 0..Len(s), HeadOf(s, n),
           NEW b \in 1..Len(s), s[b].kind = "begin",
           NEW e \in 1..Len(s), e = b + 2, e <= n, s[e].kind = "end",
           NEW q \in e..n, \A i \in (e + 1)..q : s[i] = Blank,
           q < n => s[q + 1] # Blank,
           NEW r, Without(r, s, b, q)
    PROVE  HeadOf(r, n - (q - b + 1))
<1>1. Len(s) \in Nat /\ DOMAIN s = 1..Len(s) BY LenProperties
<1>. DEFINE d == q - b + 1
            k == n - d
<1>2. /\ Len(r) = Len(s) - d
      /\ \A i \in 1..(b - 1) : r[i] = s[i]
      /\ \A i \in b..Len(r) : r[i] = s[i + d]
    BY DEF Without
<1>3. d \in Nat /\ k \in Nat /\ b - 1 <= k /\ k <= Len(r) /\ k + d = n /\ q = b + d - 1
      /\ b \in Nat
    BY <1>1, <1>2
<1>4. s[q].kind \in {"end", "blank"}
  <2>1. CASE q = e BY <2>1
  <2>2. CASE q # e
    <3>1. q \in (e + 1)..q BY <1>1, <2>2
    <3>. QED BY <3>1, BlankKind
  <2>. QED BY <2>1, <2>2
<1>. HIDE DEF d, k
<1>5. ASSUME NEW i \in b..k
      PROVE  /\ i + d \in 1..n /\ r[i] = s[i + d]
             /\ s[i + d].kind = "body" => i - 1 \in b..k
  <2>. Len(r) \in Int BY <1>1, <1>2, <1>3
  <2>1. i + d \in 1..n /\ i \in b..Len(r) BY <1>3
  <2>2. ASSUME s[i + d].kind = "body" PROVE i - 1 \in b..k
    <3>1. s[(i + d) - 1].kind = "begin" BY <2>1, <2>2 DEF HeadOf
    <3>2. (i + d) - 1 # q BY <1>4, <3>1
    <3>. QED BY <1>3, <3>2
  <2>. QED BY <1>2, <2>1, <2>2
<1>6. ASSUME k > 0 PROVE r[1].kind = "begin"
  <2>1. CASE b > 1
    <3>1. 1 \in 1..(b - 1) /\ n > 0 BY <1>1, <2>1
    <3>. QED BY <1>2, <3>1 DEF HeadOf
  <2>2. CASE ~(b > 1)
    <3>1. b = 1 /\ 1 \in b..k /\ 1 + d = q + 1 /\ q < n BY <1>3, <1>6, <2>2
    <3>2. q + 1 \in 1..n /\ r[1] = s[q + 1] /\ s[q + 1] # Blank BY <1>5, <3>1
    <3>3. s[q + 1].kind # "body"
      <4>. SUFFICES ASSUME s[q + 1].kind = "body" PROVE FALSE OBVIOUS
      <4>1. 1 - 1 \in b..k BY <1>5, <3>1
      <4>. QED BY <3>1, <4>1
    <3>4. s[q + 1].kind # "end"
      <4>1. q + 1 \in DOMAIN s /\ (q + 1) - 1 = q BY <1>1, <3>2
      <4>. QED BY <1>4, <4>1 DEF Closed
    <3>. QED BY <3>2, <3>3, <3>4 DEF HeadOf
  <2>. QED BY <2>1, <2>2
<1>7. ASSUME NEW i \in 1..k
      PROVE  /\ r[i].kind \in {"begin", "body", "end"} \/ r[i] = Blank
             /\ r[i].kind = "begin" => /\ i + 2 <= k /\ r[i + 1].kind = "body"
                                       /\ r[i + 2].kind = "end" /\ r[i + 2].name = r[i].name
             /\ r[i].kind = "body" => i > 1 /\ r[i - 1].kind = "begin"
  <2>1. CASE i < b
    <3>1. i \in 1..(b - 1) /\ i \in 1..n
      <4>. i \in Nat BY <1>3
      <4>. QED BY <1>3, <2>1
    <3>. r[i] = s[i] BY <1>2, <3>1
    <3>2. /\ s[i].kind \in {"begin", "body", "end"} \/ s[i] = Blank
          /\ s[i].kind = "begin" => /\ i + 2 <= n /\ s[i + 1].kind = "body"
                                    /\ s[i + 2].kind = "end" /\ s[i + 2].name = s[i].name
          /\ s[i].kind = "body" => i > 1 /\ s[i - 1].kind = "begin"
      BY <3>1 DEF HeadOf
    <3>3. ASSUME s[i].kind = "begin"
          PROVE  /\ i + 2 <= k /\ r[i + 1].kind = "body"
                 /\ r[i + 2].kind = "end" /\ r[i + 2].name = s[i].name
      <4>1. i + 1 # b /\ i + 2 # b BY <3>2, <3>3
      <4>2. i + 1 \in 1..(b - 1) /\ i + 2 \in 1..(b - 1) /\ i + 2 <= k
        BY <1>3, <2>1, <4>1
      <4>. QED BY <1>2, <3>2, <3>3, <4>2
    <3>4. ASSUME s[i].kind = "body" PROVE i > 1 /\ r[i - 1].kind = "begin"
      <4>1. i > 1 /\ i - 1 \in 1..(b - 1) BY <3>1, <3>2, <3>4
      <4>. QED BY <1>2, <3>2, <3>4, <4>1
    <3>. QED BY <3>1, <3>2, <3>3, <3>4
  <2>2. CASE ~(i < b)
    <3>. DEFINE j == i + d
    <3>1. i \in b..k /\ i \in Nat BY <1>3, <2>2
    <3>2. j \in 1..n /\ r[i] = s[j] /\ (s[j].kind = "body" => i - 1 \in b..k)
      BY <1>5, <3>1
    <3>3. /\ s[j].kind \in {"begin", "body", "end"} \/ s[j] = Blank
          /\ s[j].kind = "begin" => /\ j + 2 <= n /\ s[j + 1].kind = "body"
                                    /\ s[j + 2].kind = "end" /\ s[j + 2].name = s[j].name
          /\ s[j].kind = "body" => j > 1 /\ s[j - 1].kind = "begin"
      <4>. HIDE DEF j
      <4>. QED BY <3>2 DEF HeadOf
    <3>4. ASSUME s[j].kind = "begin"
          PROVE  /\ i + 2 <= k /\ r[i + 1].kind = "body"
                 /\ r[i + 2].kind = "end" /\ r[i + 2].name = s[j].name
      <4>1. j + 2 <= n BY <3>3, <3>4
      <4>2. /\ i + 1 \in b..k /\ i + 2 \in b..k /\ (i + 1) + d = j + 1 /\ (i + 2) + d = j + 2
        BY <1>3, <3>1, <4>1
      <4>3. r[i + 1] = s[j + 1] /\ r[i + 2] = s[j + 2] BY <1>5, <4>2
      <4>4. i + 2 <= k BY <4>2
      <4>. HIDE DEF j
      <4>. QED BY <3>3, <3>4, <4>3, <4>4
    <3>5. ASSUME s[j].kind = "body" PROVE i > 1 /\ r[i - 1].kind = "begin"
      <4>1. i - 1 \in b..k /\ (i - 1) + d = j - 1 /\ i > 1
        <5>1. i - 1 \in b..k BY <3>2, <3>5
        <5>. QED BY <1>3, <3>1, <5>1
      <4>2. r[i - 1] = s[j - 1] BY <1>5, <4>1
      <4>. HIDE DEF j
      <4>. QED BY <3>3, <3>5, <4>1, <4>2
    <3>. HIDE DEF j
    <3>. QED BY <3>2, <3>3, <3>4, <3>5
  <2>. QED BY <2>1, <2>2
<1>8. HeadOf(r, k) BY <1>6, <1>7 DEF HeadOf
<1>. QED BY <1>8 DEF k, d

LEMMA WithoutOfHead ==
    ASSUME NEW s \in Seq(Lines), NEW n \in 0..Len(s), HeadOf(s, n),
           NEW b \in 1..n, s[b].kind = "begin",
           NEW r, \A i \in 1..(b - 1) : r[i] = s[i]
    PROVE  HeadOf(r, b - 1)
<1>1. n \in Nat /\ b \in Nat BY LenProperties
<1>2. ASSUME b - 1 > 0 PROVE r[1].kind = "begin"
  <2>1. 1 \in 1..(b - 1) /\ n > 0 BY <1>1, <1>2
  <2>. QED BY <2>1 DEF HeadOf
<1>3. ASSUME NEW i \in 1..(b - 1)
      PROVE  /\ r[i].kind \in {"begin", "body", "end"} \/ r[i] = Blank
             /\ r[i].kind = "begin" => /\ i + 2 <= b - 1 /\ r[i + 1].kind = "body"
                                       /\ r[i + 2].kind = "end" /\ r[i + 2].name = r[i].name
             /\ r[i].kind = "body" => i > 1 /\ r[i - 1].kind = "begin"
  <2>1. i \in 1..n /\ r[i] = s[i] BY <1>1
  <2>2. /\ s[i].kind \in {"begin", "body", "end"} \/ s[i] = Blank
        /\ s[i].kind = "begin" => /\ i + 2 <= n /\ s[i + 1].kind = "body"
                                  /\ s[i + 2].kind = "end" /\ s[i + 2].name = s[i].name
        /\ s[i].kind = "body" => i > 1 /\ s[i - 1].kind = "begin"
    BY <2>1 DEF HeadOf
  <2>3. ASSUME s[i].kind = "begin"
        PROVE  /\ i + 2 <= b - 1 /\ r[i + 1].kind = "body"
               /\ r[i + 2].kind = "end" /\ r[i + 2].name = s[i].name
    <3>1. i + 1 # b /\ i + 2 # b BY <2>2, <2>3
    <3>2. i + 1 \in 1..(b - 1) /\ i + 2 \in 1..(b - 1) /\ i + 2 <= b - 1 BY <1>1, <3>1
    <3>. QED BY <2>2, <2>3, <3>2
  <2>4. ASSUME s[i].kind = "body" PROVE i > 1 /\ r[i - 1].kind = "begin"
    <3>1. i > 1 /\ i - 1 \in 1..(b - 1) BY <1>1, <2>2, <2>4
    <3>. QED BY <2>2, <2>4, <3>1
  <2>. QED BY <2>1, <2>2, <2>3, <2>4
<1>. QED BY <1>2, <1>3 DEF HeadOf

\* One turn of the loop on a content that is good for w.
LEMMA RemovalIsGood ==
    ASSUME NEW s \in Seq(Lines), NEW o \in Seq(Lines), NoEnds(o), NEW w \in Wants,
           GoodFor(s, o, w), NEW a \in Aliases, ExtendedBy[a] = {}, Stops(s, a) # {}
    PROVE  GoodFor(removeManagedBlock(s, a), o, [w EXCEPT ![a] = 0])
<1>. DEFINE b == Min(Starts(s, a))
            e == Min(Stops(s, a))
            r == removeManagedBlock(s, a)
<1>1. PICK n \in Nat, m \in Nat : ShapedBy(s, n, o, m) BY DEF GoodFor, Shape
<1>2. Managed(s, w) /\ Tidy(s) /\ Closed(s) BY DEF GoodFor, Managed, Tidy
<1>3. /\ b \in 1..Len(s) /\ e = b + 2 /\ e <= n
      /\ s[b].kind = "begin" /\ s[b + 1].kind = "body"
      /\ s[e].kind = "end" /\ s[e].name = a
    BY <1>1, <1>2, WholeBlock
<1>4. PICK q \in e..Len(s) : /\ \A i \in (e + 1)..q : s[i] = Blank
                             /\ q < Len(s) => s[q + 1] # Blank
                             /\ Without(r, s, b, q)
    BY <1>3, TurnRemoves
<1>. HIDE DEF b, e, r
<1>5. /\ Len(s) \in Nat /\ Len(o) \in Nat
      /\ n \in 0..Len(s) /\ m \in 0..Len(o) /\ HeadOf(s, n) /\ RestOf(s, n, o, m)
    BY <1>1, LenProperties DEF ShapedBy
<1>6. IsLead(o, m)
  <2>1. n # 0 BY <1>3
  <2>. QED BY <1>1, <2>1 DEF ShapedBy
<1>7. Managed(r, [w EXCEPT ![a] = 0])
  <2>1. b + 2 \in 1..Len(s) /\ b + 3 = e + 1 BY <1>3, <1>5
  <2>2. \A i \in (b + 3)..q : s[i] = Blank BY <1>4, <2>1
  <2>. QED BY <1>2, <1>3, <1>4, <2>1, <2>2, WithoutIsManaged
<1>. DEFINE d == q - b + 1
<1>8. /\ Len(r) = Len(s) - d
      /\ \A i \in 1..(b - 1) : r[i] = s[i]
      /\ \A i \in b..Len(r) : r[i] = s[i + d]
    BY <1>4 DEF Without
<1>9. d \in Nat /\ b \in Nat /\ q \in Nat /\ q = b + d - 1 /\ q >= e /\ q <= Len(s)
    BY <1>3, <1>4, <1>5
<1>10. Len(s) - n = Len(o) - m /\ \A i \in 1..(Len(s) - n) : s[n + i] = o[m + i]
    BY <1>5 DEF RestOf
<1>11. CASE q <= n
  <2>. DEFINE k == n - d
  <2>1. HeadOf(r, k)
    <3>1. q \in e..n /\ e \in 1..Len(s)
      <4>1. e \in Nat /\ e >= 1 BY <1>3, <1>9
      <4>. QED BY <1>3, <1>5, <1>9, <1>11, <4>1
    <3>2. q < n => q < Len(s) BY <1>5, <1>9
    <3>. QED BY <1>2, <1>3, <1>4, <1>5, <3>1, <3>2, WithoutInHead
  <2>2. k \in Nat /\ b - 1 <= k /\ k + d = n /\ k <= Len(r) /\ Len(r) \in Nat
    BY <1>3, <1>5, <1>8, <1>9, <1>11
  <2>. HIDE DEF k, d
  <2>3. Len(r) - k = Len(s) - n BY <1>5, <1>8, <1>9, <2>2
  <2>4. ASSUME NEW i \in 1..(Len(r) - k) PROVE r[k + i] = o[m + i]
    <3>1. i \in 1..(Len(s) - n) BY <2>3
    <3>2. i \in Nat /\ i >= 1 /\ i <= Len(r) - k BY <2>2
    <3>3. k + i \in b..Len(r) BY <1>9, <2>2, <3>2
    <3>4. (k + i) + d = n + i BY <1>9, <2>2, <3>2
    <3>. QED BY <1>8, <1>10, <3>1, <3>3, <3>4
  <2>5. RestOf(r, k, o, m) BY <1>10, <2>3, <2>4 DEF RestOf
  <2>6. k \in 0..Len(r) BY <2>2
  <2>7. ShapedBy(r, k, o, m) BY <1>5, <1>6, <2>1, <2>5, <2>6 DEF ShapedBy
  <2>8. Shape(r, o) BY <2>2, <2>7 DEF Shape
  <2>. QED BY <1>7, <2>8 DEF GoodFor, r
<1>12. CASE ~(q <= n)
  <2>. DEFINE k == b - 1
              l == m + (q - n)
  <2>1. HeadOf(r, k)
    <3>1. b \in 1..n BY <1>3, <1>5
    <3>. QED BY <1>3, <1>5, <1>8, <3>1, WithoutOfHead
  <2>2. /\ k \in Nat /\ k <= Len(r) /\ Len(r) \in Nat /\ l \in Nat
        /\ Len(r) - k = Len(s) - q
    BY <1>3, <1>5, <1>8, <1>9, <1>12
  <2>3. l <= Len(o) /\ Len(o) - l = Len(s) - q
    <3>1. Len(o) - m = Len(s) - n BY <1>10
    <3>2. Len(s) \in Nat /\ Len(o) \in Nat /\ n \in Nat /\ m \in Nat BY <1>5
    <3>3. q \in Nat /\ q <= Len(s) BY <1>9
    <3>. QED BY <3>1, <3>2, <3>3
  <2>4. ASSUME NEW i \in 1..(Len(r) - k) PROVE r[k + i] = o[l + i]
    <3>1. i \in Nat /\ i >= 1 /\ i <= Len(s) - q BY <2>2
    <3>2. k + i \in b..Len(r) /\ (k + i) + d = q + i BY <1>9, <2>2, <3>1
    <3>3. r[k + i] = s[q + i] BY <1>8, <3>2
    <3>4. (q - n) + i \in 1..(Len(s) - n) /\ n + ((q - n) + i) = q + i
          /\ m + ((q - n) + i) = l + i
      BY <1>5, <1>9, <1>12, <3>1
    <3>. HIDE DEF k, l
    <3>. QED BY <1>10, <3>3, <3>4
  <2>5. RestOf(r, k, o, l) BY <2>2, <2>3, <2>4 DEF RestOf
  <2>6. IsLead(o, l)
    <3>1. ASSUME NEW i \in 1..l PROVE o[i] = Blank
      <4>1. CASE i <= m
        <5>1. i \in 1..m BY <1>5, <4>1
        <5>. QED BY <1>6, <5>1 DEF IsLead
      <4>2. CASE ~(i <= m)
        <5>1. /\ i - m \in 1..(Len(s) - n) /\ m + (i - m) = i
              /\ n + (i - m) \in (e + 1)..q
          BY <1>3, <1>5, <1>9, <1>12, <4>2
        <5>. QED BY <1>4, <1>10, <5>1
      <4>. QED BY <4>1, <4>2
    <3>2. ASSUME l < Len(o) PROVE o[l + 1] # Blank
      <4>1. q < Len(s) BY <1>5, <1>9, <2>2, <2>3, <3>2
      <4>2. (q - n) + 1 \in 1..(Len(s) - n) /\ n + ((q - n) + 1) = q + 1
            /\ m + ((q - n) + 1) = l + 1
        BY <1>5, <1>9, <1>12, <4>1
      <4>. HIDE DEF l
      <4>. QED BY <1>4, <1>10, <4>1, <4>2
    <3>. HIDE DEF l
    <3>. QED BY <3>1, <3>2 DEF IsLead
  <2>. HIDE DEF k, l, d
  <2>7. k \in 0..Len(r) /\ l \in 0..Len(o) BY <1>5, <2>2, <2>3
  <2>8. ShapedBy(r, k, o, l) BY <2>1, <2>5, <2>6, <2>7 DEF ShapedBy
  <2>9. Shape(r, o) BY <2>2, <2>8 DEF Shape
  <2>. QED BY <1>7, <2>9 DEF GoodFor, r
<1>. QED BY <1>11, <1>12

\* A content without a head: the user's original, of which it may lack blank lines
\* at the beginning, lacks only blank lines too when its own are dropped.
LEMMA LeadThrough ==
    ASSUME NEW s \in Seq(Lines), NEW o \in Seq(Lines), NEW m \in Nat, ShapedBy(s, 0, o, m),
           NEW k \in 0..Len(s), IsLead(s, k)
    PROVE  m + k \in 0..Len(o) /\ IsLead(o, m + k) /\ RestOf(s, k, o, m + k)
<1>1. Len(s) \in Nat /\ Len(o) \in Nat BY LenProperties
<1>2. /\ m \in 0..Len(o) /\ Len(s) = Len(o) - m
      /\ \A i \in 1..Len(s) : s[i] = o[m + i]
  <2>1. /\ m \in 0..Len(o) /\ Len(s) - 0 = Len(o) - m
        /\ \A i \in 1..(Len(s) - 0) : s[0 + i] = o[m + i]
    BY DEF ShapedBy, RestOf
  <2>2. ASSUME NEW i \in 1..Len(s) PROVE s[i] = o[m + i]
    <3>1. i \in 1..(Len(s) - 0) /\ 0 + i = i BY <1>1
    <3>. QED BY <2>1, <3>1
  <2>. QED BY <1>1, <2>1, <2>2
<1>3. IsLead(o, m) \/ m = 0 BY DEF ShapedBy
<1>4. m + k \in 0..Len(o) /\ Len(s) - k = Len(o) - (m + k) BY <1>1, <1>2
<1>5. ASSUME NEW i \in 1..(m + k) PROVE o[i] = Blank
  <2>1. CASE i <= m
    <3>1. i \in 1..m /\ m # 0 BY <1>1, <1>2, <2>1
    <3>. QED BY <1>3, <3>1 DEF IsLead
  <2>2. CASE ~(i <= m)
    <3>1. i - m \in 1..k /\ i - m \in 1..Len(s) /\ m + (i - m) = i BY <1>1, <1>2, <2>2
    <3>. QED BY <1>2, <3>1 DEF IsLead
  <2>. QED BY <2>1, <2>2
<1>6. ASSUME m + k < Len(o) PROVE o[(m + k) + 1] # Blank
  <2>1. k < Len(s) /\ k + 1 \in 1..Len(s) /\ m + (k + 1) = (m + k) + 1 BY <1>1, <1>2, <1>6
  <2>2. s[k + 1] = o[m + (k + 1)] BY <1>2, <2>1
  <2>. QED BY <2>1, <2>2 DEF IsLead
<1>7. ASSUME NEW i \in 1..(Len(s) - k) PROVE s[k + i] = o[(m + k) + i]
  <2>1. k + i \in 1..Len(s) /\ m + (k + i) = (m + k) + i BY <1>1, <1>2
  <2>. QED BY <1>2, <2>1
<1>8. IsLead(o, m + k) BY <1>5, <1>6 DEF IsLead
<1>9. RestOf(s, k, o, m + k) BY <1>4, <1>7 DEF RestOf
<1>. QED BY <1>4, <1>8, <1>9

\* The end of the loop on a content that is good for w.
LEMMA NoBlockLeftIsGood ==
    ASSUME NEW s \in Seq(Lines), NEW o \in Seq(Lines), NoEnds(o), NEW w \in Wants,
           GoodFor(s, o, w), NEW a \in Aliases, Stops(s, a) = {}
    PROVE  w[a] = 0 /\ GoodFor(NoBlockLeft(s, a), o, w)
<1>1. Tidy(s) /\ Managed(s, w) BY DEF GoodFor, Managed
<1>2. w[a] = 0 BY <1>1, LoopLeavesNoEnd DEF NoEnd, Managed
<1>3. Len(s) \in Nat /\ Len(o) \in Nat /\ DOMAIN s = 1..Len(s) /\ DOMAIN o = 1..Len(o)
    BY LenProperties
<1>4. PICK n \in Nat, m \in Nat : ShapedBy(s, n, o, m) BY DEF GoodFor, Shape
<1>5. PICK k \in 0..Len(s) : IsLead(s, k) /\ TrimLeft(s) = SubSeq(s, k + 1, Len(s))
    BY Trimmed
<1>6. CASE Starts(s, a) # {} BY <1>2, <1>6 DEF NoBlockLeft
<1>7. CASE Starts(s, a) = {} /\ n # 0
  <2>1. s[1].kind = "begin" BY <1>4, <1>7 DEF ShapedBy, HeadOf
  <2>2. k = 0
    <3>. SUFFICES ASSUME k # 0 PROVE FALSE OBVIOUS
    <3>1. 1 \in 1..k BY <1>3
    <3>. QED BY <1>5, <2>1, <3>1, BlankKind DEF IsLead
  <2>3. TrimLeft(s) = s BY <1>5, <2>2, SubSeqFull
  <2>. QED BY <1>2, <1>7, <2>3 DEF NoBlockLeft
<1>8. CASE Starts(s, a) = {} /\ n = 0
  <2>. DEFINE r == TrimLeft(s)
              l == m + k
  <2>1. NoBlockLeft(s, a) = r BY <1>8 DEF NoBlockLeft
  <2>2. r \in Seq(Lines) /\ Len(r) = Len(s) - k /\ \A i \in 1..(Len(s) - k) : r[i] = s[k + i]
    BY <1>5, SuffixIs
  <2>3. Tidy(r) BY <1>1, TrimmedIsTidy
  <2>. HIDE DEF r
  <2>4. /\ l \in 0..Len(o) /\ IsLead(o, l) /\ Len(s) - k = Len(o) - l
        /\ \A i \in 1..(Len(s) - k) : s[k + i] = o[l + i]
    <3>1. ShapedBy(s, 0, o, m) BY <1>4, <1>8
    <3>2. IsLead(s, k) BY <1>5
    <3>3. l \in 0..Len(o) /\ IsLead(o, l) /\ RestOf(s, k, o, l)
      BY <3>1, <3>2, LeadThrough
    <3>. HIDE DEF l
    <3>. QED BY <3>3 DEF RestOf
  <2>5. l \in Nat BY <1>3
  <2>. HIDE DEF l
  <2>6. ShapedBy(r, 0, o, l)
    <3>1. HeadOf(r, 0)
      <4>1. 1..0 = {} OBVIOUS
      <4>. QED BY <4>1 DEF HeadOf
    <3>2. Len(r) \in Nat BY <2>2, LenProperties
    <3>3. Len(r) - 0 = Len(s) - k /\ 0 \in 0..Len(r) BY <2>2, <3>2
    <3>4. ASSUME NEW i \in 1..(Len(r) - 0) PROVE r[0 + i] = o[l + i]
      <4>1. i \in 1..(Len(s) - k) /\ 0 + i = i BY <3>3
      <4>. QED BY <2>2, <2>4, <4>1
    <3>5. RestOf(r, 0, o, l) BY <2>4, <3>3, <3>4 DEF RestOf
    <3>. QED BY <2>4, <3>1, <3>3, <3>5 DEF ShapedBy
  <2>7. \A i \in DOMAIN s : s[i].kind # "end"
    <3>1. Len(s) - 0 = Len(o) - m /\ m \in 0..Len(o)
          /\ \A i \in 1..(Len(s) - 0) : s[0 + i] = o[m + i]
      BY <1>4, <1>8 DEF ShapedBy, RestOf
    <3>2. ASSUME NEW i \in 1..Len(s) PROVE s[i].kind # "end"
      <4>1. i \in 1..(Len(s) - 0) /\ 0 + i = i /\ m + i \in 1..Len(o) BY <1>3, <3>1
      <4>. QED BY <1>3, <3>1, <4>1 DEF NoEnds
    <3>. QED BY <1>3, <3>2
  <2>8. Managed(r, w)
    <3>1. \A i \in DOMAIN r : r[i].kind # "end"
      <4>1. DOMAIN r = 1..(Len(s) - k) BY <2>2, LenProperties
      <4>2. \A i \in 1..(Len(s) - k) : k + i \in 1..Len(s) BY <1>3
      <4>. QED BY <1>3, <2>2, <2>7, <4>1, <4>2
    <3>2. \A x \in Aliases : w[x] = 0 BY <1>1, <2>7 DEF Managed
    <3>. QED BY <2>3, <3>1, <3>2 DEF Managed
  <2>9. Shape(r, o) BY <2>5, <2>6 DEF Shape
  <2>. QED BY <1>2, <2>1, <2>8, <2>9 DEF GoodFor
<1>. QED BY <1>6, <1>7, <1>8

LEMMA PrependIsManaged ==
    ASSUME NEW s \in Seq(Lines), NEW w \in Wants, Managed(s, w),
           NEW a \in Aliases, NEW p \in Ports, NoEnd(s, a),
           NEW k \in 0..Len(s), IsLead(s, k), NEW r, Prepended(r, s, k, a, p), Tidy(r)
    PROVE  Managed(r, [w EXCEPT ![a] = p])
<1>1. Len(s) \in Nat /\ DOMAIN s = 1..Len(s) BY LenProperties
<1>2. /\ r \in Seq(Lines) /\ Len(r) \in Nat /\ DOMAIN r = 1..Len(r) /\ Len(r) >= 3
      /\ k < Len(s) => Len(r) = 4 + (Len(s) - k)
      /\ \A i \in 1..(Len(s) - k) : r[4 + i] = s[k + i]
      /\ BlockIn(r, 1, a, p)
  <2>1. r \in Seq(Lines) BY DEF Prepended
  <2>2. Len(r) \in Nat /\ DOMAIN r = 1..Len(r) BY <2>1, LenProperties
  <2>3. /\ k = Len(s) => Len(r) = 3
        /\ k < Len(s) => Len(r) = 4 + (Len(s) - k)
    BY DEF Prepended
  <2>4. Len(r) >= 3
    <3>1. k = Len(s) \/ k < Len(s) BY LenProperties
    <3>2. CASE k = Len(s)
      <4>1. Len(r) = 3 BY <2>3, <3>2
      <4>. QED BY <4>1
    <3>3. CASE k < Len(s)
      <4>1. Len(r) = 4 + (Len(s) - k) BY <2>3, <3>3
      <4>2. Len(s) - k \in Nat BY <3>3, LenProperties
      <4>. QED BY <4>1, <4>2
    <3>. QED BY <3>1, <3>2, <3>3
  <2>. QED BY <2>1, <2>2, <2>3, <2>4 DEF Prepended
<1>3. r[1].kind = "begin" /\ r[2].kind = "body" /\ r[3].kind = "end" /\ r[3].name = a
    BY <1>2 DEF BlockIn, Line
<1>. DEFINE v == [w EXCEPT ![a] = p]
<1>4. v[a] = p /\ \A x \in Aliases : x # a => v[x] = w[x] BY DEF Wants
<1>. HIDE DEF v
<1>5. ASSUME NEW j \in 1..(Len(s) - k), s[k + j].kind = "end"
      PROVE  /\ s[k + j].name \in Aliases /\ v[s[k + j].name] \in Ports
             /\ BlockIn(r, (4 + j) - 2, s[k + j].name, v[s[k + j].name])
  <2>1. k + j \in DOMAIN s BY <1>1
  <2>2. /\ s[k + j].name \in Aliases /\ w[s[k + j].name] \in Ports
        /\ BlockIn(s, (k + j) - 2, s[k + j].name, w[s[k + j].name])
    BY <1>5, <2>1 DEF Managed
  <2>3. s[k + j].name # a BY <1>5, <2>1 DEF NoEnd
  <2>4. v[s[k + j].name] = w[s[k + j].name] BY <1>4, <2>2, <2>3
  <2>5. j > 2 BY <1>5, LeadUncut DEF Managed, Tidy
  <2>6. /\ j - 1 \in 1..(Len(s) - k) /\ j - 2 \in 1..(Len(s) - k)
        /\ 4 + (j - 1) = ((4 + j) - 2) + 1 /\ 4 + (j - 2) = (4 + j) - 2
        /\ 4 + j = ((4 + j) - 2) + 2
        /\ k + (j - 1) = ((k + j) - 2) + 1 /\ k + (j - 2) = (k + j) - 2
        /\ k + j = ((k + j) - 2) + 2
    BY <1>1, <2>5
  <2>7. /\ r[(4 + j) - 2] = s[(k + j) - 2] /\ r[((4 + j) - 2) + 1] = s[((k + j) - 2) + 1]
        /\ r[((4 + j) - 2) + 2] = s[((k + j) - 2) + 2]
    <3>1. /\ r[4 + j] = s[k + j] /\ r[4 + (j - 1)] = s[k + (j - 1)]
          /\ r[4 + (j - 2)] = s[k + (j - 2)]
      BY <1>2, <2>6
    <3>. QED BY <2>6, <3>1, Zenon
  <2>8. BlockIn(r, (4 + j) - 2, s[k + j].name, w[s[k + j].name])
    BY <2>2, <2>7 DEF BlockIn
  <2>. QED BY <2>2, <2>4, <2>8
<1>6. ASSUME NEW i \in DOMAIN r, r[i].kind = "end"
      PROVE  /\ r[i].name \in Aliases /\ v[r[i].name] \in Ports
             /\ BlockIn(r, i - 2, r[i].name, v[r[i].name])
  <2>1. CASE i = 3
    <3>1. i - 2 = 1 BY <2>1
    <3>. QED BY <1>2, <1>3, <1>4, <2>1, <3>1
  <2>2. CASE i # 3
    <3>1. i # 1 /\ i # 2 BY <1>3, <1>6
    <3>2. i \in Nat /\ i >= 4 /\ i <= Len(r) BY <1>2, <2>2, <3>1
    <3>3. k < Len(s)
      <4>1. k = Len(s) => Len(r) = 3 BY DEF Prepended
      <4>2. k = Len(s) \/ k < Len(s) BY LenProperties
      <4>. QED BY <3>2, <4>1, <4>2
    <3>4. i # 4
      <4>1. r[4].kind = "blank" BY <3>3, BlankKind DEF Prepended
      <4>. QED BY <1>6, <4>1
    <3>5. i - 4 \in 1..(Len(s) - k) /\ 4 + (i - 4) = i
      <4>1. Len(r) = 4 + (Len(s) - k) BY <1>2, <3>3
      <4>2. i - 4 \in Nat /\ i - 4 >= 1 /\ i - 4 <= Len(s) - k /\ 4 + (i - 4) = i
        BY <1>1, <3>2, <3>4, <4>1
      <4>. QED BY <1>1, <4>2
    <3>6. r[i] = s[k + (i - 4)] BY <1>2, <3>5
    <3>7. /\ s[k + (i - 4)].name \in Aliases /\ v[s[k + (i - 4)].name] \in Ports
          /\ BlockIn(r, (4 + (i - 4)) - 2, s[k + (i - 4)].name, v[s[k + (i - 4)].name])
      BY <1>5, <1>6, <3>5, <3>6
    <3>. QED BY <3>5, <3>6, <3>7
  <2>. QED BY <2>1, <2>2
<1>7. ASSUME NEW x \in Aliases, v[x] # 0
      PROVE  \E i \in DOMAIN r : r[i].kind = "end" /\ r[i].name = x
  <2>1. CASE x = a
    <3>1. 3 \in DOMAIN r BY <1>2
    <3>. QED BY <1>3, <2>1, <3>1
  <2>2. CASE x # a
    <3>1. w[x] # 0 BY <1>4, <1>7, <2>2
    <3>2. PICK j \in 1..Len(s) : s[j].kind = "end" /\ s[j].name = x
      BY <1>1, <3>1 DEF Managed
    <3>3. j \notin 1..k BY <3>2, BlankKind DEF IsLead
    <3>4. j - k \in 1..(Len(s) - k) /\ k + (j - k) = j BY <1>1, <3>3
    <3>5. r[4 + (j - k)] = s[j] BY <1>2, <3>4
    <3>6. 4 + (j - k) \in DOMAIN r
      <4>1. k < Len(s) BY <1>1, <3>4
      <4>2. Len(r) = 4 + (Len(s) - k) BY <1>2, <4>1
      <4>3. j - k \in Nat /\ j - k >= 1 /\ j - k <= Len(s) - k BY <1>1, <3>4
      <4>. QED BY <1>1, <1>2, <4>2, <4>3
    <3>. QED BY <3>2, <3>5, <3>6
  <2>. QED BY <2>1, <2>2
<1>8. Managed(r, v) BY <1>6, <1>7 DEF Managed
<1>. QED BY <1>8 DEF v

LEMMA PrependIsGood ==
    ASSUME NEW s \in Seq(Lines), NEW o \in Seq(Lines), NEW w \in Wants, GoodFor(s, o, w),
           NEW a \in Aliases, NEW p \in Ports, NoEnd(s, a)
    PROVE  GoodFor(prependManagedBlock(s, Block(a, p)), o, [w EXCEPT ![a] = p])
<1>. DEFINE r == prependManagedBlock(s, Block(a, p))
<1>1. Tidy(s) /\ Managed(s, w) BY DEF GoodFor, Managed
<1>2. PICK k \in 0..Len(s) : IsLead(s, k) /\ Prepended(r, s, k, a, p) BY PrependIs
<1>3. Tidy(r) BY <1>1, PrependIsTidy
<1>4. PICK n \in Nat, m \in Nat : ShapedBy(s, n, o, m) BY DEF GoodFor, Shape
<1>. HIDE DEF r
<1>5. Managed(r, [w EXCEPT ![a] = p]) BY <1>1, <1>2, <1>3, PrependIsManaged
<1>6. /\ Len(s) \in Nat /\ Len(o) \in Nat /\ n \in 0..Len(s) /\ m \in 0..Len(o)
      /\ HeadOf(s, n) /\ RestOf(s, n, o, m)
    BY <1>4, LenProperties DEF ShapedBy
<1>7. /\ r \in Seq(Lines) /\ Len(r) \in Nat
      /\ k = Len(s) => Len(r) = 3
      /\ k < Len(s) => Len(r) = 4 + (Len(s) - k) /\ r[4] = Blank
      /\ \A i \in 1..(Len(s) - k) : r[4 + i] = s[k + i]
  <2>1. r \in Seq(Lines) BY <1>2 DEF Prepended
  <2>. QED BY <1>2, <2>1, LenProperties DEF Prepended
<1>8. /\ r[1].kind = "begin" /\ r[2].kind = "body"
      /\ r[3].kind = "end" /\ r[3].name = r[1].name
    BY <1>2 DEF Prepended, BlockIn, Line
<1>9. CASE n # 0
  <2>. DEFINE l == n + 4
  <2>1. s[1].kind = "begin" BY <1>6, <1>9 DEF HeadOf
  <2>2. k = 0
    <3>. SUFFICES ASSUME k # 0 PROVE FALSE OBVIOUS
    <3>1. 1 \in 1..k BY <1>6
    <3>. QED BY <1>2, <2>1, <3>1, BlankKind DEF IsLead
  <2>3. k < Len(s) BY <1>6, <1>9, <2>2
  <2>4. Len(r) = 4 + Len(s) /\ r[4] = Blank
    <3>1. Len(s) - k = Len(s) BY <1>6, <2>2
    <3>. QED BY <1>7, <2>3, <3>1
  <2>5. \A i \in 1..Len(s) : r[4 + i] = s[i]
    <3>1. Len(s) - k = Len(s) /\ \A i \in 1..Len(s) : k + i = i BY <1>6, <2>2
    <3>. QED BY <1>7, <3>1
  <2>6. l \in Nat /\ l \in 0..Len(r) BY <1>6, <2>4
  <2>7. HeadOf(r, l)
    <3>1. ASSUME NEW i \in 1..l
          PROVE  /\ r[i].kind \in {"begin", "body", "end"} \/ r[i] = Blank
                 /\ r[i].kind = "begin" => /\ i + 2 <= l /\ r[i + 1].kind = "body"
                                           /\ r[i + 2].kind = "end"
                                           /\ r[i + 2].name = r[i].name
                 /\ r[i].kind = "body" => i > 1 /\ r[i - 1].kind = "begin"
      <4>1. CASE i \in 1..4
        <5>1. i = 1 \/ i = 2 \/ i = 3 \/ i = 4 BY <4>1
        <5>2. l >= 3 /\ l \in Nat BY <1>9
        <5>. HIDE DEF l
        <5>3. CASE i = 1 BY <1>8, <5>2, <5>3
        <5>4. CASE i = 2 BY <1>8, <5>4
        <5>5. CASE i = 3 BY <1>8, <5>5
        <5>6. CASE i = 4 BY <2>4, <5>6, BlankKind
        <5>. QED BY <5>1, <5>3, <5>4, <5>5, <5>6
      <4>2. CASE i \notin 1..4
        <5>1. PICK j \in 1..n : i = 4 + j
          <6>1. i - 4 \in 1..n /\ i = 4 + (i - 4) BY <4>2
          <6>. QED BY <6>1
        <5>2. j \in 1..Len(s) /\ j \in Nat /\ n \in Nat BY <1>6
        <5>3. /\ s[j].kind \in {"begin", "body", "end"} \/ s[j] = Blank
              /\ s[j].kind = "begin" => /\ j + 2 <= n /\ s[j + 1].kind = "body"
                                        /\ s[j + 2].kind = "end"
                                        /\ s[j + 2].name = s[j].name
              /\ s[j].kind = "body" => j > 1 /\ s[j - 1].kind = "begin"
          BY <1>6 DEF HeadOf
        <5>4. r[i] = s[j] BY <2>5, <5>1, <5>2
        <5>5. ASSUME s[j].kind = "begin"
              PROVE  /\ i + 2 <= l /\ r[i + 1].kind = "body"
                     /\ r[i + 2].kind = "end" /\ r[i + 2].name = s[j].name
          <6>1. /\ j + 1 \in 1..Len(s) /\ j + 2 \in 1..Len(s)
                /\ 4 + (j + 1) = i + 1 /\ 4 + (j + 2) = i + 2 /\ i + 2 <= l
            <7>1. j + 2 <= n /\ n <= Len(s) BY <1>6, <5>3, <5>5
            <7>. QED BY <1>6, <5>1, <5>2, <7>1
          <6>2. r[i + 1] = s[j + 1] /\ r[i + 2] = s[j + 2] BY <2>5, <6>1
          <6>. QED BY <5>3, <5>5, <6>1, <6>2
        <5>6. ASSUME s[j].kind = "body" PROVE i > 1 /\ r[i - 1].kind = "begin"
          <6>1. j - 1 \in 1..Len(s) /\ 4 + (j - 1) = i - 1 /\ i > 1
            BY <1>6, <5>1, <5>2, <5>3, <5>6
          <6>2. r[i - 1] = s[j - 1] BY <2>5, <6>1
          <6>. QED BY <5>3, <5>6, <6>1, <6>2
        <5>. HIDE DEF l
        <5>. QED BY <5>3, <5>4, <5>5, <5>6
      <4>. QED BY <4>1, <4>2
    <3>. HIDE DEF l
    <3>. QED BY <1>8, <3>1 DEF HeadOf
  <2>8. RestOf(r, l, o, m)
    <3>1. /\ Len(r) - l = Len(s) - n /\ Len(s) - n = Len(o) - m
          /\ \A i \in 1..(Len(s) - n) : s[n + i] = o[m + i]
      BY <1>6, <2>4 DEF RestOf
    <3>2. ASSUME NEW i \in 1..(Len(r) - l) PROVE r[l + i] = o[m + i]
      <4>1. i \in 1..(Len(s) - n) BY <3>1
      <4>2. n + i \in 1..Len(s) /\ 4 + (n + i) = l + i BY <1>6, <4>1
      <4>. QED BY <2>5, <3>1, <4>1, <4>2
    <3>. HIDE DEF l
    <3>. QED BY <3>1, <3>2 DEF RestOf
  <2>9. IsLead(o, m) BY <1>4, <1>9 DEF ShapedBy
  <2>. HIDE DEF l
  <2>10. ShapedBy(r, l, o, m) BY <1>6, <2>6, <2>7, <2>8, <2>9 DEF ShapedBy
  <2>11. Shape(r, o) BY <2>6, <2>10 DEF Shape
  <2>. QED BY <1>5, <2>11 DEF GoodFor, r
<1>10. CASE n = 0
  <2>. DEFINE l == IF k = Len(s) THEN 3 ELSE 4
  <2>1. /\ m + k \in 0..Len(o) /\ IsLead(o, m + k) /\ Len(s) - k = Len(o) - (m + k)
        /\ \A i \in 1..(Len(s) - k) : s[k + i] = o[(m + k) + i]
    <3>1. ShapedBy(s, 0, o, m) BY <1>4, <1>10
    <3>2. m + k \in 0..Len(o) /\ IsLead(o, m + k) /\ RestOf(s, k, o, m + k)
      BY <1>2, <3>1, LeadThrough
    <3>. QED BY <3>2 DEF RestOf
  <2>2. k = Len(s) \/ k < Len(s) BY <1>6
  <2>3. m + k \in Nat /\ l \in Nat BY <1>6
  <2>4. l \in 0..Len(r) /\ Len(r) - l = Len(s) - k
    <3>1. CASE k = Len(s)
      <4>1. Len(r) = 3 /\ l = 3 /\ Len(s) - k = 0 BY <1>6, <1>7, <3>1
      <4>. HIDE DEF l
      <4>. QED BY <4>1
    <3>2. CASE k < Len(s)
      <4>1. Len(r) = 4 + (Len(s) - k) /\ l = 4 BY <1>6, <1>7, <3>2
      <4>2. Len(s) - k \in Nat BY <1>6, <3>2
      <4>. QED BY <4>1, <4>2
    <3>. QED BY <2>2, <3>1, <3>2
  <2>5. ASSUME NEW i \in 1..(Len(r) - l) PROVE r[l + i] = o[(m + k) + i]
    <3>1. i \in 1..(Len(s) - k) BY <2>4
    <3>2. k # Len(s) BY <1>6, <3>1
    <3>3. l = 4 BY <3>2
    <3>4. r[4 + i] = s[k + i] BY <1>7, <3>1
    <3>. HIDE DEF l
    <3>. QED BY <2>1, <3>1, <3>3, <3>4
  <2>6. HeadOf(r, l)
    <3>1. ASSUME NEW i \in 1..l
          PROVE  /\ r[i].kind \in {"begin", "body", "end"} \/ r[i] = Blank
                 /\ r[i].kind = "begin" => /\ i + 2 <= l /\ r[i + 1].kind = "body"
                                           /\ r[i + 2].kind = "end"
                                           /\ r[i + 2].name = r[i].name
                 /\ r[i].kind = "body" => i > 1 /\ r[i - 1].kind = "begin"
      <4>1. i = 1 \/ i = 2 \/ i = 3 \/ (i = 4 /\ k < Len(s)) BY <2>2
      <4>2. l >= 3 OBVIOUS
      <4>. HIDE DEF l
      <4>. QED BY <1>7, <1>8, <4>1, <4>2, <2>3, BlankKind
    <3>. HIDE DEF l
    <3>. QED BY <1>8, <3>1 DEF HeadOf
  <2>. HIDE DEF l
  <2>7. RestOf(r, l, o, m + k) BY <2>1, <2>4, <2>5 DEF RestOf
  <2>8. ShapedBy(r, l, o, m + k) BY <2>1, <2>4, <2>6, <2>7 DEF ShapedBy
  <2>9. Shape(r, o) BY <2>3, <2>8 DEF Shape
  <2>. QED BY <1>5, <2>9 DEF GoodFor, r
<1>. QED BY <1>9, <1>10

-----------------------------------------------------------------------------
(* While nothing disturbs the commands. *)

\* The blocks that are wanted once the command of slot c is done, if it asks for p.
Asked(c, p) == [wanted EXCEPT ![op[c].alias] = p]

\* At most one command runs.  Outside its write the file is good for what is
\* wanted; the content it works on is good for that with or without the block of
\* its own alias, and the one it writes for what it asks for.
SoloInv ==
    ~disturbed =>
        /\ \A c, d \in Commands : pc[c] # "idle" /\ pc[d] # "idle" => c = d
        /\ (\A c \in Commands : pc[c] # "write") => GoodFor(file, original, wanted)
        /\ \A c \in Commands : pc[c] = "remove" =>
              /\ read[c] = file
              /\ GoodFor(new[c], original, wanted) \/ GoodFor(new[c], original, Asked(c, 0))
        /\ \A c \in Commands : pc[c] \in {"truncate", "write"} =>
              GoodFor(new[c], original, Asked(c, op[c].port))

LEMMA OriginalIsGood ==
    ASSUME NEW o \in Seq(Lines), NoEnds(o)
    PROVE  GoodFor(o, o, [a \in Aliases |-> 0])
<1>1. Len(o) \in Nat BY LenProperties
<1>2. Managed(o, [a \in Aliases |-> 0])
  <2>1. Tidy(o) BY DEF Tidy, Closed, EndsOnce, NoEnds
  <2>. QED BY <2>1 DEF Managed, NoEnds
<1>3. HeadOf(o, 0)
  <2>1. 1..0 = {} OBVIOUS
  <2>. QED BY <2>1 DEF HeadOf
<1>4. RestOf(o, 0, o, 0) BY <1>1 DEF RestOf
<1>5. ShapedBy(o, 0, o, 0) BY <1>1, <1>3, <1>4 DEF ShapedBy
<1>. QED BY <1>2, <1>5 DEF Shape, GoodFor

\* What a command works on is good, or is made good, for what it asks for.
LEMMA WorkIsGood ==
    ASSUME TypeOK, OpInv, SoloInv, ~disturbed, NoEnds(original),
           NEW c \in Commands, pc[c] = "remove"
    PROVE  \E w \in Wants : GoodFor(new[c], original, w) /\ w \in {wanted, Asked(c, 0)}
<1>1. wanted \in Wants /\ Asked(c, 0) \in Wants BY DEF TypeOK, OpInv, Wants, Asked
<1>2. GoodFor(new[c], original, wanted) \/ GoodFor(new[c], original, Asked(c, 0))
    BY DEF SoloInv
<1>. QED BY <1>1, <1>2

LEMMA UpdatedIsGood ==
    ASSUME TypeOK, OpInv, SoloInv, ~disturbed, NoEnds(original),
           NEW c \in Commands, pc[c] = "remove", Stops(new[c], op[c].alias) = {}
    PROVE  GoodFor(Updated(c), original, Asked(c, op[c].port))
<1>. DEFINE a == op[c].alias
            p == op[c].port
            bare == NoBlockLeft(new[c], a)
<1>1. /\ a \in Aliases /\ p \in Ports \cup {0} /\ new[c] \in Seq(Lines)
      /\ original \in Seq(Lines) /\ wanted \in Wants
    BY FileAssumption DEF TypeOK, OpInv, Wants
<1>2. PICK w \in Wants : GoodFor(new[c], original, w) /\ w \in {wanted, Asked(c, 0)}
    BY WorkIsGood
<1>3. w[a] = 0 /\ GoodFor(bare, original, w) BY <1>1, <1>2, NoBlockLeftIsGood
<1>4. w = Asked(c, 0)
  <2>1. CASE w = wanted
    <3>1. wanted[a] = 0 BY <1>3, <2>1
    <3>. QED BY <1>1, <2>1, <3>1 DEF Asked, Wants
  <2>. QED BY <1>2, <2>1
<1>5. CASE p = 0
  <2>1. Updated(c) = bare BY <1>5 DEF Updated
  <2>. QED BY <1>3, <1>4, <1>5, <2>1
<1>6. CASE p # 0
  <2>1. Updated(c) = prependManagedBlock(bare, Block(a, p)) BY <1>6 DEF Updated
  <2>2. bare \in Seq(Lines) /\ NoEnd(bare, a)
    <3>1. Tidy(new[c]) BY <1>2 DEF GoodFor, Managed
    <3>. QED BY <1>1, <3>1, NoBlockLeftTyped, NoBlockLeftIsTidy
  <2>3. p \in Ports BY <1>1, <1>6
  <2>4. [w EXCEPT ![a] = p] = Asked(c, p) BY <1>1, <1>4 DEF Asked, Wants
  <2>. HIDE DEF a, p, bare
  <2>5. GoodFor(prependManagedBlock(bare, Block(a, p)), original, [w EXCEPT ![a] = p])
    BY <1>1, <1>3, <2>2, <2>3, PrependIsGood
  <2>. QED BY <2>1, <2>4, <2>5 DEF p
<1>. QED BY <1>5, <1>6

LEMMA StepSolo ==
    ASSUME \A a \in Aliases : ExtendedBy[a] = {}, NoEnds(original),
           TypeOK, OpInv, SoloInv, [Next]_vars
    PROVE  SoloInv'
<1>. SUFFICES ASSUME ~disturbed' PROVE SoloInv'
    BY DEF SoloInv
<1>. USE DEF TypeOK
<1>1. ASSUME NEW c \in Commands, ~disturbed, pc[c] # "idle"
      PROVE  \A d \in Commands : d # c => pc[d] = "idle"
    BY <1>1 DEF SoloInv
<1>2. ASSUME NEW c \in Commands, NEW a \in Aliases, NEW p \in Ports \cup {0}, Call(c, a, p)
      PROVE  SoloInv'
  <2>1. /\ ~disturbed /\ wanted' = wanted /\ file' = file /\ original' = original
        /\ \A d \in Commands : pc[d] = "idle"
        /\ \A d \in Commands : pc'[d] = IF d = c THEN "read" ELSE "idle"
    BY <1>2 DEF Call, Disturb
  <2>2. GoodFor(file, original, wanted) BY <2>1 DEF SoloInv
  <2>. QED BY <2>1, <2>2 DEF SoloInv
<1>3. ASSUME NEW c \in Commands, Read(c) PROVE SoloInv'
  <2>1. /\ ~disturbed /\ wanted' = wanted /\ file' = file /\ original' = original /\ op' = op
        /\ \A d \in Commands : d # c => pc[d] = "idle"
        /\ \A d \in Commands : pc'[d] = IF d = c THEN "remove" ELSE "idle"
        /\ read'[c] = file /\ new'[c] = file
    BY <1>1, <1>3 DEF Read
  <2>2. GoodFor(file, original, wanted)
    <3>1. \A d \in Commands : pc[d] # "write" BY <1>3, <2>1 DEF Read
    <3>. QED BY <2>1, <3>1 DEF SoloInv
  <2>. QED BY <2>1, <2>2 DEF SoloInv
<1>4. ASSUME NEW c \in Commands, RemoveBlock(c) PROVE SoloInv'
  <2>1. /\ ~disturbed /\ wanted' = wanted /\ file' = file /\ original' = original /\ op' = op
        /\ pc' = pc /\ read' = read /\ pc[c] = "remove"
        /\ Stops(new[c], op[c].alias) # {}
        /\ \A d \in Commands : d # c => pc[d] = "idle"
        /\ new'[c] = removeManagedBlock(new[c], op[c].alias)
    BY <1>1, <1>4 DEF RemoveBlock
  <2>2. /\ op[c].alias \in Aliases /\ ExtendedBy[op[c].alias] = {} /\ new[c] \in Seq(Lines)
        /\ original \in Seq(Lines) /\ wanted \in Wants
    BY <2>1, FileAssumption DEF OpInv, Wants
  <2>3. PICK w \in Wants : GoodFor(new[c], original, w) /\ w \in {wanted, Asked(c, 0)}
    BY <2>1, WorkIsGood
  <2>4. GoodFor(new'[c], original, [w EXCEPT ![op[c].alias] = 0])
    <3>. DEFINE a == op[c].alias
    <3>1. /\ a \in Aliases /\ ExtendedBy[a] = {} /\ new[c] \in Seq(Lines)
          /\ original \in Seq(Lines) /\ Stops(new[c], a) # {}
      BY <2>1, <2>2
    <3>. HIDE DEF a
    <3>2. GoodFor(removeManagedBlock(new[c], a), original, [w EXCEPT ![a] = 0])
      BY <2>3, <3>1, RemovalIsGood
    <3>. QED BY <2>1, <3>2 DEF a
  <2>5. [w EXCEPT ![op[c].alias] = 0] = Asked(c, 0) BY <2>2, <2>3 DEF Asked, Wants
  <2>6. GoodFor(new'[c], original', Asked(c, 0)')
    <3>1. Asked(c, 0)' = Asked(c, 0) BY <2>1 DEF Asked
    <3>. QED BY <2>1, <2>4, <2>5, <3>1
  <2>7. read[c] = file /\ GoodFor(file, original, wanted)
    <3>1. \A d \in Commands : pc[d] # "write" BY <2>1
    <3>. QED BY <2>1, <3>1 DEF SoloInv
  <2>. QED BY <2>1, <2>6, <2>7 DEF SoloInv
<1>5. ASSUME NEW c \in Commands, Update(c) PROVE SoloInv'
  <2>1. /\ ~disturbed /\ file' = file /\ original' = original
        /\ pc[c] = "remove" /\ Stops(new[c], op[c].alias) = {}
        /\ \A d \in Commands : d # c => pc[d] = "idle"
    BY <1>1, <1>5 DEF Update
  <2>2. GoodFor(Updated(c), original, Asked(c, op[c].port)) BY <2>1, UpdatedIsGood
  <2>3. read[c] = file /\ GoodFor(file, original, wanted)
    <3>1. \A d \in Commands : pc[d] # "write" BY <2>1
    <3>. QED BY <2>1, <3>1 DEF SoloInv
  <2>4. CASE op[c].port = 0 /\ Updated(c) = read[c]
    <3>1. /\ \A d \in Commands : pc'[d] = "idle"
          /\ wanted' = Asked(c, op[c].port)
      BY <1>5, <2>1, <2>4 DEF Update, Done, Achieved, Asked
    <3>2. GoodFor(file', original', wanted') BY <2>1, <2>2, <2>3, <2>4, <3>1
    <3>. QED BY <3>1, <3>2 DEF SoloInv
  <2>5. CASE ~(op[c].port = 0 /\ Updated(c) = read[c])
    <3>1. /\ \A d \in Commands : pc'[d] = IF d = c THEN "truncate" ELSE "idle"
          /\ new'[c] = Updated(c) /\ op' = op /\ wanted' = wanted
      BY <1>5, <2>1, <2>5 DEF Update
    <3>2. Asked(c, op[c].port)' = Asked(c, op[c].port) BY <3>1 DEF Asked
    <3>3. GoodFor(new'[c], original', Asked(c, op[c].port)') BY <2>1, <2>2, <3>1, <3>2
    <3>. QED BY <2>1, <2>3, <3>1, <3>3 DEF SoloInv
  <2>. QED BY <2>4, <2>5
<1>6. ASSUME NEW c \in Commands, Truncate(c) PROVE SoloInv'
  <2>1. /\ ~disturbed /\ wanted' = wanted /\ original' = original /\ op' = op /\ new' = new
        /\ pc[c] = "truncate"
        /\ \A d \in Commands : d # c => pc[d] = "idle"
        /\ \A d \in Commands : pc'[d] = IF d = c THEN "write" ELSE "idle"
    BY <1>1, <1>6 DEF Truncate
  <2>2. GoodFor(new[c], original, Asked(c, op[c].port)) BY <2>1 DEF SoloInv
  <2>3. GoodFor(new[c], original, Asked(c, op[c].port))' BY <2>1, <2>2 DEF Asked
  <2>. QED BY <2>1, <2>3 DEF SoloInv
<1>7. ASSUME NEW c \in Commands, Write(c) PROVE SoloInv'
  <2>1. /\ ~disturbed /\ original' = original /\ file' = new[c] /\ pc[c] = "write"
        /\ wanted' = Asked(c, op[c].port)
        /\ \A d \in Commands : pc'[d] = "idle"
    <3>1. ~disturbed /\ pc[c] = "write" BY <1>7 DEF Write
    <3>. QED BY <1>1, <1>7, <3>1 DEF Write, Done, Achieved, Asked
  <2>2. GoodFor(new[c], original, Asked(c, op[c].port)) BY <2>1 DEF SoloInv
  <2>3. GoodFor(file', original', wanted') BY <2>1, <2>2
  <2>. QED BY <2>1, <2>3 DEF SoloInv
<1>8. ASSUME NEW c \in Commands, Crash(c) PROVE SoloInv'
  <2>1. ~disturbed /\ pc[c] # "write" /\ pc[c] # "idle" BY <1>8 DEF Crash, Disturb
  <2>2. /\ wanted' = wanted /\ original' = original /\ file' = file
        /\ \A d \in Commands : d # c => pc[d] = "idle"
        /\ \A d \in Commands : pc'[d] = "idle"
    BY <1>1, <1>8, <2>1 DEF Crash, Done, Disturb
  <2>3. GoodFor(file, original, wanted)
    <3>1. \A d \in Commands : pc[d] # "write" BY <2>1, <2>2
    <3>. QED BY <2>1, <3>1 DEF SoloInv
  <2>. QED BY <2>2, <2>3 DEF SoloInv
<1>9. CASE UNCHANGED vars BY <1>9 DEF vars, SoloInv, Asked
<1>. QED BY <1>2, <1>3, <1>4, <1>5, <1>6, <1>7, <1>8, <1>9 DEF Next

LEMMA SoloInvariant ==
    ASSUME \A a \in Aliases : ExtendedBy[a] = {}, \A o \in Originals : NoEnds(o)
    PROVE  Spec => [](TypeOK /\ OpInv /\ SoloInv)
<1>1. Init => SoloInv
  <2>. SUFFICES ASSUME Init PROVE SoloInv OBVIOUS
  <2>1. original \in Seq(Lines) /\ NoEnds(original) BY FileAssumption DEF Init
  <2>2. GoodFor(file, original, wanted) BY <2>1, OriginalIsGood DEF Init
  <2>. QED BY <2>2 DEF Init, SoloInv
<1>2. TypeOK /\ OpInv /\ SoloInv /\ [Next]_vars => SoloInv'
  <2>. SUFFICES ASSUME TypeOK, OpInv, SoloInv, [Next]_vars PROVE SoloInv' OBVIOUS
  <2>1. NoEnds(original) BY DEF TypeOK
  <2>. QED BY <2>1, StepSolo
<1>. QED BY <1>1, <1>2, InitTyped, StepTyped, PTL DEF Spec

LEMMA SettledIsGood ==
    ASSUME TypeOK, SoloInv, Settled
    PROVE  /\ file \in Seq(Lines) /\ original \in Seq(Lines) /\ wanted \in Wants
           /\ GoodFor(file, original, wanted)
<1>1. GoodFor(file, original, wanted) BY DEF Settled, SoloInv
<1>. QED BY <1>1, FileAssumption DEF TypeOK, Wants

-----------------------------------------------------------------------------
(* The user's lines, for aliases that may be prefixes of each other. *)

\* s ends as o does, and what comes before holds no line of the user in either.
KeptBy(s, n, o, m) ==
    /\ n \in 0..Len(s) /\ m \in 0..Len(o) /\ RestOf(s, n, o, m)
    /\ NoUserLine(s, n) /\ NoUserLine(o, m)

Keeps(s, o) == \E n \in Nat, m \in Nat : KeptBy(s, n, o, m)

KeptInv ==
    ~disturbed =>
        /\ \A c, d \in Commands : pc[c] # "idle" /\ pc[d] # "idle" => c = d
        /\ (\A c \in Commands : pc[c] # "write") => Keeps(file, original)
        /\ \A c \in Commands :
              pc[c] \in {"remove", "truncate", "write"} => Keeps(new[c], original)

\* Lines go that are above the rest, or blank.
LEMMA WithoutKeeps ==
    ASSUME NEW s \in Seq(Lines), NEW o \in Seq(Lines),
           NEW n \in Nat, NEW m \in Nat, KeptBy(s, n, o, m),
           NEW b \in 1..Len(s), b <= n + 1, NEW q \in b..Len(s),
           \A i \in (n + 1)..q : s[i] = Blank,
           NEW r, Without(r, s, b, q)
    PROVE  Keeps(r, o)
<1>. DEFINE d == q - b + 1
<1>1. /\ Len(s) \in Nat /\ Len(o) \in Nat /\ n <= Len(s) /\ m <= Len(o)
      /\ Len(s) - n = Len(o) - m
      /\ \A i \in 1..(Len(s) - n) : s[n + i] = o[m + i]
      /\ NoUserLine(s, n) /\ NoUserLine(o, m)
    BY LenProperties DEF KeptBy, RestOf
<1>2. /\ Len(r) = Len(s) - d
      /\ \A i \in 1..(b - 1) : r[i] = s[i]
      /\ \A i \in b..Len(r) : r[i] = s[i + d]
    BY DEF Without
<1>3. d \in Nat /\ b \in Nat /\ q \in Nat /\ q = b + d - 1 /\ q <= Len(s) /\ b >= 1
    BY <1>1
<1>4. CASE q <= n
  <2>. DEFINE k == n - d
  <2>1. k \in Nat /\ b - 1 <= k /\ k + d = n /\ k <= Len(r) /\ Len(r) \in Nat
    BY <1>1, <1>2, <1>3, <1>4
  <2>. HIDE DEF k, d
  <2>2. Len(r) - k = Len(s) - n BY <1>1, <1>2, <1>3, <2>1
  <2>3. ASSUME NEW i \in 1..(Len(r) - k) PROVE r[k + i] = o[m + i]
    <3>1. i \in 1..(Len(s) - n) BY <2>2
    <3>2. i \in Nat /\ i >= 1 /\ i <= Len(r) - k BY <2>1
    <3>3. k + i \in b..Len(r) BY <1>3, <2>1, <3>2
    <3>4. (k + i) + d = n + i BY <1>3, <2>1, <3>2
    <3>. QED BY <1>1, <1>2, <3>1, <3>3, <3>4
  <2>4. RestOf(r, k, o, m) BY <1>1, <2>2, <2>3 DEF RestOf
  <2>5. NoUserLine(r, k)
    <3>1. ASSUME NEW i \in 1..k PROVE r[i].kind # "user"
      <4>1. CASE i < b
        <5>1. i \in 1..(b - 1) /\ i \in 1..n
          <6>1. i \in Nat /\ i >= 1 /\ i <= k BY <2>1
          <6>2. i <= b - 1 BY <1>3, <4>1, <6>1
          <6>3. i <= n BY <1>3, <2>1, <6>1
          <6>. QED BY <1>3, <6>1, <6>2, <6>3
        <5>. QED BY <1>1, <1>2, <5>1 DEF NoUserLine
      <4>2. CASE ~(i < b)
        <5>1. i \in b..Len(r) /\ i + d \in 1..n
          <6>1. i \in Nat /\ i >= b /\ i <= k BY <1>3, <2>1, <4>2
          <6>2. i <= Len(r) BY <2>1, <6>1
          <6>3. i + d <= n /\ i + d >= 1 BY <1>3, <2>1, <6>1
          <6>. QED BY <1>3, <2>1, <6>1, <6>2, <6>3
        <5>. QED BY <1>1, <1>2, <5>1 DEF NoUserLine
      <4>. QED BY <4>1, <4>2
    <3>. QED BY <3>1 DEF NoUserLine
  <2>6. k \in 0..Len(r) /\ m \in 0..Len(o) BY <1>1, <2>1
  <2>7. KeptBy(r, k, o, m) BY <1>1, <2>4, <2>5, <2>6 DEF KeptBy
  <2>. QED BY <2>1, <2>7 DEF Keeps
<1>5. CASE ~(q <= n)
  <2>. DEFINE k == b - 1
              l == m + (q - n)
  <2>1. /\ k \in Nat /\ k <= Len(r) /\ Len(r) \in Nat /\ l \in Nat
        /\ Len(r) - k = Len(s) - q
    BY <1>1, <1>2, <1>3, <1>5
  <2>2. l <= Len(o) /\ Len(o) - l = Len(s) - q BY <1>1, <1>3, <1>5
  <2>3. ASSUME NEW i \in 1..(Len(r) - k) PROVE r[k + i] = o[l + i]
    <3>1. i \in Nat /\ i >= 1 /\ i <= Len(s) - q BY <2>1
    <3>2. k + i \in b..Len(r) /\ (k + i) + d = q + i BY <1>3, <2>1, <3>1
    <3>3. r[k + i] = s[q + i] BY <1>2, <3>2
    <3>4. (q - n) + i \in 1..(Len(s) - n) /\ n + ((q - n) + i) = q + i
          /\ m + ((q - n) + i) = l + i
      BY <1>1, <1>3, <1>5, <3>1
    <3>. HIDE DEF k, l
    <3>. QED BY <1>1, <3>3, <3>4
  <2>4. RestOf(r, k, o, l) BY <2>1, <2>2, <2>3 DEF RestOf
  <2>5. NoUserLine(r, k)
    <3>1. \A i \in 1..(b - 1) : i \in 1..n BY <1>3
    <3>. QED BY <1>1, <1>2, <3>1 DEF NoUserLine
  <2>6. NoUserLine(o, l)
    <3>1. ASSUME NEW i \in 1..l PROVE o[i].kind # "user"
      <4>1. CASE i <= m
        <5>1. i \in 1..m BY <4>1
        <5>. QED BY <1>1, <5>1 DEF NoUserLine
      <4>2. CASE ~(i <= m)
        <5>1. /\ i - m \in 1..(Len(s) - n) /\ m + (i - m) = i
              /\ n + (i - m) \in (n + 1)..q
          BY <1>1, <1>3, <1>5, <4>2
        <5>2. s[n + (i - m)] = o[i] BY <1>1, <5>1
        <5>. QED BY <5>1, <5>2, BlankKind
      <4>. QED BY <4>1, <4>2
    <3>. QED BY <3>1 DEF NoUserLine
  <2>. HIDE DEF k, l
  <2>7. k \in 0..Len(r) /\ l \in 0..Len(o) BY <1>1, <2>1, <2>2
  <2>8. KeptBy(r, k, o, l) BY <2>4, <2>5, <2>6, <2>7 DEF KeptBy
  <2>. QED BY <2>1, <2>8 DEF Keeps
<1>. QED BY <1>4, <1>5

LEMMA TrimmedKeeps ==
    ASSUME NEW s \in Seq(Lines), NEW o \in Seq(Lines), Keeps(s, o)
    PROVE  Keeps(TrimLeft(s), o)
<1>1. PICK k \in 0..Len(s) : IsLead(s, k) /\ TrimLeft(s) = SubSeq(s, k + 1, Len(s))
    BY Trimmed
<1>. DEFINE r == TrimLeft(s)
<1>2. r \in Seq(Lines) /\ Len(r) = Len(s) - k /\ \A i \in 1..(Len(s) - k) : r[i] = s[k + i]
    BY <1>1, SuffixIs
<1>3. CASE k = 0
  <2>1. r = s BY <1>1, <1>3, SubSeqFull
  <2>. QED BY <2>1
<1>4. CASE k # 0
  <2>. HIDE DEF r
  <2>1. Len(s) \in Nat BY LenProperties
  <2>2. PICK n \in Nat, m \in Nat : KeptBy(s, n, o, m) BY DEF Keeps
  <2>3. 1 \in 1..Len(s) /\ 1 <= n + 1 /\ k \in 1..Len(s) BY <1>4, <2>1
  <2>4. ASSUME NEW i \in (n + 1)..k PROVE s[i] = Blank
    <3>1. i \in 1..k OBVIOUS
    <3>. QED BY <1>1, <3>1 DEF IsLead
  <2>5. Without(r, s, 1, k)
    <3>1. k - 1 + 1 = k /\ 1..(1 - 1) = {} /\ Len(r) = Len(s) - k BY <1>2, <2>1
    <3>2. ASSUME NEW i \in 1..Len(r) PROVE r[i] = s[i + k]
      <4>1. i \in 1..(Len(s) - k) /\ k + i = i + k BY <2>1, <3>1
      <4>. QED BY <1>2, <4>1
    <3>. QED BY <1>2, <3>1, <3>2 DEF Without
  <2>6. Keeps(r, o) BY <2>2, <2>3, <2>4, <2>5, WithoutKeeps
  <2>. QED BY <2>6 DEF r
<1>. QED BY <1>3, <1>4

LEMMA RemovalKeeps ==
    ASSUME NEW s \in Seq(Lines), NEW o \in Seq(Lines), NoEnds(o), Keeps(s, o),
           NEW a \in Aliases, Stops(s, a) # {}
    PROVE  Keeps(removeManagedBlock(s, a), o)
<1>. DEFINE b == Min(Starts(s, a))
            e == Min(Stops(s, a))
            r == removeManagedBlock(s, a)
<1>1. PICK n \in Nat, m \in Nat : KeptBy(s, n, o, m) BY DEF Keeps
<1>2. /\ Len(s) \in Nat /\ Len(o) \in Nat /\ DOMAIN o = 1..Len(o)
      /\ n <= Len(s) /\ m <= Len(o) /\ Len(s) - n = Len(o) - m
      /\ \A i \in 1..(Len(s) - n) : s[n + i] = o[m + i]
      /\ NoUserLine(s, n) /\ NoUserLine(o, m)
    BY <1>1, LenProperties DEF KeptBy, RestOf
<1>3. /\ b \in 1..Len(s) /\ e \in 1..Len(s) /\ b < e /\ s[e].kind = "end"
    BY CutPlaces
<1>4. e <= n
  <2>. HIDE DEF b, e
  <2>. SUFFICES ASSUME ~(e <= n) PROVE FALSE OBVIOUS
  <2>1. e - n \in 1..(Len(s) - n) /\ n + (e - n) = e /\ m + (e - n) \in 1..Len(o)
    BY <1>2, <1>3
  <2>2. s[e] = o[m + (e - n)] BY <1>2, <2>1
  <2>. QED BY <1>2, <1>3, <2>1, <2>2 DEF NoEnds
<1>5. CASE s[e].name = a
  <2>1. PICK q \in e..Len(s) : /\ \A i \in (e + 1)..q : s[i] = Blank
                               /\ Without(r, s, b, q)
    BY <1>5, TurnRemoves
  <2>. HIDE DEF b, e, r
  <2>2. b <= n + 1 /\ q \in b..Len(s) BY <1>2, <1>3, <1>4
  <2>3. ASSUME NEW i \in (n + 1)..q PROVE s[i] = Blank
    <3>1. i \in (e + 1)..q BY <1>2, <1>3, <1>4
    <3>. QED BY <2>1, <3>1
  <2>4. Keeps(r, o) BY <1>1, <1>3, <2>1, <2>2, <2>3, WithoutKeeps
  <2>. QED BY <2>4 DEF r
<1>6. CASE s[e].name # a
  <2>1. /\ r \in Seq(Lines) /\ Len(r) = Len(s) - (e - b)
        /\ \A i \in 1..(b - 1) : r[i] = s[i]
        /\ r[b].kind = "tail"
        /\ \A i \in (b + 1)..Len(r) : r[i] = s[i + (e - b)]
    BY <1>6, TurnLeavesTail
  <2>. DEFINE d == e - b
              k == n - d
  <2>. HIDE DEF b, e, r
  <2>2. /\ d \in Nat /\ b \in Nat /\ b >= 1 /\ e = b + d /\ k \in Nat /\ b <= k /\ k + d = n
        /\ Len(r) \in Nat /\ k <= Len(r)
    <3>1. /\ b \in Nat /\ e \in Nat /\ b >= 1 /\ b < e /\ e <= n /\ n <= Len(s)
          /\ Len(s) \in Nat
      BY <1>2, <1>3, <1>4
    <3>2. Len(r) = Len(s) - (e - b) BY <2>1
    <3>. QED BY <3>1, <3>2
  <2>3. Len(r) - k = Len(s) - n BY <1>2, <2>1, <2>2
  <2>. HIDE DEF k
  <2>4. ASSUME NEW i \in 1..(Len(r) - k) PROVE r[k + i] = o[m + i]
    <3>1. i \in 1..(Len(s) - n) BY <2>3
    <3>2. i \in Nat /\ i >= 1 /\ i <= Len(r) - k BY <2>2
    <3>3. k + i \in (b + 1)..Len(r) BY <2>2, <3>2
    <3>4. r[k + i] = s[(k + i) + d] BY <2>1, <3>3
    <3>. HIDE DEF d
    <3>5. (k + i) + d = n + i BY <2>2, <3>2
    <3>. QED BY <1>2, <3>1, <3>4, <3>5
  <2>5. NoUserLine(r, k)
    <3>1. ASSUME NEW i \in 1..k PROVE r[i].kind # "user"
      <4>. i \in Nat /\ i >= 1 /\ i <= k BY <2>2
      <4>1. CASE i < b
        <5>1. i \in 1..(b - 1) /\ i \in 1..n BY <2>2, <4>1
        <5>. QED BY <1>2, <2>1, <5>1 DEF NoUserLine
      <4>2. CASE i = b BY <2>1, <4>2
      <4>3. CASE i > b
        <5>1. i \in (b + 1)..Len(r) /\ i + d \in 1..n BY <2>2, <4>3
        <5>2. r[i] = s[i + d] BY <2>1, <5>1
        <5>. QED BY <1>2, <5>1, <5>2 DEF NoUserLine
      <4>. QED BY <2>2, <4>1, <4>2, <4>3
    <3>. QED BY <3>1 DEF NoUserLine
  <2>6. RestOf(r, k, o, m) BY <1>2, <2>3, <2>4 DEF RestOf
  <2>7. k \in 0..Len(r) /\ m \in 0..Len(o) BY <1>2, <2>2
  <2>8. KeptBy(r, k, o, m) BY <1>2, <2>5, <2>6, <2>7 DEF KeptBy
  <2>9. Keeps(r, o) BY <2>2, <2>8 DEF Keeps
  <2>. QED BY <2>9 DEF r
<1>. QED BY <1>5, <1>6

LEMMA PrependKeeps ==
    ASSUME NEW s \in Seq(Lines), NEW o \in Seq(Lines), Keeps(s, o),
           NEW a \in Aliases, NEW p \in Ports
    PROVE  Keeps(prependManagedBlock(s, Block(a, p)), o)
<1>. DEFINE r == prependManagedBlock(s, Block(a, p))
<1>1. PICK k \in 0..Len(s) : IsLead(s, k) /\ Prepended(r, s, k, a, p) BY PrependIs
<1>. HIDE DEF r
<1>2. PICK n \in Nat, m \in Nat : KeptBy(s, n, o, m) BY DEF Keeps
<1>3. /\ Len(s) \in Nat /\ Len(o) \in Nat /\ n <= Len(s) /\ m <= Len(o)
      /\ Len(s) - n = Len(o) - m
      /\ \A i \in 1..(Len(s) - n) : s[n + i] = o[m + i]
      /\ NoUserLine(s, n) /\ NoUserLine(o, m)
    BY <1>2, LenProperties DEF KeptBy, RestOf
<1>4. /\ r \in Seq(Lines) /\ Len(r) \in Nat
      /\ k = Len(s) => Len(r) = 3
      /\ k < Len(s) => Len(r) = 4 + (Len(s) - k) /\ r[4] = Blank
      /\ \A i \in 1..(Len(s) - k) : r[4 + i] = s[k + i]
      /\ r[1].kind = "begin" /\ r[2].kind = "body" /\ r[3].kind = "end"
  <2>1. r \in Seq(Lines) BY <1>1 DEF Prepended
  <2>2. r[1].kind = "begin" /\ r[2].kind = "body" /\ r[3].kind = "end"
    BY <1>1 DEF Prepended, BlockIn, Line
  <2>. QED BY <1>1, <2>1, <2>2, LenProperties DEF Prepended
<1>5. \A i \in 1..k : s[i] = Blank BY <1>1 DEF IsLead
\* Nothing but blank lines was left.
<1>6. CASE k = Len(s)
  <2>1. Len(r) = 3 BY <1>4, <1>6
  <2>2. NoUserLine(r, 3)
    <3>1. \A i \in 1..3 : i = 1 \/ i = 2 \/ i = 3 OBVIOUS
    <3>. QED BY <1>4, <3>1 DEF NoUserLine
  <2>3. NoUserLine(o, Len(o))
    <3>1. ASSUME NEW i \in 1..Len(o) PROVE o[i].kind # "user"
      <4>1. CASE i <= m
        <5>1. i \in 1..m BY <4>1
        <5>. QED BY <1>3, <5>1 DEF NoUserLine
      <4>2. CASE ~(i <= m)
        <5>1. i - m \in 1..(Len(s) - n) /\ m + (i - m) = i /\ n + (i - m) \in 1..k
          BY <1>3, <1>6, <4>2
        <5>2. s[n + (i - m)] = o[i] BY <1>3, <5>1
        <5>. QED BY <1>5, <5>1, <5>2, BlankKind
      <4>. QED BY <4>1, <4>2
    <3>. QED BY <3>1 DEF NoUserLine
  <2>4. RestOf(r, 3, o, Len(o))
    <3>1. Len(r) - 3 = Len(o) - Len(o) /\ 1..(Len(r) - 3) = {} BY <1>3, <2>1
    <3>. QED BY <3>1 DEF RestOf
  <2>5. 3 \in 0..Len(r) /\ Len(o) \in 0..Len(o) /\ 3 \in Nat BY <1>3, <2>1
  <2>6. KeptBy(r, 3, o, Len(o)) BY <2>2, <2>3, <2>4, <2>5 DEF KeptBy
  <2>. QED BY <1>3, <2>5, <2>6 DEF Keeps, r
\* The block and a blank line precede what TrimLeft leaves.
<1>7. CASE k < Len(s)
  <2>. DEFINE t == TrimLeft(s)
  <2>1. Keeps(t, o) BY TrimmedKeeps
  <2>2. t \in Seq(Lines) /\ Len(t) = Len(s) - k /\ \A i \in 1..(Len(s) - k) : t[i] = s[k + i]
    <3>1. PICK x \in 0..Len(s) : IsLead(s, x) /\ t = SubSeq(s, x + 1, Len(s)) BY Trimmed
    <3>2. ~(k < x)
      <4>. SUFFICES ASSUME k < x PROVE FALSE OBVIOUS
      <4>1. k + 1 \in 1..x BY <1>3
      <4>. QED BY <1>1, <1>7, <3>1, <4>1 DEF IsLead
    <3>3. ~(x < k)
      <4>. SUFFICES ASSUME x < k PROVE FALSE OBVIOUS
      <4>1. x + 1 \in 1..k /\ x < Len(s) BY <1>3
      <4>. QED BY <1>1, <3>1, <4>1 DEF IsLead
    <3>4. k = x BY <1>3, <3>2, <3>3
    <3>. QED BY <3>1, <3>4, SuffixIs
  <2>. HIDE DEF t
  <2>3. PICK j \in Nat, l \in Nat : KeptBy(t, j, o, l) BY <2>1 DEF Keeps
  <2>4. /\ Len(t) \in Nat /\ j <= Len(t) /\ l <= Len(o)
        /\ Len(t) - j = Len(o) - l
        /\ \A i \in 1..(Len(t) - j) : t[j + i] = o[l + i]
        /\ NoUserLine(t, j) /\ NoUserLine(o, l)
    BY <2>2, <2>3, LenProperties DEF KeptBy, RestOf
  <2>5. Len(r) = 4 + Len(t) /\ r[4] = Blank BY <1>4, <1>7, <2>2
  <2>6. \A i \in 1..Len(t) : r[4 + i] = t[i] BY <1>4, <2>2
  <2>7. NoUserLine(r, 4 + j)
    <3>1. ASSUME NEW i \in 1..(4 + j) PROVE r[i].kind # "user"
      <4>1. CASE i \in 1..4
        <5>1. i = 1 \/ i = 2 \/ i = 3 \/ i = 4 BY <4>1
        <5>. QED BY <1>4, <2>5, <5>1, BlankKind
      <4>2. CASE i \notin 1..4
        <5>1. i - 4 \in 1..j /\ i - 4 \in 1..Len(t) /\ 4 + (i - 4) = i BY <2>4, <4>2
        <5>2. r[i] = t[i - 4] BY <2>6, <5>1
        <5>. QED BY <2>4, <5>1, <5>2 DEF NoUserLine
      <4>. QED BY <4>1, <4>2
    <3>. QED BY <3>1 DEF NoUserLine
  <2>8. RestOf(r, 4 + j, o, l)
    <3>1. Len(r) - (4 + j) = Len(t) - j BY <2>4, <2>5
    <3>2. ASSUME NEW i \in 1..(Len(r) - (4 + j)) PROVE r[(4 + j) + i] = o[l + i]
      <4>1. i \in 1..(Len(t) - j) BY <3>1
      <4>2. j + i \in 1..Len(t) /\ 4 + (j + i) = (4 + j) + i BY <2>4, <4>1
      <4>3. r[4 + (j + i)] = t[j + i] BY <2>6, <4>2
      <4>. QED BY <2>4, <4>1, <4>2, <4>3
    <3>. QED BY <2>4, <3>1, <3>2 DEF RestOf
  <2>9. 4 + j \in Nat /\ 4 + j \in 0..Len(r) /\ l \in 0..Len(o) BY <1>3, <2>4, <2>5
  <2>10. KeptBy(r, 4 + j, o, l) BY <2>4, <2>7, <2>8, <2>9 DEF KeptBy
  <2>. QED BY <2>9, <2>10 DEF Keeps, r
<1>8. k = Len(s) \/ k < Len(s) BY LenProperties
<1>. QED BY <1>6, <1>7, <1>8

LEMMA UpdatedKeeps ==
    ASSUME TypeOK, OpInv, NEW c \in Commands, pc[c] = "remove", Keeps(new[c], original)
    PROVE  Keeps(Updated(c), original)
<1>. DEFINE a == op[c].alias
            p == op[c].port
            bare == NoBlockLeft(new[c], a)
<1>1. /\ a \in Aliases /\ p \in Ports \cup {0} /\ new[c] \in Seq(Lines)
      /\ original \in Seq(Lines)
    BY FileAssumption DEF TypeOK, OpInv
<1>2. bare \in Seq(Lines) BY <1>1, NoBlockLeftTyped
<1>3. Keeps(bare, original) BY <1>1, TrimmedKeeps DEF NoBlockLeft
<1>4. CASE p = 0 BY <1>3, <1>4 DEF Updated
<1>5. CASE p # 0
  <2>1. Updated(c) = prependManagedBlock(bare, Block(a, p)) BY <1>5 DEF Updated
  <2>2. p \in Ports BY <1>1, <1>5
  <2>. HIDE DEF a, p, bare
  <2>3. Keeps(prependManagedBlock(bare, Block(a, p)), original)
    BY <1>1, <1>2, <1>3, <2>2, PrependKeeps
  <2>. QED BY <2>1, <2>3
<1>. QED BY <1>4, <1>5

LEMMA StepKept ==
    ASSUME NoEnds(original), TypeOK, OpInv, KeptInv, [Next]_vars
    PROVE  KeptInv'
<1>. SUFFICES ASSUME ~disturbed' PROVE KeptInv'
    BY DEF KeptInv
<1>. USE DEF TypeOK
<1>0. original \in Seq(Lines) BY FileAssumption
<1>1. ASSUME NEW c \in Commands, ~disturbed, pc[c] # "idle"
      PROVE  \A d \in Commands : d # c => pc[d] = "idle"
    BY <1>1 DEF KeptInv
<1>2. ASSUME NEW c \in Commands, NEW a \in Aliases, NEW p \in Ports \cup {0}, Call(c, a, p)
      PROVE  KeptInv'
  <2>1. /\ ~disturbed /\ file' = file /\ original' = original
        /\ \A d \in Commands : pc[d] = "idle"
        /\ \A d \in Commands : pc'[d] = IF d = c THEN "read" ELSE "idle"
    BY <1>2 DEF Call, Disturb
  <2>2. Keeps(file, original) BY <2>1 DEF KeptInv
  <2>. QED BY <2>1, <2>2 DEF KeptInv
<1>3. ASSUME NEW c \in Commands, Read(c) PROVE KeptInv'
  <2>1. /\ ~disturbed /\ file' = file /\ original' = original /\ pc[c] = "read"
        /\ \A d \in Commands : d # c => pc[d] = "idle"
        /\ \A d \in Commands : pc'[d] = IF d = c THEN "remove" ELSE "idle"
        /\ new'[c] = file
    BY <1>1, <1>3 DEF Read
  <2>2. \A d \in Commands : pc[d] # "write" BY <2>1
  <2>3. Keeps(file, original) BY <2>1, <2>2 DEF KeptInv
  <2>. QED BY <2>1, <2>3 DEF KeptInv
<1>4. ASSUME NEW c \in Commands, RemoveBlock(c) PROVE KeptInv'
  <2>1. /\ ~disturbed /\ file' = file /\ original' = original /\ pc' = pc
        /\ pc[c] = "remove" /\ Stops(new[c], op[c].alias) # {}
        /\ \A d \in Commands : d # c => pc[d] = "idle"
        /\ new'[c] = removeManagedBlock(new[c], op[c].alias)
    BY <1>1, <1>4 DEF RemoveBlock
  <2>2. op[c].alias \in Aliases /\ new[c] \in Seq(Lines) BY <2>1 DEF OpInv
  <2>3. Keeps(new[c], original) BY <2>1 DEF KeptInv
  <2>4. Keeps(new'[c], original) BY <1>0, <2>1, <2>2, <2>3, RemovalKeeps
  <2>5. \A d \in Commands : pc[d] # "write" BY <2>1
  <2>6. Keeps(file, original) BY <2>1, <2>5 DEF KeptInv
  <2>. QED BY <2>1, <2>4, <2>6 DEF KeptInv
<1>5. ASSUME NEW c \in Commands, Update(c) PROVE KeptInv'
  <2>1. /\ ~disturbed /\ file' = file /\ original' = original /\ pc[c] = "remove"
        /\ \A d \in Commands : d # c => pc[d] = "idle"
        /\ \/ pc' = [pc EXCEPT ![c] = "idle"]
           \/ pc' = [pc EXCEPT ![c] = "truncate"] /\ new' = [new EXCEPT ![c] = Updated(c)]
    BY <1>1, <1>5 DEF Update, Done
  <2>2. Keeps(Updated(c), original) BY <2>1, UpdatedKeeps DEF KeptInv
  <2>3. \A d \in Commands : pc[d] # "write" BY <2>1
  <2>4. Keeps(file, original) BY <2>1, <2>3 DEF KeptInv
  <2>. QED BY <2>1, <2>2, <2>4 DEF KeptInv
<1>6. ASSUME NEW c \in Commands, Truncate(c) PROVE KeptInv'
  <2>1. /\ ~disturbed /\ original' = original /\ new' = new /\ pc[c] = "truncate"
        /\ \A d \in Commands : d # c => pc[d] = "idle"
        /\ \A d \in Commands : pc'[d] = IF d = c THEN "write" ELSE "idle"
    BY <1>1, <1>6 DEF Truncate
  <2>2. Keeps(new[c], original) BY <2>1 DEF KeptInv
  <2>. QED BY <2>1, <2>2 DEF KeptInv
<1>7. ASSUME NEW c \in Commands, Write(c) PROVE KeptInv'
  <2>1. ~disturbed /\ pc[c] = "write" BY <1>7 DEF Write
  <2>2. /\ original' = original /\ file' = new[c]
        /\ \A d \in Commands : pc'[d] = "idle"
    BY <1>1, <1>7, <2>1 DEF Write, Done
  <2>3. Keeps(new[c], original) BY <2>1 DEF KeptInv
  <2>. QED BY <2>2, <2>3 DEF KeptInv
<1>8. ASSUME NEW c \in Commands, Crash(c) PROVE KeptInv'
  <2>1. ~disturbed /\ pc[c] # "write" /\ pc[c] # "idle" BY <1>8 DEF Crash, Disturb
  <2>2. /\ original' = original /\ file' = file
        /\ \A d \in Commands : d # c => pc[d] = "idle"
        /\ \A d \in Commands : pc'[d] = "idle"
    BY <1>1, <1>8, <2>1 DEF Crash, Done
  <2>3. \A d \in Commands : pc[d] # "write" BY <2>1, <2>2
  <2>4. Keeps(file, original) BY <2>1, <2>3 DEF KeptInv
  <2>. QED BY <2>2, <2>4 DEF KeptInv
<1>9. CASE UNCHANGED vars BY <1>9 DEF vars, KeptInv
<1>. QED BY <1>2, <1>3, <1>4, <1>5, <1>6, <1>7, <1>8, <1>9 DEF Next

LEMMA KeptInvariant ==
    ASSUME \A o \in Originals : NoEnds(o)
    PROVE  Spec => [](TypeOK /\ OpInv /\ KeptInv)
<1>1. Init => KeptInv
  <2>. SUFFICES ASSUME Init PROVE KeptInv OBVIOUS
  <2>1. original \in Seq(Lines) /\ file = original BY FileAssumption DEF Init
  <2>2. Len(original) \in Nat /\ 0 \in 0..Len(original) /\ 1..0 = {}
    BY <2>1, LenProperties
  <2>3. RestOf(original, 0, original, 0) BY <2>2 DEF RestOf
  <2>4. KeptBy(original, 0, original, 0) BY <2>2, <2>3 DEF KeptBy, NoUserLine
  <2>5. Keeps(file, original) BY <2>1, <2>4 DEF Keeps
  <2>. QED BY <2>5 DEF Init, KeptInv
<1>2. TypeOK /\ OpInv /\ KeptInv /\ [Next]_vars => KeptInv'
  <2>. SUFFICES ASSUME TypeOK, OpInv, KeptInv, [Next]_vars PROVE KeptInv' OBVIOUS
  <2>1. NoEnds(original) BY DEF TypeOK
  <2>. QED BY <2>1, StepKept
<1>. QED BY <1>1, <1>2, InitTyped, StepTyped, PTL DEF Spec

\* Every line of the user survives any sequence of connects, disconnects and kills
\* outside the write itself, in its place, also when aliases are prefixes of each
\* other.  The user's original holds no end marker; it may hold begin markers.
THEOREM UserLines ==
    ASSUME \A o \in Originals : NoEnds(o)
    PROVE  Spec => []UserLinesKept
<1>1. TypeOK /\ KeptInv => UserLinesKept
  <2>. SUFFICES ASSUME TypeOK, KeptInv, Settled
                PROVE  \E n \in 0..Len(file), m \in 0..Len(original) :
                           /\ SubSeq(file, n + 1, Len(file))
                                  = SubSeq(original, m + 1, Len(original))
                           /\ NoUserLine(file, n) /\ NoUserLine(original, m)
    BY DEF UserLinesKept
  <2>1. /\ file \in Seq(Lines) /\ original \in Seq(Lines) /\ Keeps(file, original)
    BY FileAssumption DEF TypeOK, KeptInv, Settled
  <2>2. PICK n \in Nat, m \in Nat : KeptBy(file, n, original, m)
    BY <2>1 DEF Keeps
  <2>3. /\ n \in 0..Len(file) /\ m \in 0..Len(original)
        /\ NoUserLine(file, n) /\ NoUserLine(original, m)
        /\ Len(file) - n = Len(original) - m
        /\ \A i \in 1..(Len(file) - n) : file[n + i] = original[m + i]
    BY <2>2 DEF KeptBy, RestOf
  <2>4. SubSeq(file, n + 1, Len(file)) = SubSeq(original, m + 1, Len(original))
    <3>. DEFINE u == SubSeq(file, n + 1, Len(file))
                v == SubSeq(original, m + 1, Len(original))
    <3>1. /\ u \in Seq(Lines) /\ Len(u) = Len(file) - n
          /\ \A i \in 1..(Len(file) - n) : u[i] = file[n + i]
      BY <2>1, <2>3, SuffixIs
    <3>2. /\ v \in Seq(Lines) /\ Len(v) = Len(original) - m
          /\ \A i \in 1..(Len(original) - m) : v[i] = original[m + i]
      BY <2>1, <2>3, SuffixIs
    <3>. HIDE DEF u, v
    <3>3. Len(u) = Len(v) /\ \A i \in 1..Len(u) : u[i] = v[i] BY <2>3, <3>1, <3>2
    <3>4. u = v BY <3>1, <3>2, <3>3, SeqEqual
    <3>. QED BY <3>4 DEF u, v
  <2>. QED BY <2>3, <2>4
<1>. QED BY <1>1, KeptInvariant, PTL

-----------------------------------------------------------------------------
(* Between the commands, if no alias is a prefix of another one. *)

\* The converse of BlockAtEnds.
LEMMA BlockInAt ==
    ASSUME file \in Seq(Lines), NEW a, NEW p, NEW i \in 1..Len(file), i + 2 \in 1..Len(file),
           BlockIn(file, i, a, p)
    PROVE  i \in BlockAt(a, p)
<1>1. Len(file) \in Nat /\ DOMAIN file = 1..Len(file) BY LenProperties
<1>. DEFINE u == SubSeq(file, i, i + 2)
            v == Block(a, p)
<1>2. \A j \in i..(i + 2) : file[j] \in Lines
  <2>. SUFFICES ASSUME NEW j \in i..(i + 2) PROVE file[j] \in Lines OBVIOUS
  <2>1. j \in 1..Len(file) BY <1>1
  <2>. QED BY <2>1, ElementOfSeq
<1>3. /\ u \in Seq(Lines)
      /\ Len(u) = IF i <= i + 2 THEN (i + 2) - i + 1 ELSE 0
      /\ \A j \in 1..((i + 2) - i + 1) : u[j] = file[i + j - 1]
  <2>1. i \in Int /\ i + 2 \in Int BY <1>1
  <2>. QED BY <1>2, <2>1, SubSeqProperties
<1>. HIDE DEF u
<1>4. Len(u) = 3 /\ u[1] = file[i] /\ u[2] = file[i + 1] /\ u[3] = file[i + 2]
  <2>1. /\ 1 \in 1..((i + 2) - i + 1) /\ 2 \in 1..((i + 2) - i + 1)
        /\ 3 \in 1..((i + 2) - i + 1)
        /\ i + 1 - 1 = i /\ i + 2 - 1 = i + 1 /\ i + 3 - 1 = i + 2
        /\ i <= i + 2 /\ (i + 2) - i + 1 = 3
    BY <1>1
  <2>2. u[1] = file[i + 1 - 1] /\ u[2] = file[i + 2 - 1] /\ u[3] = file[i + 3 - 1]
    BY <1>3, <2>1
  <2>. QED BY <1>3, <2>1, <2>2
<1>5. /\ file[i] = Line("begin", a, 0) /\ file[i + 1] = Line("body", a, p)
      /\ file[i + 2] = Line("end", a, 0)
    BY DEF BlockIn
<1>6. v = <<file[i], file[i + 1], file[i + 2]>> BY <1>5 DEF Block
<1>7. file[i] \in Lines /\ file[i + 1] \in Lines /\ file[i + 2] \in Lines
  <2>1. i \in i..(i + 2) /\ i + 1 \in i..(i + 2) /\ i + 2 \in i..(i + 2) BY <1>1
  <2>. QED BY <1>2, <2>1
<1>. HIDE DEF v
<1>8. /\ v \in Seq(Lines) /\ Len(v) = 3
      /\ v[1] = file[i] /\ v[2] = file[i + 1] /\ v[3] = file[i + 2]
    BY <1>6, <1>7
<1>9. \A j \in 1..Len(u) : u[j] = v[j] BY <1>4, <1>8
<1>10. u = v BY <1>3, <1>4, <1>8, <1>9, SeqEqual
<1>11. i + 2 <= Len(file) BY <1>1
<1>. QED BY <1>1, <1>10, <1>11 DEF BlockAt, u, v

\* ssh resolves an alias to the port of its last connect, and only while it is
\* connected, if no alias is a prefix of another one and the user's original holds
\* no end marker.
THEOREM Blocks ==
    ASSUME \A a \in Aliases : ExtendedBy[a] = {}, \A o \in Originals : NoEnds(o)
    PROVE  Spec => []BlocksAsWanted
<1>1. TypeOK /\ SoloInv => BlocksAsWanted
  <2>. SUFFICES ASSUME TypeOK, SoloInv, Settled, NEW a \in Aliases, NEW p \in Ports
                PROVE  Cardinality(BlockAt(a, p)) = IF wanted[a] = p THEN 1 ELSE 0
    BY DEF BlocksAsWanted
  <2>1. file \in Seq(Lines) /\ Managed(file, wanted) /\ Tidy(file)
    BY SettledIsGood DEF GoodFor, Managed
  <2>2. Len(file) \in Nat /\ DOMAIN file = 1..Len(file) BY <2>1, LenProperties
  <2>3. p # 0 BY FileAssumption
  <2>4. ASSUME NEW j \in BlockAt(a, p)
        PROVE  /\ j \in Nat /\ j + 2 \in DOMAIN file
               /\ file[j + 2].kind = "end" /\ file[j + 2].name = a
               /\ wanted[a] = p
    <3>1. j \in Nat /\ j + 2 \in DOMAIN file /\ BlockIn(file, j, a, p)
      BY <2>1, BlockAtEnds
    <3>2. file[j + 2].kind = "end" /\ file[j + 2].name = a BY <3>1 DEF BlockIn, Line
    <3>3. BlockIn(file, (j + 2) - 2, a, wanted[a]) BY <2>1, <3>1, <3>2 DEF Managed
    <3>4. (j + 2) - 2 = j BY <3>1
    <3>5. file[j + 1] = Line("body", a, wanted[a]) /\ file[j + 1] = Line("body", a, p)
      BY <3>1, <3>3, <3>4 DEF BlockIn
    <3>6. wanted[a] = p BY <3>5 DEF Line
    <3>. QED BY <3>1, <3>2, <3>6
  <2>5. CASE wanted[a] = p
    <3>1. PICK i \in DOMAIN file : file[i].kind = "end" /\ file[i].name = a
      BY <2>1, <2>3, <2>5 DEF Managed
    <3>2. i > 2 /\ BlockIn(file, i - 2, a, p) BY <2>1, <2>5, <3>1 DEF Managed, Tidy, Closed
    <3>3. i - 2 \in 1..Len(file) /\ (i - 2) + 2 \in 1..Len(file) BY <2>2, <3>1, <3>2
    <3>4. i - 2 \in BlockAt(a, p) BY <2>1, <3>2, <3>3, BlockInAt
    <3>5. ASSUME NEW j \in BlockAt(a, p) PROVE j = i - 2
      <4>1. j + 2 = i BY <2>1, <2>4, <3>1 DEF Tidy, EndsOnce
      <4>2. j \in Nat BY <2>4
      <4>. QED BY <4>1, <4>2
    <3>6. BlockAt(a, p) = {i - 2} BY <3>4, <3>5
    <3>. QED BY <2>5, <3>6, FS_Singleton
  <2>6. CASE wanted[a] # p
    <3>1. BlockAt(a, p) = {} BY <2>4, <2>6
    <3>. QED BY <2>6, <3>1, FS_EmptySet
  <2>. QED BY <2>5, <2>6
<1>. QED BY <1>1, SoloInvariant, PTL

\* Connecting and disconnecting leaves no trace but the blank lines that the
\* user's original may begin with, if no alias is a prefix of another one and the
\* original holds no end marker.
THEOREM Restored ==
    ASSUME \A a \in Aliases : ExtendedBy[a] = {}, \A o \in Originals : NoEnds(o)
    PROVE  Spec => []OriginalRestored
<1>1. TypeOK /\ SoloInv => OriginalRestored
  <2>. SUFFICES ASSUME TypeOK, SoloInv, Settled, \A a \in Aliases : wanted[a] = 0
                PROVE  file \in {original, TrimLeft(original)}
    BY DEF OriginalRestored
  <2>1. /\ file \in Seq(Lines) /\ original \in Seq(Lines)
        /\ GoodFor(file, original, wanted)
    BY SettledIsGood
  <2>2. PICK n \in Nat, m \in Nat : ShapedBy(file, n, original, m)
    BY <2>1 DEF GoodFor, Shape
  <2>3. Len(file) \in Nat /\ DOMAIN file = 1..Len(file) /\ Len(original) \in Nat
    BY <2>1, LenProperties
  <2>4. /\ n \in 0..Len(file) /\ m \in 0..Len(original) /\ HeadOf(file, n)
        /\ Len(file) - n = Len(original) - m
        /\ \A i \in 1..(Len(file) - n) : file[n + i] = original[m + i]
        /\ IsLead(original, m) \/ m = 0
    BY <2>2 DEF ShapedBy, RestOf
  <2>5. \A i \in DOMAIN file : file[i].kind # "end"
    <3>1. 0 \notin Ports BY FileAssumption
    <3>. QED BY <2>1, <3>1 DEF GoodFor, Managed
  <2>6. n = 0
    <3>. SUFFICES ASSUME n # 0 PROVE FALSE OBVIOUS
    <3>1. 1 \in 1..n /\ file[1].kind = "begin" BY <2>4 DEF HeadOf
    <3>2. 1 + 2 <= n /\ file[1 + 2].kind = "end" BY <2>4, <3>1 DEF HeadOf
    <3>3. 1 + 2 \in DOMAIN file BY <2>3, <2>4, <3>2
    <3>. QED BY <2>5, <3>2, <3>3
  <2>7. /\ Len(file) = Len(original) - m
        /\ \A i \in 1..Len(file) : file[i] = original[m + i]
    <3>1. Len(file) = Len(original) - m /\ Len(file) - n = Len(file) BY <2>3, <2>4, <2>6
    <3>2. ASSUME NEW i \in 1..Len(file) PROVE file[i] = original[m + i]
      <4>1. i \in 1..(Len(file) - n) /\ n + i = i BY <2>3, <2>6
      <4>. QED BY <2>4, <4>1
    <3>. QED BY <3>1, <3>2
  <2>. DEFINE v == SubSeq(original, m + 1, Len(original))
  <2>8. file = v
    <3>1. /\ v \in Seq(Lines) /\ Len(v) = Len(original) - m
          /\ \A i \in 1..(Len(original) - m) : v[i] = original[m + i]
      BY <2>1, <2>4, SuffixIs
    <3>. HIDE DEF v
    <3>2. Len(v) = Len(file) /\ \A i \in 1..Len(file) : file[i] = v[i] BY <2>7, <3>1
    <3>. QED BY <2>1, <3>1, <3>2, SeqEqual
  <2>9. CASE m = 0
    <3>1. v = original BY <2>1, <2>9, SubSeqFull
    <3>. QED BY <2>8, <3>1
  <2>10. CASE IsLead(original, m)
    <3>1. PICK k \in 0..Len(original) :
              IsLead(original, k) /\ TrimLeft(original) = SubSeq(original, k + 1, Len(original))
      BY <2>1, Trimmed
    <3>2. ~(k < m)
      <4>. SUFFICES ASSUME k < m PROVE FALSE OBVIOUS
      <4>1. k + 1 \in 1..m /\ k < Len(original) BY <2>3, <2>4
      <4>. QED BY <2>10, <3>1, <4>1 DEF IsLead
    <3>3. ~(m < k)
      <4>. SUFFICES ASSUME m < k PROVE FALSE OBVIOUS
      <4>1. m + 1 \in 1..k /\ m < Len(original) BY <2>3, <2>4
      <4>. QED BY <2>10, <3>1, <4>1 DEF IsLead
    <3>4. k = m BY <2>3, <3>2, <3>3
    <3>. QED BY <2>8, <3>1, <3>4
  <2>. QED BY <2>4, <2>9, <2>10
<1>. QED BY <1>1, SoloInvariant, PTL
=============================================================================
