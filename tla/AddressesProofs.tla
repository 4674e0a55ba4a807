---------------------------- MODULE AddressesProofs ----------------------------
(***************************************************************************)
(* Proofs about Addresses, for any text, number of groups and way of        *)
(* reading a run of letters and digits.                                     *)
(*                                                                         *)
(* What a text lists is said once for all of it; the parser finds it group  *)
(* by group, and does not know where the list ends.  The invariant says     *)
(* what its walk has taken: the groups listed from Start up to pos, and      *)
(* before that, if it is past it, the list before the first "::".  What is   *)
(* stored then rests on the spelling of the host being undone by Bare.       *)
(***************************************************************************)
EXTENDS Addresses, FiniteSetTheorems, SequenceTheorems, WellFoundedInduction, TLAPS

-----------------------------------------------------------------------------
(* What a text lists. *)

\* A set of numbers that is not empty has a least one.
LEMMA LeastNumber ==
  ASSUME NEW S, S \subseteq Nat, S # {}
  PROVE  \E m \in S : \A n \in S : m <= n
<1>1. \E m \in S : \A n \in S : ~(<<n, m>> \in OpToRel(<, Nat))
  BY WFMin, NatLessThanWellFounded
<1>2. ASSUME NEW m \in S, NEW n \in S, n < m
      PROVE  <<n, m>> \in OpToRel(<, Nat)
  <2>1. <<n, m>> \in Nat \X Nat /\ <<n, m>>[1] < <<n, m>>[2]
    BY <1>2
  <2> QED
    BY <2>1 DEF OpToRel
<1>3. \E m \in S : \A n \in S : ~(n < m)
  BY <1>1, <1>2, Zenon
<1> QED
  BY <1>3

\* The first of some places.
LEMMA EarliestIsFirst ==
  ASSUME NEW set \in SUBSET Nat, set # {}
  PROVE  Earliest(set) \in set /\ \A j \in set : Earliest(set) <= j
BY LeastNumber, Zenon DEF Earliest

\* Up to a sign is all of a text, or the part before the sign comes.
LEMMA UpToIsBefore ==
  ASSUME NEW S, NEW t \in Seq(S), NEW sign
  PROVE  /\ UpTo(t, sign) \in Seq(S)
         /\ Len(UpTo(t, sign)) <= Len(t)
         /\ \A i \in 1..Len(UpTo(t, sign)) : UpTo(t, sign)[i] = t[i] /\ t[i] # sign
         /\ \/ UpTo(t, sign) = t
            \/ Len(UpTo(t, sign)) < Len(t) /\ t[Len(UpTo(t, sign)) + 1] = sign
<1>1. CASE Places(t, sign) = {}
  <2>1. UpTo(t, sign) = t
    BY <1>1 DEF UpTo
  <2>2. \A i \in 1..Len(t) : t[i] # sign
    BY <1>1, LenProperties DEF Places
  <2>3. QED
    BY <2>1, <2>2, LenProperties
<1>2. CASE Places(t, sign) # {}
  <2> DEFINE e == Earliest(Places(t, sign))
  <2>1. Places(t, sign) \in SUBSET Nat
    BY LenProperties DEF Places
  <2>2. e \in Places(t, sign) /\ \A j \in Places(t, sign) : e <= j
    BY <1>2, <2>1, EarliestIsFirst
  <2>3. e \in 1..Len(t) /\ t[e] = sign /\ \A i \in 1..Len(t) : t[i] = sign => e <= i
    BY <2>2, LenProperties DEF Places
  <2> HIDE DEF e
  <2>4. UpTo(t, sign) = SubSeq(t, 1, e - 1)
    BY <1>2 DEF UpTo, e
  <2>5. \A i \in 1..(e - 1) : t[i] \in S
    BY <2>3, LenProperties, ElementOfSeq
  <2>6. Len(t) \in Nat
    BY LenProperties
  <2>7. /\ SubSeq(t, 1, e - 1) \in Seq(S)
        /\ Len(SubSeq(t, 1, e - 1)) = e - 1
        /\ \A i \in 1..(e - 1) : SubSeq(t, 1, e - 1)[i] = t[i]
    BY <2>3, <2>5, <2>6, SubSeqProperties
  <2>8. QED
    BY <2>3, <2>4, <2>6, <2>7
<1>3. QED
  BY <1>1, <1>2

LEMMA FromIsRest ==
  ASSUME NEW S, NEW t \in Seq(S), NEW i \in 1..Len(t)
  PROVE  /\ From(t, i) \in Seq(S)
         /\ Len(From(t, i)) = Len(t) - i + 1
         /\ \A k \in 1..(Len(t) - i + 1) : From(t, i)[k] = t[i + k - 1]
<1>1. Len(t) \in Nat /\ \A k \in i..Len(t) : t[k] \in S
  BY LenProperties, ElementOfSeq
<1>2. /\ SubSeq(t, i, Len(t)) \in Seq(S)
      /\ Len(SubSeq(t, i, Len(t))) = IF i <= Len(t) THEN Len(t) - i + 1 ELSE 0
      /\ \A k \in 1..(Len(t) - i + 1) : SubSeq(t, i, Len(t))[k] = t[i + k - 1]
  BY <1>1, SubSeqProperties
<1>3. QED
  BY <1>1, <1>2 DEF From

\* A dotted tail has a dot and no colon before it.
LEMMA DottedMeansDotFirst ==
  ASSUME NEW S, NEW t \in Seq(S), NEW i \in 1..Len(t)
  PROVE  Dotted(t, i) <=> \E k \in i..Len(t) : t[k] = "." /\ \A l \in i..k : t[l] # ":"
<1> DEFINE r == From(t, i)
           u == UpTo(r, ":")
<1>1. /\ r \in Seq(S) /\ Len(r) = Len(t) - i + 1 /\ Len(t) \in Nat
      /\ \A k \in 1..(Len(t) - i + 1) : r[k] = t[i + k - 1]
  BY FromIsRest, LenProperties
<1> HIDE DEF r
<1>2. /\ u \in Seq(S) /\ Len(u) <= Len(r) /\ Len(u) \in Nat
      /\ \A k \in 1..Len(u) : u[k] = r[k] /\ r[k] # ":"
      /\ u = r \/ (Len(u) < Len(r) /\ r[Len(u) + 1] = ":")
  BY <1>1, UpToIsBefore, LenProperties
<1> HIDE DEF u
<1>3. Dotted(t, i) <=> \E k \in 1..Len(u) : u[k] = "."
  BY <1>2, LenProperties DEF Dotted, Places, u, r
<1>4. ASSUME NEW k \in 1..Len(u), u[k] = "."
      PROVE  \E m \in i..Len(t) : t[m] = "." /\ \A l \in i..m : t[l] # ":"
  <2>1. i + k - 1 \in i..Len(t) /\ t[i + k - 1] = "."
    BY <1>1, <1>2, <1>4
  <2>2. ASSUME NEW l \in i..(i + k - 1) PROVE t[l] # ":"
    <3>1. l - i + 1 \in 1..Len(u)
      BY <1>1, <1>2
    <3>2. r[l - i + 1] = t[l] /\ r[l - i + 1] # ":"
      BY <1>1, <1>2, <3>1
    <3>3. QED
      BY <3>2
  <2>3. QED
    BY <2>1, <2>2
<1>5. ASSUME NEW m \in i..Len(t), t[m] = ".", \A l \in i..m : t[l] # ":"
      PROVE  \E k \in 1..Len(u) : u[k] = "."
  <2>1. m - i + 1 \in 1..Len(r) /\ r[m - i + 1] = "."
    BY <1>1, <1>5
  <2>2. m - i + 1 <= Len(u)
    <3>1. SUFFICES ASSUME Len(u) < m - i + 1 PROVE FALSE
      BY <1>2
    <3>2. Len(u) < Len(r) /\ r[Len(u) + 1] = ":"
      BY <1>1, <1>2, <2>1, <3>1
    <3>3. i + Len(u) \in i..m /\ r[Len(u) + 1] = t[i + Len(u)]
      BY <1>1, <1>2, <3>1
    <3>4. QED
      BY <1>5, <3>2, <3>3
  <2>3. QED
    BY <1>2, <2>1, <2>2
<1>6. QED
  BY <1>3, <1>4, <1>5

LEMMA GroupsAreNumbers ==
  ASSUME NEW sign, IsGroup(sign)
  PROVE  HexOf[sign] \in Nat /\ sign \in Runs
BY RunsAreNumbers DEF IsGroup

LEMMA HalfOfDouble == \A n \in Nat : (2 * n) \div 2 = n
OBVIOUS

\* Groups before colons are as many numbers of 16 bits.
LEMMA HexGroupsAreGroups ==
  ASSUME NEW t, NEW i \in Nat, NEW n \in Nat, Alternate(t, i, n)
  PROVE  HexGroups(t, i, n) \in Seq(Nat) /\ Len(HexGroups(t, i, n)) = n
<1>1. ASSUME NEW k \in 1..n PROVE HexOf[t[i + 2 * k - 2]] \in Nat
  BY GroupsAreNumbers DEF Alternate
<1>2. [k \in 1..n |-> HexOf[t[i + 2 * k - 2]]] \in [1..n -> Nat]
  BY <1>1
<1>3. QED
  BY <1>2 DEF HexGroups

LEMMA HexGroupsGrow ==
  ASSUME NEW t, NEW i \in Nat, NEW n \in Nat,
         Alternate(t, i, n), IsGroup(t[i + 2 * n])
  PROVE  /\ t[i + 2 * n + 1] = ":" => Alternate(t, i, n + 1)
         /\ HexGroups(t, i, n + 1) = HexGroups(t, i, n) \o <<HexOf[t[i + 2 * n]]>>
<1>1. t[i + 2 * n + 1] = ":" => Alternate(t, i, n + 1)
  BY DEF Alternate
<1>2. HexGroups(t, i, n) \in Seq(Nat) /\ Len(HexGroups(t, i, n)) = n
  BY HexGroupsAreGroups
<1>3. HexOf[t[i + 2 * n]] \in Nat
  BY GroupsAreNumbers
<1> DEFINE old == HexGroups(t, i, n)
           more == HexOf[t[i + 2 * n]]
<1>4. \A k \in 1..(n + 1) : HexOf[t[i + 2 * k - 2]] = IF k = n + 1 THEN more ELSE old[k]
  <2>1. \A k \in 1..n : old[k] = HexOf[t[i + 2 * k - 2]]
    BY DEF HexGroups
  <2>2. i + 2 * (n + 1) - 2 = i + 2 * n
    OBVIOUS
  <2>3. QED
    BY <2>1, <2>2
<1>5. HexGroups(t, i, n + 1) = [k \in 1..(n + 1) |-> IF k = n + 1 THEN more ELSE old[k]]
  BY <1>4 DEF HexGroups
<1> HIDE DEF old, more
<1>6. old \o <<more>> = [k \in 1..(n + 1) |-> IF k = n + 1 THEN more ELSE old[k]]
  BY <1>2, <1>3 DEF old, more
<1>7. QED
  BY <1>1, <1>5, <1>6 DEF old, more

LEMMA Halves == \A d \in Nat : \E h \in Nat : d = 2 * h \/ d = 2 * h + 1
<1>1. SUFFICES ASSUME NEW d \in Nat PROVE \E h \in Nat : d = 2 * h \/ d = 2 * h + 1
  OBVIOUS
<1>2. d \div 2 \in Nat /\ (d = 2 * (d \div 2) \/ d = 2 * (d \div 2) + 1)
  OBVIOUS
<1>3. QED
  BY <1>2

LEMMA SignsAreNoGroups ==
  /\ "." \notin Runs /\ ":" \notin Runs /\ "%" \notin Runs /\ "[" \notin Runs /\ "]" \notin Runs
  /\ ~IsGroup(".") /\ ~IsGroup(":")
BY RunsAreNoSigns DEF IsGroup

\* A list of groups alone.
LEMMA ListedPlain ==
  ASSUME NEW t, NEW i \in Nat, NEW n \in Nat, NEW j \in Nat, j = i + 2 * n,
         Alternate(t, i, n), IsGroup(t[j])
  PROVE  /\ \A k \in i..j : t[k] # "."
         /\ Listed(t, i, j) = HexGroups(t, i, n + 1)
<1>1. ASSUME NEW k \in i..j PROVE t[k] # "."
  <2>1. (\E m \in 1..n : k = i + 2 * m - 2 \/ k = i + 2 * m - 1) \/ k = j
    <3>1. PICK h \in Nat : k - i = 2 * h \/ k - i = 2 * h + 1
      BY Halves
    <3>2. k = j \/ (h + 1 \in 1..n /\ (k = i + 2 * (h + 1) - 2 \/ k = i + 2 * (h + 1) - 1))
      BY <3>1
    <3>3. QED
      BY <3>2
  <2>2. QED
    BY <2>1, SignsAreNoGroups DEF Alternate
<1>2. (j - i) \div 2 = n
  BY HalfOfDouble
<1>3. HexGroups(t, i, n + 1) = HexGroups(t, i, n) \o <<HexOf[t[j]]>>
  BY HexGroupsGrow
<1>4. ~(\E k \in i..j : t[k] = ".")
  BY <1>1
<1>5. j >= i /\ ~(j < i)
  OBVIOUS
<1>6. Listed(t, i, j) = HexGroups(t, i, n) \o <<HexOf[t[j]]>>
  BY <1>2, <1>4, <1>5, Zenon DEF Listed
<1>7. QED
  BY <1>1, <1>3, <1>6

\* A list that ends in a dotted quad.
LEMMA ListedDotted ==
  ASSUME NEW t, NEW i \in Nat, NEW n \in Nat, NEW j \in Nat, j = i + 2 * n + 6,
         Alternate(t, i, n), IsQuad(SubSeq(t, j - 6, j)), \E k \in i..j : t[k] = "."
  PROVE  Listed(t, i, j) = HexGroups(t, i, n) \o GroupsOf(ParseIpv4(SubSeq(t, j - 6, j)))
<1>1. (j - 6 - i) \div 2 = n
  BY HalfOfDouble
<1>2. j - 6 >= i /\ ~(j < i) /\ j - 6 = i + 2 * n
  OBVIOUS
<1>3. QED
  BY <1>1, <1>2, Zenon DEF Listed

\* What is listed is one of these.
LEMMA ListedShape ==
  ASSUME NEW t, NEW i \in Nat, NEW j \in Nat, i <= j, Listed(t, i, j) # NoAddress
  PROVE  \E n \in Nat :
           /\ Alternate(t, i, n)
           /\ \/ j = i + 2 * n /\ IsGroup(t[j]) /\ \A k \in i..j : t[k] # "."
              \/ /\ j = i + 2 * n + 6 /\ IsQuad(SubSeq(t, j - 6, j))
                 /\ \E k \in i..j : t[k] = "."
<1>1. ~(j < i)
  OBVIOUS
<1>2. CASE \E k \in i..j : t[k] = "."
  <2> DEFINE n == (j - 6 - i) \div 2
  <2>1. /\ j - 6 >= i /\ j - 6 = i + 2 * n /\ Alternate(t, i, n)
        /\ IsQuad(SubSeq(t, j - 6, j))
    BY <1>1, <1>2, Zenon DEF Listed
  <2>2. n \in Nat
    BY <2>1
  <2> HIDE DEF n
  <2>3. j = i + 2 * n + 6
    BY <2>1, <2>2
  <2>4. QED
    BY <1>2, <2>1, <2>2, <2>3
<1>3. CASE \A k \in i..j : t[k] # "."
  <2> DEFINE n == (j - i) \div 2
  <2>1. j >= i /\ j = i + 2 * n /\ Alternate(t, i, n) /\ IsGroup(t[j])
    BY <1>1, <1>3, Zenon DEF Listed
  <2>2. n \in Nat
    BY <2>1
  <2> HIDE DEF n
  <2>3. QED
    BY <1>3, <2>1, <2>2
<1>4. QED
  BY <1>2, <1>3

\* The characters of a quad within a text.
LEMMA QuadInText ==
  ASSUME NEW S, NEW t \in Seq(S), NEW j \in 7..Len(t), IsQuad(SubSeq(t, j - 6, j))
  PROVE  /\ \A k \in {j - 6, j - 4, j - 2, j} : t[k] \in Runs
         /\ \A k \in {j - 5, j - 3, j - 1} : t[k] = "."
<1>1. Len(t) \in Nat /\ \A k \in (j - 6)..j : t[k] \in S
  BY LenProperties, ElementOfSeq
<1>2. \A k \in 1..(j - (j - 6) + 1) : SubSeq(t, j - 6, j)[k] = t[j - 6 + k - 1]
  BY <1>1, SubSeqProperties
<1>3. \A k \in 1..7 : SubSeq(t, j - 6, j)[k] = t[j - 7 + k]
  <2>1. SUFFICES ASSUME NEW k \in 1..7 PROVE SubSeq(t, j - 6, j)[k] = t[j - 7 + k]
    OBVIOUS
  <2>2. k \in 1..(j - (j - 6) + 1) /\ j - 6 + k - 1 = j - 7 + k
    BY <1>1
  <2>3. QED
    BY <1>2, <2>2
<1> DEFINE q == SubSeq(t, j - 6, j)
<1> HIDE DEF q
<1>4. /\ q[1] = t[j - 6] /\ q[2] = t[j - 5] /\ q[3] = t[j - 4] /\ q[4] = t[j - 3]
      /\ q[5] = t[j - 2] /\ q[6] = t[j - 1] /\ q[7] = t[j]
  BY <1>1, <1>3 DEF q
<1>5. /\ q[1] \in Runs /\ q[3] \in Runs /\ q[5] \in Runs /\ q[7] \in Runs
      /\ q[2] = "." /\ q[4] = "." /\ q[6] = "."
  BY DEF IsQuad, q
<1>6. QED
  BY <1>1, <1>4, <1>5

\* An octet or a group read is a number; so is what a quad becomes.
LEMMA QuadsAreNumbers ==
  ASSUME NEW q, IsQuad(q)
  PROVE  /\ ParseIpv4(q) = <<OctetOf[q[1]], OctetOf[q[3]], OctetOf[q[5]], OctetOf[q[7]]>>
         /\ \A i \in {1, 3, 5, 7} : OctetOf[q[i]] \in Nat /\ OctetOf[q[i]] < 256
         /\ GroupsOf(ParseIpv4(q)) \in Seq(Nat) /\ Len(GroupsOf(ParseIpv4(q))) = 2
         /\ GroupsOf(ParseIpv4(q)) = <<256 * OctetOf[q[1]] + OctetOf[q[3]],
                                       256 * OctetOf[q[5]] + OctetOf[q[7]]>>
<1> DEFINE a == OctetOf[q[1]]
           b == OctetOf[q[3]]
           c == OctetOf[q[5]]
           d == OctetOf[q[7]]
<1>1. ParseIpv4(q) = <<a, b, c, d>>
  BY DEF ParseIpv4
<1>2. \A i \in {1, 3, 5, 7} : OctetOf[q[i]] \in Nat /\ OctetOf[q[i]] < 256
  BY RunsAreNumbers DEF IsQuad
<1>3. a \in Nat /\ b \in Nat /\ c \in Nat /\ d \in Nat
  BY <1>2
<1> HIDE DEF a, b, c, d
<1>4. GroupsOf(ParseIpv4(q)) = <<256 * a + b, 256 * c + d>>
  BY <1>1 DEF GroupsOf
<1>5. <<256 * a + b, 256 * c + d>> \in Seq(Nat) /\ Len(<<256 * a + b, 256 * c + d>>) = 2
  BY <1>3
<1>6. QED
  BY <1>1, <1>2, <1>4, <1>5 DEF a, b, c, d

\* What is listed are numbers.
LEMMA ListedAreGroups ==
  ASSUME NEW t, NEW i \in Nat, NEW j \in Nat, Listed(t, i, j) # NoAddress
  PROVE  Listed(t, i, j) \in Seq(Nat)
<1>1. CASE j < i
  BY <1>1, EmptySeq DEF Listed
<1>2. CASE i <= j
  <2>1. PICK n \in Nat :
           /\ Alternate(t, i, n)
           /\ \/ j = i + 2 * n /\ IsGroup(t[j]) /\ \A k \in i..j : t[k] # "."
              \/ /\ j = i + 2 * n + 6 /\ IsQuad(SubSeq(t, j - 6, j))
                 /\ \E k \in i..j : t[k] = "."
    BY <1>2, ListedShape
  <2>2. HexGroups(t, i, n) \in Seq(Nat)
    BY <2>1, HexGroupsAreGroups
  <2>3. CASE j = i + 2 * n /\ IsGroup(t[j]) /\ \A k \in i..j : t[k] # "."
    <3>1. IsGroup(t[i + 2 * n])
      BY <2>3
    <3>2. HexGroups(t, i, n + 1) = HexGroups(t, i, n) \o <<HexOf[t[i + 2 * n]]>>
      BY <2>1, <3>1, HexGroupsGrow
    <3>3. <<HexOf[t[i + 2 * n]]>> \in Seq(Nat)
      BY <3>1, GroupsAreNumbers
    <3>4. Listed(t, i, j) = HexGroups(t, i, n + 1)
      BY <2>1, <2>3, ListedPlain
    <3>5. QED
      BY <2>2, <3>2, <3>3, <3>4, ConcatProperties
  <2>4. CASE /\ j = i + 2 * n + 6 /\ IsQuad(SubSeq(t, j - 6, j))
             /\ \E k \in i..j : t[k] = "."
    <3>1. Listed(t, i, j) = HexGroups(t, i, n) \o GroupsOf(ParseIpv4(SubSeq(t, j - 6, j)))
      <4>1. \E k \in i..j : t[k] = "."
        BY <2>4
      <4>2. j = i + 2 * n + 6 /\ IsQuad(SubSeq(t, j - 6, j)) /\ Alternate(t, i, n)
        BY <2>1, <2>4
      <4>3. QED
        BY <4>1, <4>2, ListedDotted, Zenon
    <3>2. GroupsOf(ParseIpv4(SubSeq(t, j - 6, j))) \in Seq(Nat)
      BY <2>4, QuadsAreNumbers
    <3>3. QED
      BY <2>2, <3>1, <3>2, ConcatProperties
  <2>5. QED
    BY <2>1, <2>3, <2>4
<1>3. QED
  BY <1>1, <1>2

\* Where a group should begin in a list, there is a quad to the end, or the
\* last group, or one before a colon and another.
LEMMA ListedHere ==
  ASSUME NEW S, NEW t \in Seq(S), NEW i \in Nat \ {0}, NEW n \in Nat, NEW j \in Nat,
         j <= Len(t), i + 2 * n <= j,
         Alternate(t, i, n), Listed(t, i, j) # NoAddress
  PROVE  LET p == i + 2 * n IN
         \/ p = j - 6 /\ IsQuad(SubSeq(t, p, j)) /\ t[p] \in Runs /\ t[p + 1] = "."
         \/ p = j /\ IsGroup(t[p])
         \/ p + 2 <= j /\ IsGroup(t[p]) /\ t[p + 1] = ":" /\ t[p + 2] \in Runs
<1> DEFINE p == i + 2 * n
<1>1. p \in Nat /\ i <= j /\ Len(t) \in Nat
  BY LenProperties
<1>2. PICK m \in Nat :
         /\ Alternate(t, i, m)
         /\ \/ j = i + 2 * m /\ IsGroup(t[j]) /\ \A k \in i..j : t[k] # "."
            \/ /\ j = i + 2 * m + 6 /\ IsQuad(SubSeq(t, j - 6, j))
               /\ \E k \in i..j : t[k] = "."
  BY <1>1, ListedShape
<1> DEFINE last == i + 2 * m
<1>3. \/ last = j /\ IsGroup(t[last])
      \/ /\ last = j - 6 /\ IsQuad(SubSeq(t, last, j)) /\ t[last + 1] = "."
         /\ t[last] \in Runs /\ t[last + 3] = "." /\ t[last + 5] = "."
  <2>1. CASE j = i + 2 * m /\ IsGroup(t[j])
    BY <2>1
  <2>2. CASE j = i + 2 * m + 6 /\ IsQuad(SubSeq(t, j - 6, j))
    <3>1. last = j - 6 /\ j \in 7..Len(t)
      BY <1>1, <2>2
    <3>2. /\ \A k \in {j - 6, j - 4, j - 2, j} : t[k] \in Runs
          /\ \A k \in {j - 5, j - 3, j - 1} : t[k] = "."
      BY <2>2, <3>1, QuadInText
    <3>3. j - 5 = last + 1 /\ j - 3 = last + 3 /\ j - 1 = last + 5
      BY <3>1
    <3>4. QED
      BY <2>2, <3>1, <3>2, <3>3
  <2>3. QED
    BY <1>2, <2>1, <2>2
<1>4. CASE n = m
  BY <1>3, <1>4
<1>5. CASE n < m
  <2>1. n + 1 \in 1..m /\ i + 2 * (n + 1) - 2 = p /\ i + 2 * (n + 1) - 1 = p + 1
    BY <1>5
  <2>2. IsGroup(t[p]) /\ t[p + 1] = ":"
    BY <1>2, <2>1 DEF Alternate
  <2>3. CASE n + 1 = m
    <3>1. last = p + 2
      BY <2>3
    <3>2. t[last] \in Runs /\ last <= j
      BY <1>1, <1>3, GroupsAreNumbers
    <3>3. QED
      BY <2>2, <3>1, <3>2
  <2>4. CASE n + 2 <= m
    <3>1. n + 2 \in 1..m /\ i + 2 * (n + 2) - 2 = p + 2
      BY <2>4
    <3>2. t[p + 2] \in Runs
      BY <1>2, <3>1, GroupsAreNumbers DEF Alternate
    <3>3. p + 2 <= j
      BY <1>1, <1>3, <2>4
    <3>4. QED
      BY <2>2, <3>2, <3>3
  <2>5. QED
    BY <1>5, <2>3, <2>4
<1>6. CASE n > m
  <2>1. last = j - 6 /\ t[last + 1] = "." /\ t[last + 3] = "." /\ t[last + 5] = "."
    BY <1>1, <1>3, <1>6
  <2>2. n \in 1..n /\ i + 2 * n - 1 = p - 1
    BY <1>6
  <2>3. t[p - 1] = ":"
    BY <2>2 DEF Alternate
  <2>4. p - 1 = last + 1 \/ p - 1 = last + 3 \/ p - 1 = last + 5
    BY <1>6, <2>1
  <2>5. QED
    BY <2>1, <2>3, <2>4
<1>7. QED
  BY <1>4, <1>5, <1>6

-----------------------------------------------------------------------------
(* What the walk has taken are the groups listed up to there. *)

FirstDouble == Earliest(DoubleColons(host))
Start == IF compressed THEN FirstDouble + 2 ELSE 1
Taken == IF compressed THEN tail ELSE head

Signs == Runs \cup {":", ".", "%", "[", "]"}

AddressesTypeOK ==
  /\ text \in Seq(Runs \cup {":", "."})
  /\ stage \in {"writing", "received", "walking", "done"}
  /\ header \in Seq(Signs) /\ host \in Seq(Signs)
  /\ pos \in Nat \ {0} /\ head \in Seq(Nat) /\ tail \in Seq(Nat) /\ compressed \in BOOLEAN

\* At a group, the groups before it are taken; at the end, what is listed is.
\* The first "::" is still ahead, or the list before it is in head.
WalkIsFaithful ==
  /\ pos \in Start..(Len(host) + 1)
  /\ IF pos <= Len(host)
     THEN /\ pos = Start + 2 * Len(Taken)
          /\ Alternate(host, Start, Len(Taken))
          /\ Taken = HexGroups(host, Start, Len(Taken))
     ELSE Taken # NoAddress /\ Taken = Listed(host, Start, Len(host))
  /\ IF compressed
     THEN /\ DoubleColons(host) # {}
          /\ head # NoAddress /\ head = Listed(host, 1, FirstDouble - 1)
          /\ \A k \in 1..(FirstDouble - 1) : host[k] # "."
     ELSE tail = <<>> /\ \A i \in DoubleColons(host) : i > pos

FirstDoubleIs ==
  /\ FirstDouble \in 1..(Len(host) - 1)
  /\ host[FirstDouble] = ":" /\ host[FirstDouble + 1] = ":"
  /\ \A i \in DoubleColons(host) : FirstDouble <= i

LEMMA FirstDoubleColon ==
  ASSUME AddressesTypeOK, DoubleColons(host) # {}
  PROVE  FirstDoubleIs
<1>1. Len(host) \in Nat
  BY LenProperties DEF AddressesTypeOK
<1>2. DoubleColons(host) \in SUBSET Nat
  BY <1>1 DEF DoubleColons
<1>3. FirstDouble \in DoubleColons(host) /\ \A i \in DoubleColons(host) : FirstDouble <= i
  BY <1>2, EarliestIsFirst DEF FirstDouble
<1>4. QED
  BY <1>3 DEF DoubleColons, FirstDoubleIs

\* At a group of the walk.
AtGroupOf(n) ==
  /\ n \in Nat /\ Start \in Nat \ {0} /\ pos = Start + 2 * n
  /\ pos <= Len(host) /\ Len(host) \in Nat
  /\ Alternate(host, Start, n) /\ Taken = HexGroups(host, Start, n)
  /\ Taken \in Seq(Nat) /\ Len(Taken) = n

LEMMA InTheWalk ==
  ASSUME AddressesTypeOK, WalkIsFaithful, InWalk
  PROVE  AtGroupOf(Len(Taken))
<1>1. Len(host) \in Nat /\ Len(Taken) \in Nat /\ Taken \in Seq(Nat)
  BY LenProperties DEF AddressesTypeOK, Taken
<1>2. Start \in Nat \ {0}
  <2>1. CASE compressed
    <3>1. FirstDouble \in Nat \ {0}
      BY <1>1, <2>1, FirstDoubleColon DEF WalkIsFaithful, FirstDoubleIs
    <3>2. QED
      BY <2>1, <3>1 DEF Start
  <2>2. CASE ~compressed
    BY <2>2 DEF Start
  <2>3. QED
    BY <2>1, <2>2
<1>3. QED
  BY <1>1, <1>2 DEF WalkIsFaithful, InWalk, AtGroupOf

\* The places where a list that the walk is in may end: with the text, or, as
\* long as it has no dot, before the first "::".
MayEnd(j) ==
  \/ j = Len(host) /\ (compressed \/ DoubleColons(host) = {})
  \/ /\ ~compressed /\ DoubleColons(host) # {} /\ j + 1 = FirstDouble
     /\ \A k \in 1..j : host[k] # "."

\* A walk that comes to no list comes to no meaning.
LEMMA NoListNoMeaning ==
  ASSUME AddressesTypeOK, WalkIsFaithful, InWalk,
         \A j \in pos..Len(host) : MayEnd(j) => Listed(host, Start, j) = NoAddress
  PROVE  Meaning(host) = NoAddress
<1>1. /\ Len(host) \in Nat /\ pos \in Nat /\ pos <= Len(host)
  BY LenProperties DEF AddressesTypeOK, InWalk
<1>2. CASE compressed
  <2>1. MayEnd(Len(host)) /\ Len(host) \in pos..Len(host)
    BY <1>1, <1>2 DEF MayEnd
  <2>2. Listed(host, FirstDouble + 2, Len(host)) = NoAddress /\ DoubleColons(host) # {}
    BY <1>2, <2>1 DEF Start, WalkIsFaithful
  <2>3. QED
    BY <2>2, Zenon DEF Meaning, FirstDouble
<1>3. CASE ~compressed /\ DoubleColons(host) = {}
  <2>1. MayEnd(Len(host)) /\ Len(host) \in pos..Len(host)
    BY <1>1, <1>3 DEF MayEnd
  <2>2. Listed(host, 1, Len(host)) = NoAddress
    BY <1>3, <2>1 DEF Start
  <2>3. QED
    BY <1>3, <2>2, Zenon DEF Meaning
<1>4. CASE ~compressed /\ DoubleColons(host) # {}
  <2>1. FirstDouble \in 1..(Len(host) - 1) /\ FirstDouble \in DoubleColons(host)
    BY <1>1, <1>4, FirstDoubleColon DEF FirstDoubleIs, DoubleColons
  <2>2. FirstDouble > pos
    BY <1>4, <2>1 DEF WalkIsFaithful
  <2>3. FirstDouble - 1 \in pos..Len(host) /\ FirstDouble - 1 + 1 = FirstDouble
    BY <1>1, <2>1, <2>2
  <2>4. CASE \A k \in 1..(FirstDouble - 1) : host[k] # "."
    <3>1. MayEnd(FirstDouble - 1)
      BY <1>4, <2>3, <2>4 DEF MayEnd
    <3>2. Listed(host, 1, FirstDouble - 1) = NoAddress
      BY <1>4, <2>3, <3>1 DEF Start
    <3>3. QED
      BY <1>4, <3>2, Zenon DEF Meaning, FirstDouble
  <2>5. CASE ~(\A k \in 1..(FirstDouble - 1) : host[k] # ".")
    BY <1>4, <2>5, Zenon DEF Meaning, FirstDouble
  <2>6. QED
    BY <2>4, <2>5
<1>5. QED
  BY <1>2, <1>3, <1>4

\* What the walk refuses lists nothing.
LEMMA RefusedMeansNothing ==
  ASSUME AddressesTypeOK, WalkIsFaithful, InWalk,
         \/ Dotted(host, pos) /\ ~IsQuad(From(host, pos))
         \/ ~Dotted(host, pos) /\ ~IsGroup(host[pos])
         \/ AtGroup /\ DoubleColonAt(pos + 1) /\ compressed
         \/ AtGroup /\ pos < Len(host) /\ (host[pos + 1] = ":" => pos + 1 = Len(host))
  PROVE  Meaning(host) = NoAddress
<1> DEFINE n == Len(Taken)
<1>1. AtGroupOf(n)
  BY InTheWalk
<1> HIDE DEF n
<1>2. host \in Seq(Signs) /\ pos \in 1..Len(host) /\ Len(host) \in Nat
  BY <1>1 DEF AddressesTypeOK, AtGroupOf, InWalk
<1>3. Dotted(host, pos) <=> \E k \in pos..Len(host) : host[k] = "." /\ \A l \in pos..k : host[l] # ":"
  BY <1>2, DottedMeansDotFirst
<1>4. SUFFICES ASSUME NEW j \in pos..Len(host), MayEnd(j), Listed(host, Start, j) # NoAddress
               PROVE  FALSE
  BY NoListNoMeaning
<1>5. \/ pos = j - 6 /\ IsQuad(SubSeq(host, pos, j)) /\ host[pos] \in Runs /\ host[pos + 1] = "."
      \/ pos = j /\ IsGroup(host[pos])
      \/ pos + 2 <= j /\ IsGroup(host[pos]) /\ host[pos + 1] = ":" /\ host[pos + 2] \in Runs
  <2>1. Start \in Nat \ {0} /\ n \in Nat /\ pos = Start + 2 * n /\ Alternate(host, Start, n)
    BY <1>1 DEF AtGroupOf
  <2>2. j \in Nat /\ j <= Len(host) /\ Start + 2 * n <= j
    BY <1>2, <2>1
  <2>3. QED
    BY <1>2, <1>4, <2>1, <2>2, ListedHere
<1>6. CASE pos = j - 6 /\ IsQuad(SubSeq(host, pos, j)) /\ host[pos] \in Runs /\ host[pos + 1] = "."
  <2>1. pos + 1 \in pos..Len(host) /\ \A l \in pos..(pos + 1) : host[l] # ":"
    BY <1>2, <1>6, SignsAreNoGroups
  <2>2. Dotted(host, pos)
    BY <1>3, <1>6, <2>1
  <2>3. ~IsQuad(From(host, pos))
    BY <2>2 DEF AtGroup
  <2>4. j # Len(host)
    BY <1>6, <2>3 DEF From
  <2>5. \A k \in 1..j : host[k] # "."
    BY <1>4, <2>4 DEF MayEnd
  <2>6. pos + 1 \in 1..j
    BY <1>2, <1>6
  <2>7. QED
    BY <1>6, <2>5, <2>6
<1>7. CASE pos = j /\ IsGroup(host[pos])
  <2>1. CASE j = Len(host)
    <3>1. ~Dotted(host, pos)
      BY <1>2, <1>3, <1>7, <2>1, SignsAreNoGroups
    <3>2. QED
      BY <1>2, <1>7, <2>1, <3>1 DEF DoubleColonAt
  <2>2. CASE j # Len(host)
    <3>1. ~compressed /\ DoubleColons(host) # {} /\ j + 1 = FirstDouble
      BY <1>4, <2>2 DEF MayEnd
    <3>2. host[pos + 1] = ":" /\ pos + 2 <= Len(host)
      BY <1>2, <1>7, <3>1, FirstDoubleColon DEF FirstDoubleIs
    <3>3. ~Dotted(host, pos)
      BY <1>2, <1>3, <1>7, <3>2, SignsAreNoGroups
    <3>4. QED
      BY <1>2, <1>7, <3>1, <3>2, <3>3
  <2>3. QED
    BY <2>1, <2>2
<1>8. CASE pos + 2 <= j /\ IsGroup(host[pos]) /\ host[pos + 1] = ":" /\ host[pos + 2] \in Runs
  <2>1. ~Dotted(host, pos)
    BY <1>2, <1>3, <1>8, SignsAreNoGroups
  <2>2. ~DoubleColonAt(pos + 1)
    BY <1>2, <1>8, SignsAreNoGroups DEF DoubleColonAt
  <2>3. QED
    BY <1>2, <1>8, <2>1, <2>2
<1>9. QED
  BY <1>5, <1>6, <1>7, <1>8

\* A step of the walk that only takes groups.
LEMMA TakingGroups ==
  ASSUME AddressesTypeOK, NEW groups \in Seq(Nat), Take(groups),
         host' = host, compressed' = compressed
  PROVE  /\ head' \in Seq(Nat) /\ tail' \in Seq(Nat)
         /\ Start' = Start /\ FirstDouble' = FirstDouble
         /\ Taken' = Taken \o groups
         /\ compressed => head' = head
         /\ ~compressed => tail' = tail
<1>1. head \in Seq(Nat) /\ tail \in Seq(Nat) /\ compressed \in BOOLEAN
  BY DEF AddressesTypeOK
<1>2. head \o groups \in Seq(Nat) /\ tail \o groups \in Seq(Nat)
  BY <1>1, ConcatProperties
<1>3. CASE compressed
  BY <1>1, <1>2, <1>3 DEF Take, Start, FirstDouble, Taken
<1>4. CASE ~compressed
  BY <1>1, <1>2, <1>4 DEF Take, Start, FirstDouble, Taken
<1>5. QED
  BY <1>3, <1>4

\* The conditions on head, on dots and on "::" stay, as long as "::" is ahead.
LEMMA StillBefore ==
  ASSUME AddressesTypeOK, WalkIsFaithful, host' = host, compressed' = compressed,
         FirstDouble' = FirstDouble,
         compressed => head' = head,
         ~compressed => tail' = tail /\ \A i \in DoubleColons(host) : i > pos'
  PROVE  (IF compressed
          THEN /\ DoubleColons(host) # {}
               /\ head # NoAddress /\ head = Listed(host, 1, FirstDouble - 1)
               /\ \A k \in 1..(FirstDouble - 1) : host[k] # "."
          ELSE tail = <<>> /\ \A i \in DoubleColons(host) : i > pos)'
<1>1. CASE compressed
  BY <1>1, Zenon DEF WalkIsFaithful
<1>2. CASE ~compressed
  BY <1>2, Zenon DEF WalkIsFaithful
<1>3. QED
  BY <1>1, <1>2

LEMMA ListIsNoRefusal == \A s \in Seq(Nat) : s # NoAddress
BY RunsAreNumbers

LEMMA NextGroupIsFaithful ==
  ASSUME AddressesTypeOK, WalkIsFaithful, NextGroup
  PROVE  WalkIsFaithful' /\ AddressesTypeOK'
<1> DEFINE n == Len(Taken)
           g == <<HexOf[host[pos]]>>
<1>1. AtGroupOf(n) /\ IsGroup(host[pos])
  BY InTheWalk DEF NextGroup, AtGroup
<1>2. g \in Seq(Nat) /\ Len(g) = 1
  BY <1>1, GroupsAreNumbers
<1>3. /\ host' = host /\ compressed' = compressed /\ pos' = pos + 2 /\ Take(g)
      /\ pos + 1 < Len(host) /\ host[pos + 1] = ":" /\ host[pos + 2] # ":"
  BY DEF NextGroup
<1>4. /\ head' \in Seq(Nat) /\ tail' \in Seq(Nat)
      /\ Start' = Start /\ FirstDouble' = FirstDouble
      /\ Taken' = Taken \o g
      /\ compressed => head' = head
      /\ ~compressed => tail' = tail
  BY <1>2, <1>3, TakingGroups
<1>5. Taken \in Seq(Nat) /\ n \in Nat /\ Start \in Nat \ {0} /\ pos = Start + 2 * n /\ Len(host) \in Nat
  BY <1>1 DEF AtGroupOf
<1>6. Len(Taken') = n + 1
  BY <1>2, <1>4, <1>5, ConcatProperties
<1>7. /\ Alternate(host, Start, n + 1)
      /\ HexGroups(host, Start, n + 1) = HexGroups(host, Start, n) \o g
  BY <1>1, <1>3, <1>5, HexGroupsGrow DEF AtGroupOf
<1>8. Taken' = HexGroups(host, Start, n + 1)
  BY <1>1, <1>4, <1>7 DEF AtGroupOf
<1> HIDE DEF n, g
<1>9. pos' = Start + 2 * (n + 1) /\ pos' <= Len(host) /\ pos' >= Start /\ pos' \in Nat \ {0}
  BY <1>3, <1>5
<1>10. ~compressed => \A i \in DoubleColons(host) : i > pos'
  <2>1. SUFFICES ASSUME ~compressed, NEW i \in DoubleColons(host) PROVE i > pos'
    OBVIOUS
  <2>2. i > pos
    BY <2>1 DEF WalkIsFaithful
  <2>3. i \in Nat /\ host[i] = ":" /\ host[i + 1] = ":"
    BY <1>5 DEF DoubleColons
  <2>4. i # pos + 1 /\ i # pos + 2
    BY <1>3, <1>5, <2>3
  <2>5. QED
    BY <1>3, <1>5, <2>2, <2>3, <2>4
<1>11. (IF compressed
        THEN /\ DoubleColons(host) # {}
             /\ head # NoAddress /\ head = Listed(host, 1, FirstDouble - 1)
             /\ \A k \in 1..(FirstDouble - 1) : host[k] # "."
        ELSE tail = <<>> /\ \A i \in DoubleColons(host) : i > pos)'
  BY <1>3, <1>4, <1>10, StillBefore
<1>12. /\ pos' \in Start'..(Len(host') + 1)
       /\ pos' <= Len(host')
       /\ pos' = Start' + 2 * Len(Taken')
       /\ Alternate(host', Start', Len(Taken'))
       /\ Taken' = HexGroups(host', Start', Len(Taken'))
  BY <1>3, <1>4, <1>5, <1>6, <1>7, <1>8, <1>9
<1>13. WalkIsFaithful'
  BY <1>11, <1>12, Zenon DEF WalkIsFaithful
<1>14. AddressesTypeOK'
  BY <1>4, <1>9 DEF AddressesTypeOK, NextGroup
<1>15. QED
  BY <1>13, <1>14

\* At the end of the text: what was taken is what is listed.
LEMMA EndIsFaithful ==
  ASSUME AddressesTypeOK, WalkIsFaithful, NEW groups \in Seq(Nat), Take(groups),
         UNCHANGED <<text, stage, header, host, compressed>>, pos' = Len(host) + 1,
         Start <= Len(host), Taken \o groups = Listed(host, Start, Len(host)),
         ~compressed => DoubleColons(host) = {}
  PROVE  WalkIsFaithful' /\ AddressesTypeOK'
<1>1. host' = host /\ compressed' = compressed
  OBVIOUS
<1>2. /\ head' \in Seq(Nat) /\ tail' \in Seq(Nat)
      /\ Start' = Start /\ FirstDouble' = FirstDouble
      /\ Taken' = Taken \o groups
      /\ compressed => head' = head
      /\ ~compressed => tail' = tail
  BY <1>1, TakingGroups
<1>3. Taken \in Seq(Nat) /\ Len(host) \in Nat
  BY LenProperties DEF AddressesTypeOK, Taken
<1>4. Taken' # NoAddress /\ Taken' = Listed(host', Start', Len(host'))
  BY <1>1, <1>2, <1>3, ConcatProperties, ListIsNoRefusal
<1>5. (IF compressed
       THEN /\ DoubleColons(host) # {}
            /\ head # NoAddress /\ head = Listed(host, 1, FirstDouble - 1)
            /\ \A k \in 1..(FirstDouble - 1) : host[k] # "."
       ELSE tail = <<>> /\ \A i \in DoubleColons(host) : i > pos)'
  BY <1>1, <1>2, StillBefore
<1>6. Start \in Int
  <2>1. CASE compressed
    BY <1>3, <2>1, FirstDoubleColon DEF WalkIsFaithful, FirstDoubleIs, Start
  <2>2. CASE ~compressed
    BY <2>2 DEF Start
  <2>3. QED
    BY <2>1, <2>2
<1>7. pos' \in Start'..(Len(host') + 1) /\ ~(pos' <= Len(host')) /\ pos' \in Nat \ {0}
  BY <1>1, <1>2, <1>3, <1>6
<1>8. WalkIsFaithful'
  BY <1>4, <1>5, <1>7, Zenon DEF WalkIsFaithful
<1>9. AddressesTypeOK'
  BY <1>2, <1>7 DEF AddressesTypeOK
<1>10. QED
  BY <1>8, <1>9

LEMMA LastGroupIsFaithful ==
  ASSUME AddressesTypeOK, WalkIsFaithful, LastGroup
  PROVE  WalkIsFaithful' /\ AddressesTypeOK'
<1> DEFINE n == Len(Taken)
           g == <<HexOf[host[pos]]>>
<1>1. AtGroupOf(n) /\ IsGroup(host[pos])
  BY InTheWalk DEF LastGroup, AtGroup
<1>2. g \in Seq(Nat)
  BY <1>1, GroupsAreNumbers
<1>3. /\ UNCHANGED <<text, stage, header, host, compressed>> /\ pos' = pos + 1 /\ Take(g)
      /\ pos = Len(host)
  BY DEF LastGroup
<1>4. n \in Nat /\ Start \in Nat \ {0} /\ pos = Start + 2 * n /\ Len(host) \in Nat
  BY <1>1 DEF AtGroupOf
<1>5. HexGroups(host, Start, n + 1) = HexGroups(host, Start, n) \o g
  BY <1>1, <1>4, HexGroupsGrow DEF AtGroupOf
<1>6. Listed(host, Start, Len(host)) = HexGroups(host, Start, n + 1)
  BY <1>1, <1>3, <1>4, ListedPlain DEF AtGroupOf
<1>7. Taken \o g = Listed(host, Start, Len(host))
  BY <1>1, <1>5, <1>6 DEF AtGroupOf
<1> HIDE DEF n, g
<1>8. ~compressed => DoubleColons(host) = {}
  <2>1. ASSUME ~compressed, NEW i \in DoubleColons(host) PROVE FALSE
    <3>1. i > pos /\ i \in 1..(Len(host) - 1)
      BY <2>1 DEF WalkIsFaithful, DoubleColons
    <3>2. QED
      BY <1>3, <1>4, <3>1
  <2>2. QED
    BY <2>1
<1>9. pos' = Len(host) + 1 /\ Start <= Len(host)
  BY <1>3, <1>4
<1>10. QED
  BY <1>2, <1>3, <1>7, <1>8, <1>9, EndIsFaithful

LEMMA SevenLong == \A l, a \in Nat \ {0} : l - a + 1 = 7 => a = l - 6 /\ l = a + 6 /\ l >= 7
OBVIOUS

LEMMA DottedTailIsFaithful ==
  ASSUME AddressesTypeOK, WalkIsFaithful, DottedTail, IsQuad(From(host, pos)), stage' = stage
  PROVE  WalkIsFaithful' /\ AddressesTypeOK'
<1> DEFINE n == Len(Taken)
           rest == From(host, pos)
           g == GroupsOf(ParseIpv4(rest))
<1>1. AtGroupOf(n) /\ stage = "walking" /\ Dotted(host, pos)
  BY InTheWalk DEF DottedTail, InWalk
<1> HIDE DEF n
<1>2. g \in Seq(Nat)
  BY QuadsAreNumbers
<1>3. /\ UNCHANGED <<text, stage, header, host, compressed>> /\ pos' = Len(host) + 1 /\ Take(g)
  BY <1>1 DEF DottedTail, Fails
<1>4. n \in Nat /\ Start \in Nat \ {0} /\ pos = Start + 2 * n /\ Len(host) \in Nat
      /\ pos \in Nat \ {0} /\ pos <= Len(host)
  BY <1>1 DEF AtGroupOf, AddressesTypeOK
<1>5. Len(host) = pos + 6 /\ rest = SubSeq(host, Len(host) - 6, Len(host))
  <2>1. host \in Seq(Signs) /\ pos \in 1..Len(host)
    BY <1>4 DEF AddressesTypeOK
  <2>2. Len(rest) = Len(host) - pos + 1 /\ Len(rest) = 7
    BY <2>1, FromIsRest DEF IsQuad
  <2>3. pos = Len(host) - 6
    <3>1. Len(host) - pos + 1 = 7
      BY <2>2
    <3>2. QED
      BY <1>4, <3>1, SevenLong
  <2>4. QED
    BY <1>4, <2>3 DEF From
<1>6. \A k \in pos..Len(host) : host[k] = "." \/ host[k] \in Runs
  <2>1. Len(host) \in 7..Len(host) /\ IsQuad(SubSeq(host, Len(host) - 6, Len(host)))
    <3>1. IsQuad(SubSeq(host, Len(host) - 6, Len(host)))
      BY <1>5, Zenon
    <3>2. \A a, l \in Nat \ {0} : l = a + 6 => l \in 7..l
      OBVIOUS
    <3>3. Len(host) \in Nat \ {0}
      BY <1>4
    <3>4. QED
      BY <1>4, <1>5, <3>1, <3>2, <3>3, Zenon
  <2>2. /\ \A k \in {Len(host) - 6, Len(host) - 4, Len(host) - 2, Len(host)} : host[k] \in Runs
        /\ \A k \in {Len(host) - 5, Len(host) - 3, Len(host) - 1} : host[k] = "."
    BY <2>1, QuadInText DEF AddressesTypeOK
  <2>3. \A k \in pos..Len(host) : \/ k \in {Len(host) - 6, Len(host) - 4, Len(host) - 2, Len(host)}
                                 \/ k \in {Len(host) - 5, Len(host) - 3, Len(host) - 1}
    BY <1>4, <1>5
  <2>4. QED
    BY <2>2, <2>3
<1>7. Taken \o g = Listed(host, Start, Len(host))
  <2>1. \E k \in pos..Len(host) : host[k] = "."
    BY <1>1, <1>4, DottedMeansDotFirst DEF AddressesTypeOK
  <2>2. \E k \in Start..Len(host) : host[k] = "."
    BY <1>4, <2>1
  <2>3. Alternate(host, Start, n) /\ Taken = HexGroups(host, Start, n)
    BY <1>1 DEF AtGroupOf
  <2>4. Len(host) = Start + 2 * n + 6
    BY <1>4, <1>5
  <2>5. IsQuad(SubSeq(host, Len(host) - 6, Len(host)))
    BY <1>5
  <2>6. Listed(host, Start, Len(host))
          = HexGroups(host, Start, n) \o GroupsOf(ParseIpv4(SubSeq(host, Len(host) - 6, Len(host))))
    <3>1. Start \in Nat /\ n \in Nat /\ Len(host) \in Nat
      BY <1>4
    <3>2. QED
      BY <2>2, <2>3, <2>4, <2>5, <3>1, ListedDotted, Zenon
  <2>7. QED
    BY <1>5, <2>3, <2>6
<1> HIDE DEF g
<1>8. ~compressed => DoubleColons(host) = {}
  <2>1. ASSUME ~compressed, NEW i \in DoubleColons(host) PROVE FALSE
    <3>1. i > pos /\ i \in 1..(Len(host) - 1) /\ host[i] = ":"
      BY <2>1 DEF WalkIsFaithful, DoubleColons
    <3>2. i \in pos..Len(host)
      BY <1>4, <3>1
    <3>3. QED
      BY <1>6, <3>1, <3>2, SignsAreNoGroups
  <2>2. QED
    BY <2>1
<1>9. Start <= Len(host)
  BY <1>4
<1>10. QED
  BY <1>2, <1>3, <1>7, <1>8, <1>9, EndIsFaithful

\* What the walk is right after the first "::".
LEMMA CompressedIsFaithful ==
  ASSUME AddressesTypeOK, DoubleColons(host) # {}, tail = <<>>,
         UNCHANGED <<text, header, host, tail>>, stage' \in {"walking", "done"},
         compressed' = TRUE, pos' = FirstDouble + 2, head' \in Seq(Nat),
         head' = Listed(host, 1, FirstDouble - 1),
         \A k \in 1..(FirstDouble - 1) : host[k] # "."
  PROVE  WalkIsFaithful' /\ AddressesTypeOK'
<1>1. FirstDouble \in 1..(Len(host) - 1) /\ Len(host) \in Nat
  BY FirstDoubleColon, LenProperties DEF FirstDoubleIs, AddressesTypeOK
<1>2. FirstDouble' = FirstDouble
  BY DEF FirstDouble
<1>3. Start' = FirstDouble + 2 /\ Taken' = <<>>
  BY <1>2 DEF Start, Taken
<1>4. pos' \in Start'..(Len(host') + 1) /\ pos' \in Nat \ {0}
  BY <1>1, <1>3
<1>5. Alternate(host, pos', 0) /\ HexGroups(host, pos', 0) = <<>> /\ Len(<<>>) = 0
  BY DEF Alternate, HexGroups
<1>6. IF pos' <= Len(host')
      THEN /\ pos' = Start' + 2 * Len(Taken')
           /\ Alternate(host', Start', Len(Taken'))
           /\ Taken' = HexGroups(host', Start', Len(Taken'))
      ELSE Taken' # NoAddress /\ Taken' = Listed(host', Start', Len(host'))
  <2>1. CASE pos' <= Len(host)
    <3>1. pos' = Start' + 2 * 0
      BY <1>3, <1>4
    <3>2. QED
      BY <1>3, <1>5, <2>1, <3>1
  <2>2. CASE ~(pos' <= Len(host))
    <3>1. Len(host) < Start'
      BY <1>1, <1>3, <2>2
    <3>2. Listed(host, Start', Len(host)) = <<>>
      BY <3>1 DEF Listed
    <3>3. <<>> # NoAddress
      BY ListIsNoRefusal, EmptySeq
    <3>4. QED
      BY <1>3, <2>2, <3>2, <3>3
  <2>3. QED
    BY <2>1, <2>2
<1>7. /\ DoubleColons(host') # {}
      /\ head' # NoAddress /\ head' = Listed(host', 1, FirstDouble' - 1)
      /\ \A k \in 1..(FirstDouble' - 1) : host'[k] # "."
  BY <1>2, ListIsNoRefusal
<1>8. WalkIsFaithful'
  BY <1>4, <1>6, <1>7, Zenon DEF WalkIsFaithful
<1>9. AddressesTypeOK'
  BY <1>4 DEF AddressesTypeOK
<1>10. QED
  BY <1>8, <1>9

LEMMA CompressIsFaithful ==
  ASSUME AddressesTypeOK, WalkIsFaithful, Compress
  PROVE  WalkIsFaithful' /\ AddressesTypeOK'
<1> DEFINE n == Len(Taken)
           g == <<HexOf[host[pos]]>>
<1>1. AtGroupOf(n) /\ IsGroup(host[pos]) /\ ~compressed
  BY InTheWalk DEF Compress, AtGroup
<1>2. g \in Seq(Nat)
  BY <1>1, GroupsAreNumbers
<1>3. /\ UNCHANGED <<text, header, host, tail>> /\ stage' = "walking" /\ pos' = pos + 3
      /\ head' = head \o g /\ compressed' = TRUE /\ tail = <<>>
      /\ pos + 1 < Len(host) /\ host[pos + 1] = ":" /\ host[pos + 1 + 1] = ":"
  BY <1>1 DEF Compress, AtGroup, InWalk, Take, DoubleColonAt, WalkIsFaithful
<1>4. /\ n \in Nat /\ Start = 1 /\ pos = 1 + 2 * n /\ Len(host) \in Nat
      /\ Alternate(host, 1, n) /\ head = HexGroups(host, 1, n) /\ head \in Seq(Nat)
  BY <1>1 DEF AtGroupOf, Start, Taken
<1> HIDE DEF n
<1>5. HexGroups(host, 1, n + 1) = head \o g
  BY <1>1, <1>4, HexGroupsGrow
<1>6. (\A k \in 1..pos : host[k] # ".") /\ Listed(host, 1, pos) = HexGroups(host, 1, n + 1)
  BY <1>1, <1>4, ListedPlain
<1>7. FirstDouble = pos + 1 /\ DoubleColons(host) # {}
  <2>1. pos + 1 \in DoubleColons(host)
    BY <1>3, <1>4 DEF DoubleColons
  <2>2. FirstDouble \in Nat /\ FirstDouble <= pos + 1 /\ FirstDouble \in DoubleColons(host)
    BY <2>1, FirstDoubleColon DEF FirstDoubleIs, DoubleColons
  <2>3. FirstDouble > pos
    BY <1>1, <2>2 DEF WalkIsFaithful
  <2>4. QED
    BY <1>4, <2>1, <2>2, <2>3
<1>8. FirstDouble - 1 = pos /\ FirstDouble + 2 = pos + 3
  BY <1>4, <1>7
<1>9. head' \in Seq(Nat)
  BY <1>2, <1>3, <1>4, ConcatProperties
<1> HIDE DEF g
<1>10. head' = Listed(host, 1, FirstDouble - 1)
  BY <1>3, <1>5, <1>6, <1>8
<1>11. (\A k \in 1..(FirstDouble - 1) : host[k] # ".") /\ pos' = FirstDouble + 2
  BY <1>3, <1>6, <1>8
<1>12. QED
  BY <1>3, <1>7, <1>9, <1>10, <1>11, CompressedIsFaithful

\* Before the walk nothing is taken.
NothingTaken == pos = 1 /\ head = <<>> /\ tail = <<>> /\ compressed = FALSE

LEMMA BeginParseIsFaithful ==
  ASSUME AddressesTypeOK, NothingTaken, BeginParse
  PROVE  /\ AddressesTypeOK'
         /\ stage' = "walking" => WalkIsFaithful'
         /\ stage' = "done" => Meaning(host) = NoAddress
<1>1. Len(host) \in Nat /\ host \in Seq(Signs)
  BY LenProperties DEF AddressesTypeOK
<1>2. 1 <= Len(host)
  BY <1>1, LenProperties DEF BeginParse, Places
<1>3. CASE /\ host[1] # ":" /\ stage' = "walking"
           /\ UNCHANGED <<walkVars, text, pieces, header, host, parsed>>
  <2>1. /\ pos' = 1 /\ head' = <<>> /\ tail' = <<>> /\ compressed' = FALSE /\ host' = host
        /\ text' = text /\ header' = header
    BY <1>3 DEF walkVars, NothingTaken
  <2>2. Start' = 1 /\ Taken' = <<>>
    BY <2>1 DEF Start, Taken
  <2>3. Alternate(host, 1, 0) /\ HexGroups(host, 1, 0) = <<>> /\ Len(<<>>) = 0
    BY DEF Alternate, HexGroups
  <2>4. /\ pos' \in Start'..(Len(host') + 1)
        /\ pos' <= Len(host')
        /\ pos' = Start' + 2 * Len(Taken')
        /\ Alternate(host', Start', Len(Taken'))
        /\ Taken' = HexGroups(host', Start', Len(Taken'))
    BY <1>1, <1>2, <2>1, <2>2, <2>3
  <2>5. \A i \in DoubleColons(host') : i > pos'
    BY <1>1, <1>3, <2>1 DEF DoubleColons
  <2>6. WalkIsFaithful'
    BY <2>1, <2>4, <2>5, Zenon DEF WalkIsFaithful
  <2>7. AddressesTypeOK'
    <3>1. <<>> \in Seq(Nat) /\ 1 \in Nat \ {0}
      OBVIOUS
    <3>2. /\ text \in Seq(Runs \cup {":", "."}) /\ header \in Seq(Signs) /\ host \in Seq(Signs)
          /\ pos' \in Nat \ {0} /\ head' \in Seq(Nat) /\ tail' \in Seq(Nat)
          /\ compressed' \in BOOLEAN
      BY <2>1, <3>1 DEF AddressesTypeOK
    <3>3. QED
      BY <1>3, <2>1, <3>2 DEF AddressesTypeOK
  <2>8. QED
    BY <1>3, <2>6, <2>7
<1>4. CASE /\ DoubleColonAt(1) /\ stage' = "walking" /\ pos' = 3 /\ compressed' = TRUE
           /\ UNCHANGED <<head, tail, text, pieces, header, host, parsed>>
  <2>1. 1 \in DoubleColons(host)
    BY <1>1, <1>4 DEF DoubleColonAt, DoubleColons
  <2>2. FirstDouble = 1
    BY <1>1, <2>1, FirstDoubleColon DEF FirstDoubleIs
  <2>3. Listed(host, 1, 0) = <<>>
    BY DEF Listed
  <2>4. head' = Listed(host, 1, FirstDouble - 1) /\ head' \in Seq(Nat) /\ tail = <<>>
    BY <1>4, <2>2, <2>3, EmptySeq DEF NothingTaken
  <2>5. pos' = FirstDouble + 2 /\ \A k \in 1..(FirstDouble - 1) : host[k] # "."
    BY <1>4, <2>2
  <2>6. QED
    BY <1>4, <2>1, <2>4, <2>5, CompressedIsFaithful
<1>5. CASE host[1] = ":" /\ ~DoubleColonAt(1) /\ Fails
  <2>1. AddressesTypeOK' /\ stage' = "done"
    BY <1>5 DEF AddressesTypeOK, Fails, walkVars
  <2>2. 1 \notin DoubleColons(host)
    BY <1>1, <1>5 DEF DoubleColonAt, DoubleColons
  <2>3. ASSUME NEW j \in 1..Len(host), Listed(host, 1, j) # NoAddress PROVE FALSE
    <3>1. Alternate(host, 1, 0)
      BY DEF Alternate
    <3>2. host[1] \in Runs
      <4>1. 1 + 2 * 0 = 1 /\ 1 + 2 * 0 <= j /\ j <= Len(host) /\ j \in Nat
        BY <1>1
      <4>2. QED
        BY <1>1, <2>3, <3>1, <4>1, ListedHere, GroupsAreNumbers
    <3>3. QED
      BY <1>5, <3>2, SignsAreNoGroups
  <2>4. CASE DoubleColons(host) = {}
    <3>1. Listed(host, 1, Len(host)) = NoAddress
      BY <1>1, <1>2, <2>3
    <3>2. QED
      BY <2>1, <2>4, <3>1, Zenon DEF Meaning
  <2>5. CASE DoubleColons(host) # {}
    <3>1. FirstDouble \in DoubleColons(host) /\ FirstDouble \in 1..(Len(host) - 1)
      BY <1>1, <2>5, FirstDoubleColon DEF FirstDoubleIs, DoubleColons
    <3>2. FirstDouble - 1 \in 1..Len(host)
      BY <1>1, <2>2, <3>1
    <3>3. Listed(host, 1, FirstDouble - 1) = NoAddress
      BY <2>3, <3>2
    <3>4. Meaning(host) = NoAddress
      BY <2>5, <3>3, Zenon DEF Meaning, FirstDouble
    <3>5. QED
      BY <2>1, <3>4
  <2>6. QED
    BY <2>4, <2>5
<1>6. QED
  BY <1>3, <1>4, <1>5 DEF BeginParse

LEMMA EndParseFindsMeaning ==
  ASSUME AddressesTypeOK, WalkIsFaithful, EndParse
  PROVE  parsed' = Meaning(host) /\ AddressesTypeOK'
<1>1. /\ pos > Len(host) /\ parsed' = Assemble(head, tail, compressed)
      /\ head \in Seq(Nat) /\ tail \in Seq(Nat) /\ Len(head) \in Nat /\ Len(tail) \in Nat
      /\ pos \in Nat /\ Len(host) \in Nat
  BY LenProperties DEF EndParse, AddressesTypeOK
<1>2. AddressesTypeOK'
  BY DEF AddressesTypeOK, EndParse, walkVars
<1>3. Taken # NoAddress /\ Taken = Listed(host, Start, Len(host))
  BY <1>1 DEF WalkIsFaithful
<1>4. CASE ~compressed
  <2>1. DoubleColons(host) = {}
    BY <1>1, <1>4 DEF WalkIsFaithful, DoubleColons
  <2>2. tail = <<>> /\ head # NoAddress /\ head = Listed(host, 1, Len(host))
    BY <1>3, <1>4 DEF WalkIsFaithful, Start, Taken
  <2>3. Len(head) + Len(tail) = Len(head)
    BY <1>1, <2>2, EmptySeq
  <2>4. Assemble(head, tail, compressed) = IF Len(head) = GroupCount THEN head ELSE NoAddress
    BY <1>4, <2>3 DEF Assemble
  <2>5. Meaning(host) = IF Len(head) = GroupCount THEN head ELSE NoAddress
    BY <2>1, <2>2, Zenon DEF Meaning
  <2>6. QED
    BY <1>1, <1>2, <2>4, <2>5
<1>5. CASE compressed
  <2>1. /\ DoubleColons(host) # {}
        /\ head # NoAddress /\ head = Listed(host, 1, FirstDouble - 1)
        /\ \A k \in 1..(FirstDouble - 1) : host[k] # "."
        /\ tail # NoAddress /\ tail = Listed(host, FirstDouble + 2, Len(host))
    BY <1>3, <1>5 DEF WalkIsFaithful, Start, Taken
  <2>2. Assemble(head, tail, compressed)
          = IF Len(head) + Len(tail) < GroupCount
            THEN head \o Zeros(GroupCount - (Len(head) + Len(tail))) \o tail ELSE NoAddress
    BY <1>5 DEF Assemble
  <2>3. GroupCount - (Len(head) + Len(tail)) = GroupCount - Len(head) - Len(tail)
    BY <1>1, AddressesAssumption
  <2>4. Meaning(host)
          = IF Len(head) + Len(tail) < GroupCount
            THEN head \o Zeros(GroupCount - Len(head) - Len(tail)) \o tail ELSE NoAddress
    BY <2>1, Zenon DEF Meaning, FirstDouble
  <2>5. QED
    BY <1>1, <1>2, <2>2, <2>3, <2>4
<1>6. QED
  BY <1>4, <1>5

-----------------------------------------------------------------------------
(* What is parsed of a spelling is the text that was spelled. *)

LEMMA LongIsNotEmpty == ASSUME NEW s, Len(s) \in Nat, Len(s) >= 1 PROVE s # <<>>
OBVIOUS

\* One text behind another.
LEMMA Behind ==
  ASSUME NEW S, NEW a \in Seq(S), NEW b \in Seq(S)
  PROVE  /\ a \o b \in Seq(S) /\ Len(a \o b) = Len(a) + Len(b)
         /\ \A i \in 1..Len(a) : (a \o b)[i] = a[i]
         /\ \A i \in 1..Len(b) : (a \o b)[Len(a) + i] = b[i]
<1>1. Len(a) \in Nat /\ Len(b) \in Nat
  BY LenProperties
<1>2. /\ a \o b \in Seq(S) /\ Len(a \o b) = Len(a) + Len(b)
      /\ \A i \in 1..(Len(a) + Len(b)) : (a \o b)[i] = IF i <= Len(a) THEN a[i] ELSE b[i - Len(a)]
  BY ConcatProperties
<1>3. \A i \in 1..Len(a) : (a \o b)[i] = a[i]
  BY <1>1, <1>2
<1>4. ASSUME NEW i \in 1..Len(b) PROVE (a \o b)[Len(a) + i] = b[i]
  <2>1. Len(a) + i \in 1..(Len(a) + Len(b)) /\ ~(Len(a) + i <= Len(a)) /\ Len(a) + i - Len(a) = i
    BY <1>1
  <2>2. QED
    BY <1>2, <2>1
<1>5. QED
  BY <1>2, <1>3, <1>4

LEMMA UpToNone ==
  ASSUME NEW S, NEW t \in Seq(S), NEW sign, \A i \in 1..Len(t) : t[i] # sign
  PROVE  UpTo(t, sign) = t
BY LenProperties DEF UpTo, Places

LEMMA UpToFirst ==
  ASSUME NEW S, NEW a \in Seq(S), NEW c \in Seq(S), NEW sign, Len(a) < Len(c),
         \A i \in 1..Len(a) : c[i] = a[i] /\ a[i] # sign,
         c[Len(a) + 1] = sign
  PROVE  UpTo(c, sign) = a
<1> DEFINE u == UpTo(c, sign)
<1>1. /\ u \in Seq(S) /\ Len(u) <= Len(c)
      /\ \A i \in 1..Len(u) : u[i] = c[i] /\ c[i] # sign
      /\ u = c \/ (Len(u) < Len(c) /\ c[Len(u) + 1] = sign)
  BY UpToIsBefore
<1> HIDE DEF u
<1>2. Len(u) \in Nat /\ Len(a) \in Nat /\ Len(c) \in Nat
  BY <1>1, LenProperties
<1>3. Len(u) <= Len(a)
  <2>1. ~(Len(a) + 1 \in 1..Len(u))
    BY <1>1
  <2>2. QED
    BY <1>2, <2>1
<1>4. Len(u) >= Len(a)
  <2>1. SUFFICES ASSUME Len(u) < Len(a) PROVE FALSE
    BY <1>2
  <2>2. u # c
    BY <1>2, <2>1
  <2>3. Len(u) + 1 \in 1..Len(a) /\ c[Len(u) + 1] = sign
    BY <1>1, <1>2, <2>1, <2>2
  <2>4. QED
    BY <2>3
<1>5. Len(u) = Len(a)
  BY <1>2, <1>3, <1>4
<1>6. \A i \in 1..Len(u) : u[i] = a[i]
  BY <1>1, <1>5
<1>7. u = a
  BY <1>1, <1>5, <1>6, SeqEqual
<1>8. QED
  BY <1>7 DEF u

Plain == Runs \cup {":", "."}

\* A text with more behind it, alone or in a bracket.
LEMMA Followed ==
  ASSUME NEW t \in Seq(Plain), NEW more \in Seq(Signs)
  PROVE  /\ t \in Seq(Signs) /\ t \o more \in Seq(Signs)
         /\ Len(t) \in Nat /\ Len(more) \in Nat /\ Len(t \o more) = Len(t) + Len(more)
         /\ \A i \in 1..Len(t) : (t \o more)[i] = t[i] /\ t[i] \in Plain
         /\ \A i \in 1..Len(more) : (t \o more)[Len(t) + i] = more[i]
<1>1. t \in Seq(Signs)
  <2>1. Plain \subseteq Signs
    BY DEF Plain, Signs
  <2>2. QED
    BY <2>1, SeqMonotonic
<1>2. Len(t) \in Nat /\ Len(more) \in Nat
  BY LenProperties
<1>3. /\ t \o more \in Seq(Signs) /\ Len(t \o more) = Len(t) + Len(more)
      /\ \A i \in 1..(Len(t) + Len(more)) :
           (t \o more)[i] = IF i <= Len(t) THEN t[i] ELSE more[i - Len(t)]
  BY <1>1, ConcatProperties
<1>4. \A i \in 1..Len(t) : (t \o more)[i] = t[i]
  BY <1>2, <1>3
<1>5. ASSUME NEW i \in 1..Len(more) PROVE (t \o more)[Len(t) + i] = more[i]
  <2>1. Len(t) + i \in 1..(Len(t) + Len(more)) /\ ~(Len(t) + i <= Len(t)) /\ Len(t) + i - Len(t) = i
    BY <1>2
  <2>2. QED
    BY <1>3, <2>1
<1>6. \A i \in 1..Len(t) : t[i] \in Plain
  BY ElementOfSeq
<1>7. QED
  BY <1>1, <1>2, <1>3, <1>4, <1>5, <1>6

LEMMA InBracket ==
  ASSUME NEW t \in Seq(Plain), NEW more \in Seq(Signs)
  PROVE  /\ <<"[">> \o t \o more \in Seq(Signs)
         /\ <<"[">> \o t \o more # <<>>
         /\ (<<"[">> \o t \o more)[1] = "["
         /\ Tail(<<"[">> \o t \o more) = t \o more
<1> DEFINE h == <<"[">> \o t \o more
           inner == t \o more
<1>1. /\ t \in Seq(Signs) /\ inner \in Seq(Signs) /\ <<"[">> \in Seq(Signs) /\ Len(<<"[">>) = 1
  BY Followed DEF Signs
<1>2. h = <<"[">> \o inner
  BY <1>1, ConcatAssociative
<1>3. /\ h \in Seq(Signs) /\ Len(h) = 1 + Len(inner) /\ Len(inner) \in Nat
      /\ \A i \in 1..(1 + Len(inner)) : h[i] = IF i <= 1 THEN <<"[">>[i] ELSE inner[i - 1]
  BY <1>1, <1>2, ConcatProperties, LenProperties
<1> HIDE DEF h, inner
<1>4. h[1] = "[" /\ h # <<>>
  BY <1>3
<1>5. /\ Tail(h) \in Seq(Signs) /\ Len(Tail(h)) = Len(inner)
      /\ \A i \in 1..Len(Tail(h)) : Tail(h)[i] = h[i + 1]
  BY <1>3, <1>4, HeadTailProperties
<1>6. ASSUME NEW i \in 1..Len(inner) PROVE Tail(h)[i] = inner[i]
  <2>1. i + 1 \in 1..(1 + Len(inner)) /\ ~(i + 1 <= 1) /\ i + 1 - 1 = i
    BY <1>3
  <2>2. QED
    BY <1>3, <1>5, <2>1
<1>7. Tail(h) = inner
  BY <1>1, <1>5, <1>6, SeqEqual
<1>8. QED
  BY <1>3, <1>4, <1>7 DEF h, inner

LEMMA PlainSigns ==
  \A sign \in Plain : sign # "%" /\ sign # "[" /\ sign # "]"
BY RunsAreNoSigns DEF Plain

\* Up to a sign that a plain text does not have.
LEMMA UpToBehind ==
  ASSUME NEW t \in Seq(Plain), NEW more \in Seq(Signs), more # <<>>, NEW sign \in {"%", "]"},
         more[1] = sign
  PROVE  UpTo(t \o more, sign) = t
<1>1. Len(more) >= 1 /\ Len(more) \in Nat
  BY LenProperties, EmptySeq
<1>2. /\ t \in Seq(Signs) /\ t \o more \in Seq(Signs) /\ Len(t) < Len(t \o more)
      /\ \A i \in 1..Len(t) : (t \o more)[i] = t[i] /\ t[i] # sign
      /\ (t \o more)[Len(t) + 1] = sign
  BY <1>1, Followed, PlainSigns
<1>3. QED
  BY <1>2, UpToFirst

\* A bracketed text is found again.
LEMMA BareOfBracketed ==
  ASSUME NEW t \in Seq(Plain), NEW h \in Bracketed(t)
  PROVE  Bare(h) = t /\ h \in Seq(Signs)
<1>1. {Zone, Port, "]", ":", "%"} \subseteq Signs
  BY AddressesAssumption DEF Signs
<1>2. UpTo(t, "%") = t
  <2>1. \A i \in 1..Len(t) : t[i] # "%"
    BY ElementOfSeq, PlainSigns
  <2>2. QED
    BY <2>1, UpToNone
<1>3. ASSUME NEW more \in Seq(Signs), h = <<"[">> \o t \o more,
             \E i \in 1..Len(more) : more[i] = "]"
      PROVE  /\ h \in Seq(Signs)
             /\ Bare(h) = UpTo(UpTo(t \o more, "]"), "%")
  <2>1. h \in Seq(Signs) /\ h # <<>> /\ h[1] = "[" /\ Tail(h) = t \o more
    BY <1>3, InBracket
  <2>2. PICK i \in 1..Len(more) : more[i] = "]"
    BY <1>3
  <2>3. (t \o more)[Len(t) + i] = "]" /\ Len(t) + i \in 1..Len(t \o more)
    BY <2>2, Followed
  <2>4. Tail(h)[Len(t) + i] = h[Len(t) + i + 1] /\ Len(t) + i + 1 \in DOMAIN h
    BY <2>1, <2>3, HeadTailProperties, LenProperties
  <2>5. Places(h, "]") # {}
    BY <2>1, <2>3, <2>4 DEF Places
  <2>6. QED
    BY <2>1, <2>5 DEF Bare
<1>4. CASE h = <<"[">> \o t \o <<"]">>
  <2>1. <<"]">> \in Seq(Signs) /\ <<"]">>[1] = "]" /\ Len(<<"]">>) = 1 /\ <<"]">> # <<>>
    BY <1>1
  <2>2. \E i \in 1..Len(<<"]">>) : <<"]">>[i] = "]"
    BY <2>1
  <2>3. h \in Seq(Signs) /\ Bare(h) = UpTo(UpTo(t \o <<"]">>, "]"), "%")
    BY <1>3, <1>4, <2>1, <2>2
  <2>4. UpTo(t \o <<"]">>, "]") = t
    BY <2>1, UpToBehind
  <2>5. QED
    BY <1>2, <2>3, <2>4
<1>5. CASE h = <<"[">> \o t \o <<"]", ":", Port>>
  <2> DEFINE more == <<"]", ":", Port>>
  <2>1. more \in Seq(Signs) /\ more[1] = "]" /\ Len(more) = 3 /\ more # <<>>
    BY <1>1
  <2> HIDE DEF more
  <2>2. h = <<"[">> \o t \o more
    BY <1>5 DEF more
  <2>3. \E i \in 1..Len(more) : more[i] = "]"
    BY <2>1
  <2>4. h \in Seq(Signs) /\ Bare(h) = UpTo(UpTo(t \o more, "]"), "%")
    BY <1>3, <2>1, <2>2, <2>3
  <2>5. UpTo(t \o more, "]") = t
    BY <2>1, UpToBehind
  <2>6. QED
    BY <1>2, <2>4, <2>5
<1>6. CASE h = <<"[">> \o t \o <<"%", Zone, "]">>
  <2> DEFINE more == <<"%", Zone, "]">>
             zoned == t \o <<"%", Zone>>
  <2>1. /\ more \in Seq(Signs) /\ Len(more) = 3 /\ more # <<>>
        /\ more[1] = "%" /\ more[2] = Zone /\ more[3] = "]"
        /\ <<"%", Zone>> \in Seq(Signs) /\ <<"%", Zone>> # <<>> /\ Len(<<"%", Zone>>) = 2
        /\ <<"%", Zone>>[1] = "%" /\ <<"%", Zone>>[2] = Zone
    BY <1>1
  <2> HIDE DEF more
  <2>2. h = <<"[">> \o t \o more
    BY <1>6 DEF more
  <2>3. Zone # "]"
    BY AddressesAssumption, SignsAreNoGroups
  <2>4. /\ zoned \in Seq(Signs) /\ Len(zoned) = Len(t) + 2 /\ Len(t) \in Nat
        /\ \A i \in 1..Len(t) : zoned[i] = t[i] /\ t[i] \in Plain
        /\ zoned[Len(t) + 1] = "%" /\ zoned[Len(t) + 2] = Zone
    BY <2>1, Followed
  <2>5. /\ t \o more \in Seq(Signs) /\ Len(t \o more) = Len(t) + 3
        /\ \A i \in 1..Len(t) : (t \o more)[i] = t[i]
        /\ (t \o more)[Len(t) + 1] = "%" /\ (t \o more)[Len(t) + 2] = Zone
        /\ (t \o more)[Len(t) + 3] = "]"
    <3>1. /\ t \o more \in Seq(Signs) /\ Len(t \o more) = Len(t) + Len(more)
          /\ \A i \in 1..Len(t) : (t \o more)[i] = t[i]
          /\ \A i \in 1..Len(more) : (t \o more)[Len(t) + i] = more[i]
      BY <2>1, Followed
    <3>2. 1 \in 1..Len(more) /\ 2 \in 1..Len(more) /\ 3 \in 1..Len(more)
      BY <2>1
    <3>3. QED
      BY <2>1, <3>1, <3>2
  <2> HIDE DEF zoned
  <2>6. ASSUME NEW i \in 1..Len(zoned) PROVE (t \o more)[i] = zoned[i] /\ zoned[i] # "]"
    <3>1. i \in 1..Len(t) \/ i = Len(t) + 1 \/ i = Len(t) + 2
      BY <2>4
    <3>2. QED
      BY <2>3, <2>4, <2>5, <3>1, PlainSigns
  <2>7. UpTo(t \o more, "]") = zoned
    <3>1. Len(zoned) < Len(t \o more) /\ (t \o more)[Len(zoned) + 1] = "]"
      <4>1. Len(zoned) + 1 = Len(t) + 3 /\ Len(t) + 2 < Len(t) + 3
        <5>1. \A n \in Nat : (n + 2) + 1 = n + 3 /\ n + 2 < n + 3
          OBVIOUS
        <5>2. QED
          BY <2>4, <5>1
      <4>2. QED
        BY <2>4, <2>5, <4>1
    <3>2. QED
      <4>1. PICK long : long = t \o more
        OBVIOUS
      <4>2. /\ long \in Seq(Signs) /\ zoned \in Seq(Signs) /\ Len(zoned) < Len(long)
            /\ \A i \in 1..Len(zoned) : long[i] = zoned[i] /\ zoned[i] # "]"
            /\ long[Len(zoned) + 1] = "]"
        BY <2>4, <2>5, <2>6, <3>1, <4>1, Zenon
      <4>3. UpTo(long, "]") = zoned
        BY <4>2, UpToFirst
      <4>4. QED
        BY <4>1, <4>3
  <2>8. UpTo(zoned, "%") = t
    BY <2>1, UpToBehind DEF zoned
  <2>9. \E i \in 1..Len(more) : more[i] = "]"
    BY <2>1
  <2>10. h \in Seq(Signs) /\ Bare(h) = UpTo(UpTo(t \o more, "]"), "%")
    BY <1>3, <2>1, <2>2, <2>9
  <2>11. QED
    BY <2>7, <2>8, <2>10
<1>7. QED
  BY <1>4, <1>5, <1>6 DEF Bracketed

\* A zone behind a text changes neither its colons nor its dots.
LEMMA ZonedText ==
  ASSUME NEW t \in Seq(Plain), NEW h, h = t \o <<"%", Zone>>
  PROVE  /\ h \in Seq(Signs) /\ h # <<>> /\ h[1] # "[" /\ Len(h) = Len(t) + 2
         /\ \A i \in 1..Len(t) : h[i] = t[i]
         /\ \A sign \in {":", "."} : Places(h, sign) = Places(t, sign)
         /\ UpTo(h, "%") = t
<1> DEFINE more == <<"%", Zone>>
<1>1. more \in Seq(Signs) /\ more # <<>> /\ Len(more) = 2 /\ more[1] = "%" /\ more[2] = Zone
  BY AddressesAssumption DEF Signs
<1>2. h = t \o more
  OBVIOUS
<1> HIDE DEF more
<1>3. Len(t) \in Nat /\ DOMAIN t = 1..Len(t)
  BY LenProperties
<1>4. /\ h \in Seq(Signs) /\ Len(h) = Len(t) + Len(more)
      /\ \A i \in 1..Len(t) : h[i] = t[i] /\ t[i] \in Plain
      /\ \A i \in 1..Len(more) : h[Len(t) + i] = more[i]
  BY <1>1, <1>2, Followed
<1>5. h[Len(t) + 1] = "%" /\ h[Len(t) + 2] = Zone /\ Len(h) = Len(t) + 2
  <2>1. 1 \in 1..Len(more) /\ 2 \in 1..Len(more)
    BY <1>1
  <2>2. QED
    BY <1>1, <1>4, <2>1
<1>6. DOMAIN h = 1..(Len(t) + 2)
  BY <1>4, <1>5, LenProperties
<1>7. Zone # ":" /\ Zone # "."
  BY AddressesAssumption, SignsAreNoGroups
<1>8. ASSUME NEW sign \in {":", "."} PROVE Places(h, sign) = Places(t, sign)
  <2>1. ASSUME NEW i \in 1..(Len(t) + 2), h[i] = sign PROVE i \in 1..Len(t) /\ t[i] = sign
    <3>1. i # Len(t) + 1 /\ i # Len(t) + 2
      BY <1>5, <1>7, <2>1
    <3>2. i \in 1..Len(t)
      BY <1>3, <3>1
    <3>3. QED
      BY <1>4, <2>1, <3>2
  <2>2. ASSUME NEW i \in 1..Len(t), t[i] = sign PROVE i \in 1..(Len(t) + 2) /\ h[i] = sign
    BY <1>3, <1>4, <2>2
  <2>3. QED
    BY <1>3, <1>6, <2>1, <2>2 DEF Places
<1>9. h # <<>>
  <2>1. Len(h) \in Nat /\ Len(h) >= 1
    BY <1>3, <1>5
  <2>2. QED
    BY <2>1, LongIsNotEmpty, Zenon
<1>10. h[1] # "["
  <2>1. CASE Len(t) = 0
    BY <1>5, <2>1
  <2>2. CASE Len(t) >= 1
    <3>1. 1 \in 1..Len(t)
      BY <1>3, <2>2
    <3>2. QED
      BY <1>4, <3>1, PlainSigns
  <2>3. QED
    BY <1>3, <2>1, <2>2
<1>11. UpTo(h, "%") = t
  BY <1>1, <1>2, UpToBehind
<1>12. QED
  BY <1>4, <1>5, <1>8, <1>9, <1>10, <1>11

\* Alone or with a zone, unless it reads as a host and its port.
LEMMA BareOfPlain ==
  ASSUME NEW t \in Seq(Plain), NEW h \in {t, t \o <<"%", Zone>>},
         ~((\E i \in DOMAIN t : Places(t, ":") = {i}) /\ Places(t, ".") # {})
  PROVE  Bare(h) = t
<1>1. UpTo(t, "%") = t
  <2>1. \A i \in 1..Len(t) : t[i] # "%"
    BY ElementOfSeq, PlainSigns
  <2>2. QED
    BY <2>1, UpToNone
<1>2. t # <<>> => t[1] # "["
  BY LenProperties, EmptySeq, ElementOfSeq, PlainSigns
<1>3. CASE h = t
  BY <1>1, <1>2, <1>3, Zenon DEF Bare
<1>4. CASE h = t \o <<"%", Zone>>
  <2>1. /\ h # <<>> /\ h[1] # "[" /\ UpTo(h, "%") = t
        /\ Places(h, ":") = Places(t, ":") /\ Places(h, ".") = Places(t, ".")
    BY <1>4, ZonedText
  <2>2. ~((\E i \in DOMAIN h : Places(h, ":") = {i}) /\ Places(h, ".") # {})
    <3>1. SUFFICES ASSUME NEW i \in DOMAIN h, Places(h, ":") = {i}, Places(h, ".") # {}
                   PROVE  FALSE
      OBVIOUS
    <3>2. Places(t, ":") = {i} /\ Places(t, ".") # {}
      BY <2>1, <3>1
    <3>3. i \in DOMAIN t
      BY <3>2 DEF Places
    <3>4. QED
      BY <3>2, <3>3
  <2>3. Bare(h) = UpTo(h, "%")
    BY <2>1, <2>2, Zenon DEF Bare
  <2>4. QED
    BY <2>1, <2>3
<1>5. QED
  BY <1>3, <1>4

\* What reads as a host and its port is cut before its colon.
LEMMA BareBeforePort ==
  ASSUME NEW t \in Seq(Plain), NEW h \in {t, t \o <<"%", Zone>>},
         NEW p \in DOMAIN t, Places(t, ":") = {p}, Places(t, ".") # {}
  PROVE  Bare(h) = UpTo(t, ":") /\ Places(UpTo(t, ":"), ":") = {}
<1> DEFINE b == UpTo(t, ":")
<1>1. /\ b \in Seq(Plain) /\ Len(b) <= Len(t)
      /\ \A i \in 1..Len(b) : b[i] = t[i] /\ t[i] # ":"
      /\ b = t \/ (Len(b) < Len(t) /\ t[Len(b) + 1] = ":")
  BY UpToIsBefore
<1>2. t[p] = ":" /\ p \in 1..Len(t) /\ Len(t) \in Nat
  BY LenProperties DEF Places
<1> HIDE DEF b
<1>3. Len(b) \in Nat /\ DOMAIN b = 1..Len(b)
  BY <1>1, LenProperties
<1>4. b # t
  BY <1>1, <1>2
<1>5. Places(b, ":") = {}
  BY <1>1, <1>3 DEF Places
<1>6. UpTo(b, "%") = b
  <2>1. \A i \in 1..Len(b) : b[i] # "%"
    BY <1>1, ElementOfSeq, PlainSigns
  <2>2. QED
    BY <1>1, <2>1, UpToNone
<1>7. t # <<>> /\ t[1] # "["
  <2>1. Len(t) >= 1 /\ 1 \in 1..Len(t)
    BY <1>2
  <2>2. t # <<>>
    BY <1>2, <2>1, LongIsNotEmpty, Zenon
  <2>3. t[1] \in Plain
    BY <2>1, ElementOfSeq
  <2>4. QED
    BY <2>2, <2>3, PlainSigns
<1>8. CASE h = t
  <2>1. (\E i \in DOMAIN h : Places(h, ":") = {i}) /\ Places(h, ".") # {}
    BY <1>8
  <2>2. Bare(h) = UpTo(UpTo(h, ":"), "%")
    BY <1>7, <1>8, <2>1, Zenon DEF Bare
  <2>3. QED
    BY <1>5, <1>6, <1>8, <2>2 DEF b
<1>9. CASE h = t \o <<"%", Zone>>
  <2>1. /\ h \in Seq(Signs) /\ h # <<>> /\ h[1] # "[" /\ Len(h) = Len(t) + 2
        /\ \A i \in 1..Len(t) : h[i] = t[i]
        /\ Places(h, ":") = Places(t, ":") /\ Places(h, ".") = Places(t, ".")
    BY <1>9, ZonedText
  <2>2. p \in DOMAIN h
    <3>1. p \in Places(h, ":")
      BY <2>1
    <3>2. QED
      BY <3>1 DEF Places
  <2>3. Bare(h) = UpTo(UpTo(h, ":"), "%")
    BY <2>1, <2>2, Zenon DEF Bare
  <2>4. UpTo(h, ":") = b
    <3>1. b \in Seq(Signs)
      <4>1. Plain \subseteq Signs
        BY DEF Plain, Signs
      <4>2. QED
        BY <1>1, <4>1, SeqMonotonic
    <3>2. Len(b) < Len(t) /\ t[Len(b) + 1] = ":" /\ Len(b) + 1 \in 1..Len(t)
      BY <1>1, <1>2, <1>3, <1>4
    <3>3. Len(b) < Len(h) /\ h[Len(b) + 1] = ":"
      BY <1>2, <1>3, <2>1, <3>2
    <3>4. ASSUME NEW i \in 1..Len(b) PROVE h[i] = b[i] /\ b[i] # ":"
      <4>1. i \in 1..Len(t)
        BY <1>2, <1>3, <3>2
      <4>2. QED
        BY <1>1, <2>1, <4>1
    <3>5. \A i \in 1..Len(b) : h[i] = b[i] /\ b[i] # ":"
      BY <3>4
    <3>6. h \in Seq(Signs)
      BY <2>1
    <3>7. QED
      BY <3>1, <3>3, <3>5, <3>6, UpToFirst, Zenon
  <2>5. QED
    BY <1>5, <1>6, <2>3, <2>4 DEF b
<1>10. QED
  BY <1>8, <1>9

\* A text that means an address has two colons.
LEMMA MeaningHasColons ==
  ASSUME NEW t \in Seq(Plain), Meaning(t) # NoAddress
  PROVE  \E i, j \in DOMAIN t : i # j /\ t[i] = ":" /\ t[j] = ":"
<1>1. Len(t) \in Nat /\ DOMAIN t = 1..Len(t)
  BY LenProperties
<1>2. CASE DoubleColons(t) # {}
  <2>1. PICK i \in DoubleColons(t) : TRUE
    BY <1>2
  <2>2. i \in 1..Len(t) /\ i + 1 \in 1..Len(t) /\ i # i + 1 /\ t[i] = ":" /\ t[i + 1] = ":"
    BY <1>1, <2>1 DEF DoubleColons
  <2>3. QED
    BY <1>1, <2>2
<1>3. CASE DoubleColons(t) = {}
  <2>1. Listed(t, 1, Len(t)) # NoAddress /\ Len(Listed(t, 1, Len(t))) = GroupCount
    BY <1>3, Zenon DEF Meaning
  <2>2. GroupCount >= 4 /\ GroupCount \in Nat
    BY AddressesAssumption
  <2>3. 1 <= Len(t)
    <3>1. SUFFICES ASSUME Len(t) < 1 PROVE FALSE
      BY <1>1
    <3>2. Listed(t, 1, Len(t)) = <<>>
      BY <3>1, Zenon DEF Listed
    <3>3. QED
      BY <2>1, <2>2, <3>2, EmptySeq
  <2>4. PICK n \in Nat :
           /\ Alternate(t, 1, n)
           /\ \/ Len(t) = 1 + 2 * n /\ IsGroup(t[Len(t)]) /\ \A k \in 1..Len(t) : t[k] # "."
              \/ /\ Len(t) = 1 + 2 * n + 6 /\ IsQuad(SubSeq(t, Len(t) - 6, Len(t)))
                 /\ \E k \in 1..Len(t) : t[k] = "."
    <3>1. 1 \in Nat /\ Len(t) \in Nat
      BY <1>1
    <3>2. QED
      BY <2>1, <2>3, <3>1, ListedShape, Zenon
  <2>5. n >= 2
    <3>1. HexGroups(t, 1, n) \in Seq(Nat) /\ Len(HexGroups(t, 1, n)) = n
      BY <2>4, HexGroupsAreGroups
    <3>2. CASE Len(t) = 1 + 2 * n /\ IsGroup(t[Len(t)])
      <4>1. IsGroup(t[1 + 2 * n])
        BY <3>2
      <4>2. Listed(t, 1, Len(t)) = HexGroups(t, 1, n + 1)
        BY <1>1, <2>4, <3>2, ListedPlain
      <4>3. HexGroups(t, 1, n + 1) = HexGroups(t, 1, n) \o <<HexOf[t[1 + 2 * n]]>>
        BY <2>4, <4>1, HexGroupsGrow
      <4>4. <<HexOf[t[1 + 2 * n]]>> \in Seq(Nat) /\ Len(<<HexOf[t[1 + 2 * n]]>>) = 1
        BY <4>1, GroupsAreNumbers
      <4>5. Len(Listed(t, 1, Len(t))) = n + 1
        BY <3>1, <4>2, <4>3, <4>4, ConcatProperties
      <4>6. QED
        BY <2>1, <2>2, <4>5
    <3>3. CASE /\ Len(t) = 1 + 2 * n + 6 /\ IsQuad(SubSeq(t, Len(t) - 6, Len(t)))
               /\ \E k \in 1..Len(t) : t[k] = "."
      <4> DEFINE g == GroupsOf(ParseIpv4(SubSeq(t, Len(t) - 6, Len(t))))
      <4>1. Listed(t, 1, Len(t)) = HexGroups(t, 1, n) \o g
        BY <1>1, <2>4, <3>3, ListedDotted, Zenon
      <4>2. g \in Seq(Nat) /\ Len(g) = 2
        BY <3>3, QuadsAreNumbers
      <4> HIDE DEF g
      <4>3. Len(HexGroups(t, 1, n) \o g) = n + 2
        <5>1. \A a, b \in Seq(Nat) : Len(a \o b) = Len(a) + Len(b)
          BY ConcatProperties
        <5>2. QED
          BY <3>1, <4>2, <5>1, Zenon
      <4>4. Len(Listed(t, 1, Len(t))) = n + 2
        BY <4>1, <4>3, Zenon
      <4>5. QED
        BY <2>1, <2>2, <4>4
    <3>4. QED
      BY <2>4, <3>2, <3>3
  <2>6. t[2] = ":" /\ t[4] = ":"
    <3>1. 1 \in 1..n /\ 2 \in 1..n /\ 1 + 2 * 1 - 1 = 2 /\ 1 + 2 * 2 - 1 = 4
      BY <2>5
    <3>2. t[1 + 2 * 1 - 1] = ":" /\ t[1 + 2 * 2 - 1] = ":"
      BY <2>4, <3>1 DEF Alternate
    <3>3. QED
      BY <3>2
  <2>7. 2 \in 1..Len(t) /\ 4 \in 1..Len(t)
    <3>1. \A l \in Nat : l = 1 + 2 * n \/ l = 1 + 2 * n + 6 => 2 \in 1..l /\ 4 \in 1..l
      BY <2>5
    <3>2. QED
      BY <1>1, <2>4, <3>1, Zenon
  <2>8. QED
    BY <1>1, <2>6, <2>7
<1>4. QED
  BY <1>2, <1>3

\* A quad has neither colons nor a meaning of its own, and is found behind a
\* port or a zone, or alone.
LEMMA QuadIsNoIpv6 ==
  ASSUME NEW t \in Seq(Plain), IsQuad(t)
  PROVE  Places(t, ":") = {} /\ Places(t, "%") = {} /\ Meaning(t) = NoAddress
<1>1. Len(t) = 7 /\ DOMAIN t = 1..7
  BY LenProperties DEF IsQuad
<1>2. /\ t[1] \in Runs /\ t[3] \in Runs /\ t[5] \in Runs /\ t[7] \in Runs
      /\ t[2] = "." /\ t[4] = "." /\ t[6] = "."
  BY DEF IsQuad
<1>3. ASSUME NEW i \in 1..7 PROVE t[i] # ":" /\ t[i] # "%"
  <2>1. i = 1 \/ i = 2 \/ i = 3 \/ i = 4 \/ i = 5 \/ i = 6 \/ i = 7
    OBVIOUS
  <2>2. QED
    BY <1>2, <2>1, SignsAreNoGroups
<1>4. Places(t, ":") = {} /\ Places(t, "%") = {}
  BY <1>1, <1>3 DEF Places
<1>5. Meaning(t) = NoAddress
  BY <1>1, <1>3, MeaningHasColons
<1>6. QED
  BY <1>4, <1>5

LEMMA BareOfQuad ==
  ASSUME NEW t \in Seq(Plain), IsQuad(t),
         NEW h \in Spellings(t) \cup {t \o <<":", Port>>}
  PROVE  Bare(h) = t
<1>1. Places(t, ":") = {} /\ Places(t, "%") = {}
  BY QuadIsNoIpv6
<1>2. CASE h \in Bracketed(t)
  BY <1>2, BareOfBracketed
<1>3. CASE h \in {t, t \o <<"%", Zone>>}
  BY <1>1, <1>3, BareOfPlain
<1>4. CASE h = t \o <<":", Port>>
  <2> DEFINE more == <<":", Port>>
  <2>1. more \in Seq(Signs) /\ Len(more) = 2 /\ more[1] = ":" /\ more[2] = Port
    BY AddressesAssumption DEF Signs
  <2> HIDE DEF more
  <2>2. Len(t) = 7 /\ DOMAIN t = 1..7
    BY LenProperties DEF IsQuad
  <2>3. h = t \o more
    BY <1>4 DEF more
  <2>4. /\ t \in Seq(Signs) /\ h \in Seq(Signs) /\ Len(h) = 9
        /\ \A i \in 1..7 : h[i] = t[i] /\ t[i] \in Plain
        /\ h[8] = ":" /\ h[9] = Port
    <3>1. /\ t \in Seq(Signs) /\ h \in Seq(Signs) /\ Len(h) = Len(t) + Len(more)
          /\ \A i \in 1..Len(t) : h[i] = t[i] /\ t[i] \in Plain
          /\ \A i \in 1..Len(more) : h[Len(t) + i] = more[i]
      BY <2>1, <2>3, Followed
    <3>2. 1 \in 1..Len(more) /\ 2 \in 1..Len(more)
      BY <2>1
    <3>3. h[7 + 1] = ":" /\ h[7 + 2] = Port
      BY <2>1, <2>2, <3>1, <3>2
    <3>4. QED
      BY <2>1, <2>2, <3>1, <3>3
  <2>5. \A i \in 1..7 : t[i] # ":"
    BY <1>1, <2>2 DEF Places
  <2>6. Port # ":"
    BY AddressesAssumption, SignsAreNoGroups
  <2>7. DOMAIN h = 1..9
    BY <2>4, LenProperties
  <2>8. ASSUME NEW i \in 1..9 PROVE h[i] = ":" <=> i = 8
    <3>1. i \in 1..7 \/ i = 8 \/ i = 9
      OBVIOUS
    <3>2. QED
      BY <2>4, <2>5, <2>6, <3>1
  <2>9. Places(h, ":") = {8} /\ 8 \in DOMAIN h
    BY <2>7, <2>8 DEF Places
  <2>10. Places(h, ".") # {}
    <3>1. h[2] = "." /\ 2 \in DOMAIN h
      BY <2>4, <2>7 DEF IsQuad
    <3>2. QED
      BY <3>1 DEF Places
  <2>11. h # <<>> /\ h[1] # "["
    <3>1. h # <<>>
      <4>1. Len(h) \in Nat /\ Len(h) >= 1
        BY <2>4
      <4>2. QED
        BY <4>1, LongIsNotEmpty, Zenon
    <3>2. 1 \in 1..7
      OBVIOUS
    <3>3. h[1] # "["
      BY <2>4, <3>2, PlainSigns
    <3>4. QED
      BY <3>1, <3>3
  <2>12. Bare(h) = UpTo(UpTo(h, ":"), "%")
    BY <2>9, <2>10, <2>11, Zenon DEF Bare
  <2>13. UpTo(h, ":") = t
    <3>1. Len(t) < Len(h) /\ h[Len(t) + 1] = ":"
      BY <2>2, <2>4
    <3>2. \A i \in 1..Len(t) : h[i] = t[i] /\ t[i] # ":"
      BY <2>2, <2>4, <2>5
    <3>3. QED
      BY <2>4, <3>1, <3>2, UpToFirst
  <2>14. UpTo(t, "%") = t
    BY <1>1 DEF UpTo
  <2>15. QED
    BY <2>12, <2>13, <2>14
<1>5. QED
  BY <1>2, <1>3, <1>4 DEF Spellings

MappedMarks == <<":", ":", MappedMark, ":">>

LEMMA MappedText ==
  ASSUME NEW t \in Seq(Plain), IsQuad(t), NEW h, h = MappedMarks \o t
  PROVE  /\ h \in Seq(Plain) /\ Len(h) = 11 /\ Len(t) = 7
         /\ h[1] = ":" /\ h[2] = ":" /\ h[3] = MappedMark /\ h[4] = ":"
         /\ \A i \in 1..7 : h[4 + i] = t[i]
<1>1. MappedMark \in Runs
  BY AddressesAssumption
<1>2. /\ MappedMarks \in Seq(Plain) /\ Len(MappedMarks) = 4
      /\ MappedMarks[1] = ":" /\ MappedMarks[2] = ":"
      /\ MappedMarks[3] = MappedMark /\ MappedMarks[4] = ":"
  BY <1>1 DEF Plain, MappedMarks
<1>3. Len(t) = 7
  BY DEF IsQuad
<1>4. /\ h \in Seq(Plain) /\ Len(h) = Len(MappedMarks) + Len(t)
      /\ \A i \in 1..Len(MappedMarks) : h[i] = MappedMarks[i]
      /\ \A i \in 1..Len(t) : h[Len(MappedMarks) + i] = t[i]
  <2>1. \A a, b \in Seq(Plain) :
          /\ a \o b \in Seq(Plain) /\ Len(a \o b) = Len(a) + Len(b)
          /\ \A i \in 1..Len(a) : (a \o b)[i] = a[i]
          /\ \A i \in 1..Len(b) : (a \o b)[Len(a) + i] = b[i]
    BY Behind
  <2>2. QED
    BY <1>2, <2>1, Zenon
<1>5. 1 \in 1..4 /\ 2 \in 1..4 /\ 3 \in 1..4 /\ 4 \in 1..4 /\ 4 + 7 = 11
  OBVIOUS
<1>6. h[1] = ":" /\ h[2] = ":" /\ h[3] = MappedMark /\ h[4] = ":"
  BY <1>2, <1>4, <1>5, Zenon
<1>7. \A i \in 1..7 : h[4 + i] = t[i]
  BY <1>2, <1>3, <1>4, Zenon
<1>8. Len(h) = 11
  BY <1>2, <1>3, <1>4, <1>5, Zenon
<1>9. QED
  BY <1>3, <1>4, <1>6, <1>7, <1>8, Zenon

LEMMA BareOfMapped ==
  ASSUME NEW t \in Seq(Plain), IsQuad(t), NEW h, h = MappedMarks \o t
  PROVE  h \in Seq(Signs) /\ Bare(h) = h /\ Places(h, ":") # {}
<1>1. h \in Seq(Plain) /\ Len(h) = 11 /\ h[1] = ":" /\ h[2] = ":"
  BY MappedText, Zenon
<1>2. DOMAIN h = 1..11
  BY <1>1, LenProperties
<1>3. h \in Seq(Signs) /\ \A i \in 1..Len(h) : h[i] # "%"
  <2>1. Plain \subseteq Signs
    BY DEF Plain, Signs
  <2>2. \A i \in 1..Len(h) : h[i] \in Plain
    BY <1>1, ElementOfSeq
  <2>3. QED
    BY <1>1, <2>1, <2>2, SeqMonotonic, PlainSigns
<1>4. 1 \in Places(h, ":") /\ 2 \in Places(h, ":")
  BY <1>1, <1>2 DEF Places
<1>5. ~((\E i \in DOMAIN h : Places(h, ":") = {i}) /\ Places(h, ".") # {})
  BY <1>4
<1>6. h # <<>> /\ h[1] # "["
  BY <1>1, LongIsNotEmpty
<1>7. UpTo(h, "%") = h
  BY <1>1, <1>3, UpToNone
<1>8. Bare(h) = h
  BY <1>5, <1>6, <1>7, Zenon DEF Bare
<1>9. QED
  BY <1>3, <1>4, <1>8

\* After "::" a mapped quad lists ffff and the quad's two groups.
LEMMA MappedLists ==
  ASSUME NEW t \in Seq(Plain), IsQuad(t), NEW h, h = MappedMarks \o t
  PROVE  Listed(h, 3, 11) = <<HexOf[MappedMark]>> \o GroupsOf(ParseIpv4(t))
<1>1. /\ h \in Seq(Plain) /\ Len(h) = 11 /\ Len(t) = 7
      /\ h[3] = MappedMark /\ h[4] = ":" /\ \A i \in 1..7 : h[4 + i] = t[i]
  BY MappedText, Zenon
<1>2. IsGroup(h[3])
  BY <1>1, AddressesAssumption, RunsAreNumbers DEF IsGroup
<1>3. Alternate(h, 3, 0) /\ HexGroups(h, 3, 0) = <<>>
  BY DEF Alternate, HexGroups
<1>4. 3 + 2 * 0 = 3 /\ 3 + 2 * 0 + 1 = 4 /\ 0 + 1 = 1
  OBVIOUS
<1>5. Alternate(h, 3, 1) /\ HexGroups(h, 3, 1) = <<>> \o <<HexOf[h[3]]>>
  <2>1. IsGroup(h[3 + 2 * 0]) /\ h[3 + 2 * 0 + 1] = ":"
    BY <1>1, <1>2, <1>4
  <2>2. Alternate(h, 3, 0 + 1) /\ HexGroups(h, 3, 0 + 1) = HexGroups(h, 3, 0) \o <<HexOf[h[3 + 2 * 0]]>>
    BY <1>3, <2>1, HexGroupsGrow
  <2>3. QED
    BY <1>3, <1>4, <2>2
<1>6. SubSeq(h, 5, 11) = t
  <2>1. \A l \in {11} : 5 \in 1..l /\ l - 5 + 1 = 7
    OBVIOUS
  <2>2. 5 \in 1..Len(h) /\ Len(h) - 5 + 1 = 7
    BY <1>1, <2>1, Zenon
  <2>3. /\ From(h, 5) \in Seq(Plain)
        /\ Len(From(h, 5)) = Len(h) - 5 + 1
        /\ \A k \in 1..(Len(h) - 5 + 1) : From(h, 5)[k] = h[5 + k - 1]
    BY <1>1, <2>2, FromIsRest, ZenonT(40)
  <2>4. \A k \in 1..7 : 5 + k - 1 = 4 + k
    OBVIOUS
  <2>5. Len(From(h, 5)) = Len(t)
    BY <1>1, <2>2, <2>3, Zenon
  <2>6. \A k \in 1..7 : From(h, 5)[k] = t[k]
    <3>1. SUFFICES ASSUME NEW k \in 1..7 PROVE From(h, 5)[k] = t[k]
      BY Zenon
    <3>2. From(h, 5)[k] = h[5 + k - 1]
      BY <2>2, <2>3, Zenon
    <3>3. h[5 + k - 1] = h[4 + k]
      BY <2>4, Zenon
    <3>4. QED
      BY <1>1, <3>2, <3>3, Zenon
  <2>7. From(h, 5) = t
    <3>1. \A k \in 1..Len(From(h, 5)) : From(h, 5)[k] = t[k]
      BY <1>1, <2>5, <2>6, Zenon
    <3>2. QED
      BY <2>3, <2>5, <3>1, SeqEqual, Zenon
  <2>8. QED
    BY <1>1, <2>7, Zenon DEF From
<1>7. \E k \in 3..11 : h[k] = "."
  <2>1. 2 \in 1..7 /\ 4 + 2 \in 3..11
    OBVIOUS
  <2>2. h[4 + 2] = "."
    BY <1>1, <2>1 DEF IsQuad
  <2>3. QED
    BY <2>1, <2>2
<1>8. 11 - 6 = 5 /\ 11 = 3 + 2 * 1 + 6 /\ 11 \in Nat /\ 3 \in Nat /\ 1 \in Nat
  OBVIOUS
<1>9. IsQuad(SubSeq(h, 11 - 6, 11))
  BY <1>6, <1>8, Zenon
<1>10. Listed(h, 3, 11) = HexGroups(h, 3, 1) \o GroupsOf(ParseIpv4(SubSeq(h, 11 - 6, 11)))
  BY <1>5, <1>7, <1>8, <1>9, ListedDotted, Zenon
<1>11. <<>> \o <<HexOf[h[3]]>> = <<HexOf[MappedMark]>>
  BY <1>1, <1>2, GroupsAreNumbers
<1>12. QED
  BY <1>5, <1>6, <1>8, <1>10, <1>11, Zenon

LEMMA JoinedLists ==
  \A a, b \in Seq(Nat) : /\ a \o b \in Seq(Nat) /\ Len(a \o b) = Len(a) + Len(b)
                         /\ \A i \in 1..Len(a) : (a \o b)[i] = a[i]
                         /\ \A i \in 1..Len(b) : (a \o b)[Len(a) + i] = b[i]
BY Behind

LEMMA MarkIsList == <<HexOf[MappedMark]>> \in Seq(Nat) /\ Len(<<HexOf[MappedMark]>>) = 1
<1>1. HexOf[MappedMark] \in Nat
  BY AddressesAssumption
<1>2. QED
  BY <1>1

LEMMA ZerosAreLists == \A n \in Nat : Zeros(n) \in Seq(Nat) /\ Len(Zeros(n)) = n
BY DEF Zeros

LEMMA OneAndTwo == \A a, b \in Nat : a = 1 /\ b = 2 => a + b = 3
OBVIOUS

LEMMA FirstIsFirst ==
  ASSUME NEW set \in SUBSET Nat, 1 \in set, \A i \in set : i >= 1
  PROVE  Earliest(set) = 1
<1>1. /\ Earliest(set) \in set
      /\ \A j \in set : Earliest(set) <= j
  BY EarliestIsFirst
<1>2. PICK e \in Nat : e = Earliest(set)
  BY <1>1
<1>3. e <= 1 /\ e >= 1
  BY <1>1, <1>2
<1>4. QED
  BY <1>2, <1>3

\* So its meaning is zeros, ffff and the quad.
LEMMA MappedMeans ==
  ASSUME NEW t \in Seq(Plain), IsQuad(t), NEW h, h = MappedMarks \o t
  PROVE  /\ Meaning(h) = Zeros(GroupCount - 3) \o (<<HexOf[MappedMark]>> \o GroupsOf(ParseIpv4(t)))
         /\ <<HexOf[MappedMark]>> \in Seq(Nat) /\ Len(<<HexOf[MappedMark]>>) = 1
         /\ GroupsOf(ParseIpv4(t)) \in Seq(Nat) /\ Len(GroupsOf(ParseIpv4(t))) = 2
         /\ Zeros(GroupCount - 3) \in Seq(Nat) /\ Len(Zeros(GroupCount - 3)) = GroupCount - 3
<1> DEFINE mark == <<HexOf[MappedMark]>>
           g == GroupsOf(ParseIpv4(t))
           zeros == Zeros(GroupCount - 3)
<1>1. h \in Seq(Plain) /\ Len(h) = 11 /\ h[1] = ":" /\ h[2] = ":"
  BY MappedText, Zenon
<1>2. mark \in Seq(Nat) /\ Len(mark) = 1
  BY MarkIsList, Zenon
<1>3. g \in Seq(Nat) /\ Len(g) = 2
  BY QuadsAreNumbers
<1>4. GroupCount \in Nat /\ GroupCount >= 4 /\ GroupCount - 3 \in Nat
  BY AddressesAssumption
<1>5. zeros \in Seq(Nat) /\ Len(zeros) = GroupCount - 3
  BY <1>4, ZerosAreLists, Zenon
<1>6. Listed(h, 3, 11) = mark \o g
  BY MappedLists, Zenon
<1> HIDE DEF mark, g, zeros
<1>7. mark \o g \in Seq(Nat) /\ Len(mark \o g) = 3
  <2>1. Len(mark \o g) = Len(mark) + Len(g) /\ mark \o g \in Seq(Nat)
    BY <1>2, <1>3, JoinedLists, Zenon
  <2>2. 1 \in Nat /\ 2 \in Nat
    OBVIOUS
  <2>3. QED
    BY <1>2, <1>3, <2>1, <2>2, OneAndTwo, Zenon
<1>8. DoubleColons(h) # {} /\ Earliest(DoubleColons(h)) = 1
  <2>1. 1 \in DoubleColons(h)
    BY <1>1 DEF DoubleColons
  <2>2. DoubleColons(h) \in SUBSET Nat /\ \A i \in DoubleColons(h) : i >= 1
    BY <1>1 DEF DoubleColons
  <2>3. QED
    BY <2>1, <2>2, FirstIsFirst, Zenon
<1>9. 1 - 1 = 0 /\ 1 + 2 = 3
  OBVIOUS
<1>10. Listed(h, 1, 0) = <<>> /\ \A k \in 1..0 : h[k] # "."
  BY DEF Listed
<1>11. <<>> # NoAddress /\ mark \o g # NoAddress
  BY <1>7, ListIsNoRefusal, EmptySeq
<1>12. /\ Len(<<>>) + Len(mark \o g) < GroupCount
       /\ GroupCount - Len(<<>>) - Len(mark \o g) = GroupCount - 3
  <2>1. Len(<<>>) = 0
    OBVIOUS
  <2>2. \A l, k \in Nat : l = 0 /\ k = 3 => l + k < GroupCount /\ GroupCount - l - k = GroupCount - 3
    BY <1>4
  <2>3. 0 \in Nat /\ 3 \in Nat
    OBVIOUS
  <2>4. QED
    BY <1>7, <2>1, <2>2, <2>3, Zenon
<1>13. Meaning(h) = <<>> \o Zeros(GroupCount - Len(<<>>) - Len(mark \o g)) \o (mark \o g)
  BY <1>1, <1>6, <1>8, <1>9, <1>10, <1>11, <1>12, Zenon DEF Meaning
<1>14. <<>> \o zeros = zeros
  BY <1>5, ConcatEmptySeq
<1>15. Meaning(h) = zeros \o (mark \o g)
  BY <1>12, <1>13, <1>14, Zenon DEF zeros
<1>16. QED
  BY <1>2, <1>3, <1>5, <1>15, Zenon DEF mark, g, zeros

\* The first groups of an address of zeros and three groups, and the last.
LEMMA AfterZeros ==
  ASSUME NEW zeros \in Seq(Nat), Len(zeros) = GroupCount - 3,
         NEW right \in Seq(Nat), Len(right) = 3
  PROVE  /\ zeros \o right \in Seq(Nat)
         /\ SubSeq(zeros \o right, 1, GroupCount - 3) = zeros
         /\ (zeros \o right)[GroupCount - 2] = right[1]
         /\ (zeros \o right)[GroupCount - 1] = right[2]
         /\ (zeros \o right)[GroupCount] = right[3]
<1> DEFINE v6 == zeros \o right
           n == GroupCount - 3
<1>1. GroupCount \in Nat /\ GroupCount >= 4
  BY AddressesAssumption
<1>2. /\ v6 \in Seq(Nat) /\ Len(v6) = Len(zeros) + Len(right)
      /\ \A i \in 1..Len(zeros) : v6[i] = zeros[i]
      /\ \A i \in 1..Len(right) : v6[Len(zeros) + i] = right[i]
  BY JoinedLists, Zenon
<1>3. /\ GroupCount - 2 = n + 1 /\ GroupCount - 1 = n + 2 /\ GroupCount = n + 3
      /\ n \in Nat /\ n >= 1
  BY <1>1
<1>4. Len(zeros) = n
  OBVIOUS
<1> HIDE DEF v6, n
<1>5. v6[n + 1] = right[1] /\ v6[n + 2] = right[2] /\ v6[n + 3] = right[3]
  <2>1. 1 \in 1..3 /\ 2 \in 1..3 /\ 3 \in 1..3
    OBVIOUS
  <2>2. QED
    BY <1>2, <1>4, <2>1, Zenon
<1>6. SubSeq(v6, 1, n) = zeros
  <2>1. Len(v6) = n + 3
    BY <1>2, <1>4, Zenon
  <2>2. \A i \in 1..n : v6[i] \in Nat
    <3>1. \A i \in 1..n : i \in 1..(n + 3)
      BY <1>3
    <3>2. \A s \in Seq(Nat) : \A i \in 1..Len(s) : s[i] \in Nat
      BY ElementOfSeq
    <3>3. QED
      BY <1>2, <2>1, <3>1, <3>2, Zenon
  <2>3. \A s \in Seq(Nat) : (\A i \in 1..n : s[i] \in Nat) =>
          /\ SubSeq(s, 1, n) \in Seq(Nat) /\ Len(SubSeq(s, 1, n)) = n
          /\ \A i \in 1..n : SubSeq(s, 1, n)[i] = s[i]
    BY <1>3
  <2>4. /\ SubSeq(v6, 1, n) \in Seq(Nat) /\ Len(SubSeq(v6, 1, n)) = n
        /\ \A i \in 1..n : SubSeq(v6, 1, n)[i] = v6[i]
    BY <1>2, <2>2, <2>3, Zenon
  <2>5. \A i \in 1..Len(SubSeq(v6, 1, n)) : SubSeq(v6, 1, n)[i] = zeros[i]
    BY <1>2, <1>4, <2>4, Zenon
  <2>6. Len(SubSeq(v6, 1, n)) = Len(zeros)
    BY <1>4, <2>4, Zenon
  <2>7. QED
    BY <2>4, <2>5, <2>6, SeqEqual, Zenon
<1>7. QED
  BY <1>2, <1>3, <1>5, <1>6, Zenon DEF v6, n

LEMMA FirstThree ==
  ASSUME NEW a \in Nat, NEW b \in Nat, NEW c \in Nat, NEW d \in Nat
  PROVE  SubSeq(<<a, b, c, d>>, 1, 3) = <<a, b, c>>
<1> DEFINE four == <<a, b, c, d>>
           three == <<a, b, c>>
<1>1. four \in Seq(Nat) /\ Len(four) = 4 /\ four[1] = a /\ four[2] = b /\ four[3] = c
  OBVIOUS
<1>2. three \in Seq(Nat) /\ Len(three) = 3 /\ three[1] = a /\ three[2] = b /\ three[3] = c
  OBVIOUS
<1> HIDE DEF four, three
<1>3. /\ SubSeq(four, 1, 3) \in Seq(Nat) /\ Len(SubSeq(four, 1, 3)) = 3
      /\ \A i \in 1..3 : SubSeq(four, 1, 3)[i] = four[i]
  <2>1. \A i \in 1..3 : four[i] \in Nat
    BY <1>1, ElementOfSeq
  <2>2. 1 \in Int /\ 3 \in Int
    OBVIOUS
  <2>3. QED
    BY <2>1, <2>2, SubSeqProperties
<1>4. ASSUME NEW i \in 1..3 PROVE SubSeq(four, 1, 3)[i] = three[i]
  <2>1. i = 1 \/ i = 2 \/ i = 3
    OBVIOUS
  <2>2. QED
    BY <1>1, <1>2, <1>3, <2>1
<1>5. SubSeq(four, 1, 3) = three
  BY <1>2, <1>3, <1>4, SeqEqual
<1>6. QED
  BY <1>5 DEF four, three

\* One client has one prefix, mapped or not.
LEMMA PrefixOfMapped ==
  ASSUME NEW t \in Seq(Plain), IsQuad(t), NEW h, h = MappedMarks \o t
  PROVE  Meaning(h) # NoAddress /\ Prefix(Meaning(h)) = SubSeq(ParseIpv4(t), 1, 3)
<1> DEFINE mark == <<HexOf[MappedMark]>>
           g == GroupsOf(ParseIpv4(t))
           zeros == Zeros(GroupCount - 3)
<1>1. /\ Meaning(h) = zeros \o (mark \o g)
      /\ mark \in Seq(Nat) /\ Len(mark) = 1
      /\ g \in Seq(Nat) /\ Len(g) = 2
      /\ zeros \in Seq(Nat) /\ Len(zeros) = GroupCount - 3
  BY MappedMeans, Zenon
<1>2. mark[1] = HexOf[MappedMark] /\ HexOf[MappedMark] = 65535
  BY AddressesAssumption
<1> DEFINE a == OctetOf[t[1]]
           b == OctetOf[t[3]]
           c == OctetOf[t[5]]
           d == OctetOf[t[7]]
<1>3. ParseIpv4(t) = <<a, b, c, d>> /\ g = <<256 * a + b, 256 * c + d>>
  BY QuadsAreNumbers, Zenon
<1>4. a \in Nat /\ b \in Nat /\ c \in Nat /\ d \in Nat /\ b < 256 /\ d < 256
  BY QuadsAreNumbers
<1> HIDE DEF a, b, c, d
<1>5. g[1] = 256 * a + b /\ g[2] = 256 * c + d
  BY <1>3
<1> HIDE DEF mark, g, zeros
<1>6. /\ mark \o g \in Seq(Nat) /\ Len(mark \o g) = 3
      /\ (mark \o g)[1] = mark[1] /\ (mark \o g)[2] = g[1] /\ (mark \o g)[3] = g[2]
  <2>1. /\ mark \o g \in Seq(Nat) /\ Len(mark \o g) = Len(mark) + Len(g)
        /\ \A i \in 1..Len(mark) : (mark \o g)[i] = mark[i]
        /\ \A i \in 1..Len(g) : (mark \o g)[Len(mark) + i] = g[i]
    BY <1>1, JoinedLists, Zenon
  <2>2. 1 \in 1..1 /\ 1 \in 1..2 /\ 2 \in 1..2 /\ 1 + 1 = 2 /\ 1 + 2 = 3
    OBVIOUS
  <2>3. QED
    BY <1>1, <2>1, <2>2, Zenon
<1>7. /\ Meaning(h) \in Seq(Nat)
      /\ SubSeq(Meaning(h), 1, GroupCount - 3) = zeros
      /\ Meaning(h)[GroupCount - 2] = mark[1]
      /\ Meaning(h)[GroupCount - 1] = g[1]
      /\ Meaning(h)[GroupCount] = g[2]
  <2> DEFINE right == mark \o g
             v6 == zeros \o right
  <2>1. right \in Seq(Nat) /\ Len(right) = 3
    BY <1>6
  <2>2. right[1] = mark[1] /\ right[2] = g[1] /\ right[3] = g[2]
    BY <1>6
  <2>3. Meaning(h) = v6
    BY <1>1
  <2> HIDE DEF right
  <2>4. /\ v6 \in Seq(Nat) /\ SubSeq(v6, 1, GroupCount - 3) = zeros
        /\ v6[GroupCount - 2] = right[1] /\ v6[GroupCount - 1] = right[2]
        /\ v6[GroupCount] = right[3]
    BY <1>1, <2>1, AfterZeros, Zenon
  <2> HIDE DEF v6
  <2>5. QED
    BY <2>2, <2>3, <2>4, Zenon
<1>8. Mapped(Meaning(h))
  <2> DEFINE v6 == Meaning(h)
  <2>1. SubSeq(v6, 1, GroupCount - 3) = Zeros(GroupCount - 3)
    BY <1>7, Zenon DEF zeros
  <2>2. v6[GroupCount - 2] = 65535
    <3>1. Meaning(h)[GroupCount - 2] = mark[1] /\ mark[1] = HexOf[MappedMark]
      BY <1>2, <1>7
    <3>2. QED
      BY <1>2, <3>1
  <2> HIDE DEF v6
  <2>3. Mapped(v6)
    BY <2>1, <2>2 DEF Mapped
  <2>4. QED
    BY <2>3 DEF v6
<1>9. Prefix(Meaning(h)) = <<g[1] \div 256, g[1] % 256, g[2] \div 256>>
  BY <1>7, <1>8, Zenon DEF Prefix
<1>10. (256 * a + b) \div 256 = a /\ (256 * a + b) % 256 = b /\ (256 * c + d) \div 256 = c
  <2>1. (256 * a + b) \div 256 = a /\ (256 * a + b) % 256 = b
    BY <1>4
  <2>2. (256 * c + d) \div 256 = c
    BY <1>4
  <2>3. QED
    BY <2>1, <2>2
<1>11. Prefix(Meaning(h)) = <<a, b, c>>
  BY <1>5, <1>9, <1>10, Zenon
<1>12. SubSeq(<<a, b, c, d>>, 1, 3) = <<a, b, c>>
  BY <1>4, FirstThree, Zenon
<1>13. Meaning(h) # NoAddress
  BY <1>7, ListIsNoRefusal
<1>14. QED
  BY <1>3, <1>11, <1>12, <1>13, Zenon

\* However a text is spelled, the header is signs, and so is the host in it.
Arrivals(t) == Spellings(t) \cup (IF IsQuad(t) THEN Ipv4Spellings(t) ELSE {})

LEMMA ArrivalsAreTexts ==
  ASSUME NEW t \in Seq(Plain), NEW h \in Arrivals(t)
  PROVE  h \in Seq(Signs)
<1>1. /\ <<"%", Zone>> \in Seq(Signs) /\ <<":", Port>> \in Seq(Signs)
      /\ <<"]">> \in Seq(Signs) /\ <<"]", ":", Port>> \in Seq(Signs)
      /\ <<"%", Zone, "]">> \in Seq(Signs)
  BY AddressesAssumption DEF Signs
<1>2. \A more \in Seq(Signs) : t \o more \in Seq(Signs) /\ <<"[">> \o t \o more \in Seq(Signs)
  BY Followed, InBracket
<1>3. t \in Seq(Signs)
  BY <1>1, Followed
<1>4. CASE h \in Spellings(t)
  BY <1>1, <1>2, <1>3, <1>4, Zenon DEF Spellings, Bracketed
<1>5. CASE IsQuad(t) /\ h \in Ipv4Spellings(t)
  <2>1. CASE h = t \o <<":", Port>>
    BY <1>1, <1>2, <2>1, Zenon
  <2>2. CASE h = MappedMarks \o t
    BY <1>5, <2>2, BareOfMapped
  <2>3. QED
    BY <1>5, <2>1, <2>2 DEF Ipv4Spellings, MappedMarks
<1>6. QED
  BY <1>4, <1>5 DEF Arrivals

LEMMA BareIsText ==
  ASSUME NEW h \in Seq(Signs)
  PROVE  Bare(h) \in Seq(Signs)
<1>1. \A s \in Seq(Signs), sign \in {"]", ":", "%"} : UpTo(s, sign) \in Seq(Signs)
  BY UpToIsBefore
<1>2. <<>> \in Seq(Signs)
  BY EmptySeq
<1>3. h # <<>> => Tail(h) \in Seq(Signs)
  BY HeadTailProperties
<1>4. QED
  BY <1>1, <1>2, <1>3, Zenon DEF Bare

\* From writing the text to what is stored.
AddressesInv ==
  /\ AddressesTypeOK
  /\ stage \in {"writing", "received"} => NothingTaken
  /\ stage # "done" => parsed = NoAddress
  /\ stage = "walking" => WalkIsFaithful
  /\ stage = "done" /\ Places(host, ":") # {} => parsed = Meaning(host)
  /\ stage # "writing" => header \in Arrivals(text) /\ host = Bare(header)

LEMMA AddressesInitially == AddressesInit => AddressesInv
<1>1. SUFFICES ASSUME AddressesInit PROVE AddressesInv
  OBVIOUS
<1>2. <<>> \in Seq(Runs \cup {":", "."}) /\ <<>> \in Seq(Signs) /\ <<>> \in Seq(Nat)
  BY EmptySeq
<1>3. AddressesTypeOK
  <2>1. text = <<>> /\ header = <<>> /\ host = <<>> /\ head = <<>> /\ tail = <<>>
    BY <1>1 DEF AddressesInit
  <2>2. stage = "writing" /\ pos = 1 /\ compressed = FALSE
    BY <1>1 DEF AddressesInit
  <2>3. 1 \in Nat \ {0} /\ FALSE \in BOOLEAN
    OBVIOUS
  <2>4. QED
    BY <1>2, <2>1, <2>2, <2>3, Zenon DEF AddressesTypeOK
<1>4. QED
  BY <1>1, <1>3 DEF AddressesInit, AddressesInv, NothingTaken

\* The header and the host stay what they were once received.
LEMMA HostStays ==
  ASSUME AddressesInv, stage # "writing", UNCHANGED <<text, header, host>>
  PROVE  (stage # "writing" => header \in Arrivals(text) /\ host = Bare(header))'
<1>1. header' = header /\ host' = host /\ Arrivals(text)' = Arrivals(text) /\ Bare(header)' = Bare(header)
  OBVIOUS
<1>2. header \in Arrivals(text) /\ host = Bare(header)
  BY DEF AddressesInv
<1>3. QED
  BY <1>1, <1>2

\* What the walk keeps as it goes on.
LEMMA WalkGoesOn ==
  ASSUME AddressesInv, stage = "walking", stage' = "walking", parsed' = parsed,
         UNCHANGED <<text, header, host>>, WalkIsFaithful', AddressesTypeOK'
  PROVE  AddressesInv'
<1>1. (stage # "writing" => header \in Arrivals(text) /\ host = Bare(header))'
  BY HostStays
<1>2. QED
  BY <1>1 DEF AddressesInv

\* A walk that fails has no address and the text none.
LEMMA FailsRightly ==
  ASSUME AddressesInv, stage # "done", stage # "writing", Fails,
         Places(host, ":") # {} => Meaning(host) = NoAddress
  PROVE  AddressesInv'
<1>1. UNCHANGED <<text, header, host, pos, head, tail, compressed, parsed>> /\ stage' = "done"
  BY DEF Fails, walkVars
<1>2. (stage # "writing" => header \in Arrivals(text) /\ host = Bare(header))'
  BY <1>1, HostStays
<1>3. AddressesTypeOK'
  BY <1>1 DEF AddressesInv, AddressesTypeOK
<1>4. parsed = NoAddress
  BY DEF AddressesInv
<1>5. (Places(host, ":") # {} => parsed = Meaning(host))'
  <2>1. Places(host, ":")' = Places(host, ":") /\ Meaning(host)' = Meaning(host)
    BY <1>1
  <2>2. QED
    BY <1>1, <1>4, <2>1
<1>6. QED
  BY <1>1, <1>2, <1>3, <1>5 DEF AddressesInv

\* Each action keeps the invariant.
LEMMA WriteKeeps ==
  ASSUME AddressesInv, NEW p \in Pieces, Write(p)
  PROVE  AddressesInv'
<1>1. /\ stage = "writing" /\ text' = text \o p
      /\ UNCHANGED <<stage, header, host, pos, head, tail, compressed, parsed>>
  BY DEF Write, walkVars
<1>2. text' \in Seq(Runs \cup {":", "."})
  <2>1. p \in Seq(Runs \cup {":", "."}) /\ text \in Seq(Runs \cup {":", "."})
    BY PiecesAreText DEF AddressesInv, AddressesTypeOK
  <2>2. QED
    BY <1>1, <2>1, ConcatProperties
<1>3. AddressesTypeOK'
  BY <1>1, <1>2 DEF AddressesInv, AddressesTypeOK
<1>4. QED
  BY <1>1, <1>3 DEF AddressesInv, NothingTaken

LEMMA ReceiveKeeps ==
  ASSUME AddressesInv, Receive
  PROVE  AddressesInv'
<1>1. /\ stage = "writing" /\ stage' = "received" /\ text' = text
      /\ UNCHANGED <<pos, head, tail, compressed, parsed>>
  BY DEF Receive, walkVars
<1>2. text \in Seq(Plain)
  BY DEF AddressesInv, AddressesTypeOK, Plain
<1>3. header' \in Arrivals(text) /\ host' = Bare(header')
  BY DEF Receive, Arrivals
<1>4. header' \in Seq(Signs) /\ host' \in Seq(Signs)
  BY <1>2, <1>3, ArrivalsAreTexts, BareIsText
<1>5. AddressesTypeOK'
  BY <1>1, <1>4 DEF AddressesInv, AddressesTypeOK
<1>6. (stage # "writing" => header \in Arrivals(text) /\ host = Bare(header))'
  <2>1. Arrivals(text)' = Arrivals(text)
    BY <1>1
  <2>2. QED
    BY <1>3, <2>1
<1>7. NothingTaken' /\ parsed' = NoAddress
  BY <1>1 DEF AddressesInv, NothingTaken
<1>8. QED
  BY <1>1, <1>5, <1>6, <1>7 DEF AddressesInv

LEMMA BeginParseKeeps ==
  ASSUME AddressesInv, BeginParse
  PROVE  AddressesInv'
<1>1. AddressesTypeOK /\ NothingTaken /\ stage = "received"
  BY DEF AddressesInv, BeginParse
<1>2. /\ AddressesTypeOK'
      /\ stage' = "walking" => WalkIsFaithful'
      /\ stage' = "done" => Meaning(host) = NoAddress
  BY <1>1, BeginParseIsFaithful
<1>3. CASE stage' = "walking"
  <2>1. UNCHANGED <<text, header, host>> /\ parsed' = parsed
    BY <1>3 DEF BeginParse, Fails
  <2>2. (stage # "writing" => header \in Arrivals(text) /\ host = Bare(header))'
    BY <1>1, <2>1, HostStays
  <2>3. QED
    BY <1>1, <1>2, <1>3, <2>1, <2>2 DEF AddressesInv
<1>4. CASE Fails
  BY <1>1, <1>2, <1>4, FailsRightly DEF Fails
<1>5. QED
  BY <1>3, <1>4 DEF BeginParse

LEMMA WalkKeeps ==
  ASSUME AddressesInv, Walk
  PROVE  AddressesInv'
<1>1. InWalk
  BY DEF Walk, DottedTail, NoGroup, LastGroup, NextGroup, Compress, SecondCompression,
         BadGroupEnd, AtGroup
<1>2. AddressesTypeOK /\ stage = "walking" /\ WalkIsFaithful
  BY <1>1 DEF AddressesInv, InWalk
<1>3. ASSUME Fails, Meaning(host) = NoAddress PROVE AddressesInv'
  BY <1>2, <1>3, FailsRightly
<1>4. ASSUME stage' = stage, UNCHANGED <<text, header, host, parsed>>,
             WalkIsFaithful', AddressesTypeOK'
      PROVE  AddressesInv'
  BY <1>2, <1>4, WalkGoesOn
<1>5. CASE DottedTail
  <2>1. CASE ~IsQuad(From(host, pos))
    BY <1>1, <1>2, <1>3, <1>5, <2>1, RefusedMeansNothing DEF DottedTail
  <2>2. CASE IsQuad(From(host, pos))
    <3>1. stage' = stage /\ UNCHANGED <<text, header, host, parsed>>
      BY <1>5, <2>2 DEF DottedTail
    <3>2. QED
      BY <1>2, <1>4, <1>5, <2>2, <3>1, DottedTailIsFaithful
  <2>3. QED
    BY <2>1, <2>2
<1>6. CASE NoGroup
  BY <1>1, <1>2, <1>3, <1>6, RefusedMeansNothing DEF NoGroup
<1>7. CASE LastGroup
  BY <1>2, <1>4, <1>7, LastGroupIsFaithful DEF LastGroup
<1>8. CASE NextGroup
  BY <1>2, <1>4, <1>8, NextGroupIsFaithful DEF NextGroup
<1>9. CASE Compress
  BY <1>2, <1>4, <1>9, CompressIsFaithful DEF Compress
<1>10. CASE SecondCompression
  BY <1>1, <1>2, <1>3, <1>10, RefusedMeansNothing DEF SecondCompression
<1>11. CASE BadGroupEnd
  BY <1>1, <1>2, <1>3, <1>11, RefusedMeansNothing DEF BadGroupEnd
<1>12. QED
  BY <1>5, <1>6, <1>7, <1>8, <1>9, <1>10, <1>11 DEF Walk

LEMMA EndParseKeeps ==
  ASSUME AddressesInv, EndParse
  PROVE  AddressesInv'
<1>1. AddressesTypeOK /\ stage = "walking" /\ WalkIsFaithful
  BY DEF AddressesInv, EndParse
<1>2. parsed' = Meaning(host) /\ AddressesTypeOK'
  BY <1>1, EndParseFindsMeaning
<1>3. stage' = "done" /\ UNCHANGED <<text, header, host>>
  BY DEF EndParse
<1>4. (stage # "writing" => header \in Arrivals(text) /\ host = Bare(header))'
  BY <1>1, <1>3, HostStays
<1>5. Meaning(host)' = Meaning(host)
  BY <1>3
<1>6. QED
  BY <1>2, <1>3, <1>4, <1>5 DEF AddressesInv

LEMMA AddressesStep == AddressesInv /\ [AddressesNext]_addressVars => AddressesInv'
<1>1. SUFFICES ASSUME AddressesInv, [AddressesNext]_addressVars PROVE AddressesInv'
  OBVIOUS
<1>2. CASE \E p \in Pieces : Write(p)
  BY <1>1, <1>2, WriteKeeps
<1>3. CASE Receive
  BY <1>1, <1>3, ReceiveKeeps
<1>4. CASE IsNotIpv6
  BY <1>1, <1>4, FailsRightly DEF IsNotIpv6
<1>5. CASE BeginParse
  BY <1>1, <1>5, BeginParseKeeps
<1>6. CASE Walk
  BY <1>1, <1>6, WalkKeeps
<1>7. CASE EndParse
  BY <1>1, <1>7, EndParseKeeps
<1>8. CASE UNCHANGED addressVars
  <2>1. UNCHANGED <<text, stage, header, host, pos, head, tail, compressed, parsed>>
    BY <1>8 DEF addressVars, walkVars
  <2>2. QED
    <3>1. AddressesTypeOK' /\ (stage \in {"writing", "received"} => NothingTaken)'
      BY <1>1, <2>1 DEF AddressesInv, AddressesTypeOK, NothingTaken
    <3>2. ASSUME WalkIsFaithful PROVE WalkIsFaithful'
      BY <2>1, <3>2 DEF WalkIsFaithful, Start, Taken, FirstDouble
    <3>3. (stage # "writing" => header \in Arrivals(text) /\ host = Bare(header))'
      BY <1>1, <2>1, HostStays
    <3>4. Meaning(host)' = Meaning(host) /\ Places(host, ":")' = Places(host, ":")
      BY <2>1
    <3>5. QED
      BY <1>1, <2>1, <3>1, <3>2, <3>3, <3>4 DEF AddressesInv
<1>9. QED
  BY <1>1, <1>2, <1>3, <1>4, <1>5, <1>6, <1>7, <1>8 DEF AddressesNext

\* However it walked, the parser has refused a text or found what it means.
THEOREM AddressesFaithful == AddressesSpec => []AddressesInv
<1>1. AddressesInit => AddressesInv
  BY AddressesInitially
<1>2. AddressesInv /\ [AddressesNext]_addressVars => AddressesInv'
  BY AddressesStep
<1>3. QED
  BY <1>1, <1>2, PTL DEF AddressesSpec

\* What is stored of an address that the host means, or of a quad.
LEMMA StoredOfHost ==
  ASSUME AddressesInv, stage = "done"
  PROVE  /\ Places(host, ":") # {} => parsed = Meaning(host)
         /\ Places(host, ":") # {} /\ Meaning(host) = NoAddress => StoragePrefix = NoAddress
         /\ Places(host, ":") # {} /\ Meaning(host) # NoAddress
              => StoragePrefix = Prefix(Meaning(host))
         /\ Places(host, ":") = {} /\ IsQuad(host) => StoragePrefix = SubSeq(ParseIpv4(host), 1, 3)
         /\ Places(host, ":") = {} /\ ~IsQuad(host) => StoragePrefix = NoAddress
<1>1. Places(host, ":") # {} => parsed = Meaning(host)
  BY DEF AddressesInv
<1>2. QED
  BY <1>1, Zenon DEF StoragePrefix

LEMMA FaithfulIsOne == AddressesInv => OnePrefix
<1>1. SUFFICES ASSUME AddressesInv, stage = "done"
               PROVE  /\ Places(host, ":") # {} => parsed = Meaning(host)
                      /\ IsQuad(text) => StoragePrefix = SubSeq(ParseIpv4(text), 1, 3)
                      /\ Meaning(text) # NoAddress => StoragePrefix = Prefix(Meaning(text))
                      /\ Meaning(text) = NoAddress /\ ~IsQuad(text) /\ ~QuadAndPort(text, header)
                           => StoragePrefix = NoAddress
  BY Zenon DEF OnePrefix
<1>2. text \in Seq(Plain) /\ header \in Arrivals(text) /\ host = Bare(header)
  BY <1>1 DEF AddressesInv, AddressesTypeOK, Plain
<1>3. ASSUME IsQuad(text) PROVE StoragePrefix = SubSeq(ParseIpv4(text), 1, 3)
  <2>1. CASE header \in Spellings(text) \cup {text \o <<":", Port>>}
    <3>1. host = text
      BY <1>2, <1>3, <2>1, BareOfQuad
    <3>2. Places(host, ":") = {}
      BY <1>2, <1>3, <3>1, QuadIsNoIpv6
    <3>3. QED
      BY <1>1, <1>3, <3>1, <3>2, StoredOfHost, Zenon
  <2>2. CASE header = MappedMarks \o text
    <3>1. host = header /\ Places(host, ":") # {}
      BY <1>2, <1>3, <2>2, BareOfMapped
    <3>2. Meaning(header) # NoAddress /\ Prefix(Meaning(header)) = SubSeq(ParseIpv4(text), 1, 3)
      BY <1>2, <1>3, <2>2, PrefixOfMapped, Zenon
    <3>3. QED
      BY <1>1, <3>1, <3>2, StoredOfHost, Zenon
  <2>3. QED
    BY <1>2, <1>3, <2>1, <2>2 DEF Arrivals, Ipv4Spellings, MappedMarks
<1>4. ASSUME ~IsQuad(text) PROVE header \in Spellings(text)
  BY <1>2, <1>4 DEF Arrivals
<1>5. ASSUME Meaning(text) # NoAddress PROVE StoragePrefix = Prefix(Meaning(text))
  <2>1. ~IsQuad(text)
    BY <1>2, <1>5, QuadIsNoIpv6
  <2>2. PICK i, j \in DOMAIN text : i # j /\ text[i] = ":" /\ text[j] = ":"
    BY <1>2, <1>5, MeaningHasColons
  <2>3. i \in Places(text, ":") /\ j \in Places(text, ":")
    BY <2>2 DEF Places
  <2>4. ~((\E k \in DOMAIN text : Places(text, ":") = {k}) /\ Places(text, ".") # {})
    BY <2>2, <2>3
  <2>5. CASE header \in Bracketed(text)
    BY <1>1, <1>2, <1>5, <2>3, <2>5, BareOfBracketed, StoredOfHost
  <2>6. CASE header \in {text, text \o <<"%", Zone>>}
    <3>1. Bare(header) = text
      BY <1>2, <2>4, <2>6, BareOfPlain
    <3>2. QED
      BY <1>1, <1>2, <1>5, <2>3, <3>1, StoredOfHost
  <2>7. QED
    BY <1>4, <2>1, <2>5, <2>6 DEF Spellings
<1>6. ASSUME Meaning(text) = NoAddress, ~IsQuad(text), ~QuadAndPort(text, header)
      PROVE  StoragePrefix = NoAddress
  <2>1. CASE host = text
    BY <1>1, <1>6, <2>1, StoredOfHost, Zenon
  <2>2. CASE header \in Bracketed(text)
    <3>1. host = text
      BY <1>2, <2>2, BareOfBracketed
    <3>2. QED
      BY <2>1, <3>1
  <2>3. CASE header \notin Bracketed(text)
    <3>1. header \in {text, text \o <<"%", Zone>>}
      BY <1>4, <1>6, <2>3 DEF Spellings
    <3>2. CASE ~((\E i \in DOMAIN text : Places(text, ":") = {i}) /\ Places(text, ".") # {})
      <4>1. host = text
        BY <1>2, <3>1, <3>2, BareOfPlain
      <4>2. QED
        BY <2>1, <4>1
    <3>3. CASE (\E i \in DOMAIN text : Places(text, ":") = {i}) /\ Places(text, ".") # {}
      <4>1. host = UpTo(text, ":") /\ Places(UpTo(text, ":"), ":") = {}
        BY <1>2, <3>1, <3>3, BareBeforePort
      <4>2. ~IsQuad(UpTo(text, ":"))
        BY <1>6, <2>3, <3>3, Zenon DEF QuadAndPort
      <4>3. QED
        BY <1>1, <4>1, <4>2, StoredOfHost, Zenon
    <3>4. QED
      BY <3>2, <3>3
  <2>4. QED
    BY <2>2, <2>3
<1>7. QED
  BY <1>1, <1>3, <1>5, <1>6, StoredOfHost

\* One client has one stored prefix, however its address is spelled, and nothing
\* is stored of a text that means none, but for what reads as a quad with a port.
THEOREM PrefixesCorrect == AddressesSpec => []OnePrefix
BY AddressesFaithful, FaithfulIsOne, PTL
================================================================================
