----------------------------- MODULE ExchangeProofs -----------------------------
(***************************************************************************)
(* Theorems about Exchange, and about the integers it reads (Arithmetic).  *)
(* The inductive invariant says which call each request and each exchange  *)
(* came from and what was prepared for it; the rest is about what the      *)
(* operators of RuntimeConfiguration and NetworkRequest compute, by        *)
(* induction over the lists they fold over:                                *)
(*   - after each header a list represents the sources so far, one header  *)
(*     for each name, the strongest (HeadersAreSent);                      *)
(*   - after each entry of the configuration its policies can be read, or  *)
(*     it is invalid (LoadedPoliciesServe);                                *)
(*   - a key can be read in one way, line by line (SharedMessagesAreOwn).  *)
(* An induction is over a set of numbers: UpTo says that it holds the      *)
(* positions of a list, by the well-foundedness of the naturals.  A fold   *)
(* that the model writes as a recursive function is given a name and its   *)
(* equations first, ...Exists and ...Value.                                *)
(***************************************************************************)
EXTENDS Exchange, SequenceTheorems, FiniteSetTheorems, WellFoundedInduction, TLAPS

-----------------------------------------------------------------------------
(* Induction.                                                              *)

Less == {pair \in Nat \X Nat : pair[1] < pair[2]}
LEMMA LessIsWellFounded == IsWellFoundedOn(Less, Nat)
<1>1. Less = OpToRel(<, Nat)
  BY DEF Less, OpToRel
<1> QED BY <1>1, NatLessThanWellFounded

\* Every set of naturals that is not empty has a least member.
LEMMA LeastMember ==
  ASSUME NEW S \in SUBSET Nat, S # {}
  PROVE  \E m \in S : \A k \in S : m <= k
<1>1. \E m \in S : \A k \in S : ~(<<k, m>> \in Less)
  BY LessIsWellFounded, WFMin
<1>2. PICK m \in S : \A k \in S : ~(<<k, m>> \in Less)
  BY <1>1
<1>3. \A k \in S : ~(k < m)
  BY <1>2 DEF Less
<1> QED BY <1>2, <1>3

\* Induction over the positions of a list.
LEMMA UpTo ==
  ASSUME NEW n \in Nat, NEW S, 0 \in S, \A i \in 0..(n - 1) : i \in S => i + 1 \in S
  PROVE  0..n \subseteq S
<1> SUFFICES ASSUME (0..n) \ S # {} PROVE FALSE
  OBVIOUS
<1> DEFINE R == (0..n) \ S
<1>0. R \in SUBSET Nat /\ R # {}
  OBVIOUS
<1>1. PICK m \in R : \A k \in R : m <= k
  <2> HIDE DEF R
  <2> QED BY <1>0, LeastMember
<1>2. m # 0 /\ m - 1 \in 0..(n - 1)
  BY <1>1
<1>3. m - 1 \in S
  BY <1>1, <1>2
<1> QED BY <1>1, <1>2, <1>3

-----------------------------------------------------------------------------
(* Headers.                                                                *)

\* Each name once, in whatever case.
Distinct(s) ==
  \A i, j \in 1..Len(s) : HeaderNamesEqual(s[i].name, s[j].name) => i = j
\* The headers s are what the list gives, the strongest source first.
Represents(s, strongest) == Distinct(s) /\ ToSet(s) = Winners(strongest)

LEMMA SameName ==
  /\ \A a : HeaderNamesEqual(a, a)
  /\ \A a, b : HeaderNamesEqual(a, b) => HeaderNamesEqual(b, a)
  /\ \A a, b, c : HeaderNamesEqual(a, b) /\ HeaderNamesEqual(b, c) => HeaderNamesEqual(a, c)
BY DEF HeaderNamesEqual

LEMMA WinnersOf ==
  ASSUME NEW H, NEW s \in Seq(H), NEW w
  PROVE  w \in Winners(s) <=>
           \E k \in 1..Len(s) :
             w = s[k] /\ \A j \in 1..(k - 1) : ~HeaderNamesEqual(s[j].name, s[k].name)
BY DEF Winners

\* A name that is there has a winner.
LEMMA EachNameHasWinner ==
  ASSUME NEW H, NEW s \in Seq(H), NEW i \in 1..Len(s)
  PROVE  \E w \in Winners(s) : HeaderNamesEqual(w.name, s[i].name)
<1> DEFINE P == {k \in 1..Len(s) : HeaderNamesEqual(s[k].name, s[i].name)}
<1>1. P \in SUBSET Nat /\ i \in P
  BY SameName
<1>2. PICK m \in P : \A k \in P : m <= k
  <2> HIDE DEF P
  <2> QED BY <1>1, LeastMember
<1>3. ASSUME NEW j \in 1..(m - 1), HeaderNamesEqual(s[j].name, s[m].name)
      PROVE  FALSE
  <2>1. j \in P
    BY <1>2, <1>3, SameName
  <2> QED BY <1>2, <1>3, <2>1
<1>4. s[m] \in Winners(s)
  BY <1>2, <1>3, WinnersOf
<1> QED BY <1>2, <1>4

LEMMA WinnersPrepend ==
  ASSUME NEW H, NEW s \in Seq(H), NEW h \in H
  PROVE  \A w : w \in Winners(<<h>> \o s) <=>
                 w = h \/ (w \in Winners(s) /\ ~HeaderNamesEqual(h.name, w.name))
<1> DEFINE t == <<h>> \o s
<1>1. t \in Seq(H) /\ Len(t) = Len(s) + 1 /\ t[1] = h /\ \A i \in 1..Len(s) : t[i + 1] = s[i]
  OBVIOUS
<1> HIDE DEF t
<1>2. ASSUME NEW w \in Winners(t)
      PROVE  w = h \/ (w \in Winners(s) /\ ~HeaderNamesEqual(h.name, w.name))
  <2>1. PICK k \in 1..Len(t) :
          w = t[k] /\ \A j \in 1..(k - 1) : ~HeaderNamesEqual(t[j].name, t[k].name)
    BY <1>1, <1>2, WinnersOf
  <2>2. CASE k = 1
    BY <1>1, <2>1, <2>2
  <2>3. CASE k > 1
    <3>1. k - 1 \in 1..Len(s) /\ w = s[k - 1]
      <4>1. k - 1 \in 1..Len(s) /\ (k - 1) + 1 = k
        BY <1>1, <2>3
      <4>2. t[(k - 1) + 1] = s[k - 1]
        BY <1>1, <4>1
      <4> QED BY <2>1, <4>1, <4>2
    <3>2. \A j \in 1..(k - 2) : s[j] = t[j + 1]
      BY <1>1, <2>3
    <3>3. \A j \in 1..(k - 2) : ~HeaderNamesEqual(s[j].name, s[k - 1].name)
      BY <2>1, <3>1, <3>2
    <3>4. ~HeaderNamesEqual(h.name, w.name)
      BY <1>1, <2>1, <2>3
    <3>5. w \in Winners(s)
      BY <3>1, <3>3, WinnersOf
    <3> QED BY <3>4, <3>5
  <2> QED BY <2>2, <2>3
<1>3. h \in Winners(t)
  <2>1. 1 \in 1..Len(t) /\ h = t[1]
    BY <1>1
  <2> QED BY <1>1, <2>1, WinnersOf
<1>4. ASSUME NEW w \in Winners(s), ~HeaderNamesEqual(h.name, w.name)
      PROVE  w \in Winners(t)
  <2>1. PICK k \in 1..Len(s) :
          w = s[k] /\ \A j \in 1..(k - 1) : ~HeaderNamesEqual(s[j].name, s[k].name)
    BY <1>4, WinnersOf
  <2>2. k + 1 \in 1..Len(t) /\ w = t[k + 1]
    BY <1>1, <2>1
  <2>3. ASSUME NEW j \in 1..k
        PROVE  ~HeaderNamesEqual(t[j].name, t[k + 1].name)
    <3>1. CASE j = 1
      BY <1>1, <1>4, <2>2, <3>1
    <3>2. CASE j > 1
      <4>0. j - 1 \in 1..(k - 1) /\ j - 1 \in 1..Len(s)
        BY <2>3, <3>2
      <4>1. j - 1 \in 1..(k - 1) /\ t[j] = s[j - 1]
        BY <1>1, <4>0
      <4> QED BY <2>1, <2>2, <4>1
    <3> QED BY <3>1, <3>2
  <2>4. \A j \in 1..((k + 1) - 1) : ~HeaderNamesEqual(t[j].name, t[k + 1].name)
    BY <2>3
  <2> QED BY <1>1, <2>2, <2>4, WinnersOf
<1>5. \A w : w \in Winners(t) <=> w = h \/ (w \in Winners(s) /\ ~HeaderNamesEqual(h.name, w.name))
  BY <1>2, <1>3, <1>4
<1> QED BY <1>5 DEF t

LEMMA WinnersAppend ==
  ASSUME NEW H, NEW s \in Seq(H), NEW h \in H
  PROVE  \A w : w \in Winners(Append(s, h)) <=>
                 \/ w \in Winners(s)
                 \/ w = h /\ \A x \in Winners(s) : ~HeaderNamesEqual(x.name, h.name)
<1> DEFINE t == Append(s, h)
<1>1. t \in Seq(H) /\ Len(t) = Len(s) + 1 /\ t[Len(s) + 1] = h /\ \A i \in 1..Len(s) : t[i] = s[i]
  OBVIOUS
<1> HIDE DEF t
<1>2. ASSUME NEW w \in Winners(t)
      PROVE  w \in Winners(s) \/ (w = h /\ \A x \in Winners(s) : ~HeaderNamesEqual(x.name, h.name))
  <2>1. PICK k \in 1..Len(t) :
          w = t[k] /\ \A j \in 1..(k - 1) : ~HeaderNamesEqual(t[j].name, t[k].name)
    BY <1>1, <1>2, WinnersOf
  <2>2. CASE k \in 1..Len(s)
    <3>1. w = s[k] /\ \A j \in 1..(k - 1) : ~HeaderNamesEqual(s[j].name, s[k].name)
      BY <1>1, <2>1, <2>2
    <3> QED BY <2>2, <3>1, WinnersOf
  <2>3. CASE k = Len(s) + 1
    <3>1. w = h /\ \A j \in 1..Len(s) : ~HeaderNamesEqual(s[j].name, h.name)
      BY <1>1, <2>1, <2>3
    <3>2. \A x \in Winners(s) : \E j \in 1..Len(s) : x = s[j]
      BY WinnersOf
    <3> QED BY <3>1, <3>2
  <2> QED BY <1>1, <2>2, <2>3
<1>3. ASSUME NEW w \in Winners(s)
      PROVE  w \in Winners(t)
  <2>1. PICK k \in 1..Len(s) :
          w = s[k] /\ \A j \in 1..(k - 1) : ~HeaderNamesEqual(s[j].name, s[k].name)
    BY <1>3, WinnersOf
  <2>2. k \in 1..Len(t) /\ w = t[k] /\ \A j \in 1..(k - 1) : ~HeaderNamesEqual(t[j].name, t[k].name)
    BY <1>1, <2>1
  <2> QED BY <1>1, <2>2, WinnersOf
<1>4. ASSUME \A w \in Winners(s) : ~HeaderNamesEqual(w.name, h.name)
      PROVE  h \in Winners(t)
  <2>1. ASSUME NEW j \in 1..Len(s), HeaderNamesEqual(s[j].name, h.name)
        PROVE  FALSE
    <3>1. PICK w \in Winners(s) : HeaderNamesEqual(w.name, s[j].name)
      BY EachNameHasWinner
    <3> QED BY <1>4, <2>1, <3>1, SameName
  <2>2. /\ Len(s) + 1 \in 1..Len(t) /\ h = t[Len(s) + 1]
        /\ \A j \in 1..Len(s) : ~HeaderNamesEqual(t[j].name, t[Len(s) + 1].name)
    BY <1>1, <2>1
  <2> QED BY <1>1, <2>2, WinnersOf
<1>5. \A w : w \in Winners(t) <=>
             \/ w \in Winners(s)
             \/ w = h /\ \A x \in Winners(s) : ~HeaderNamesEqual(x.name, h.name)
  BY <1>2, <1>3, <1>4
<1> QED BY <1>5 DEF t

\* What setHeader comes to, when each name is there once.
LEMMA SetHeaderOverwrites ==
  ASSUME NEW H, NEW s \in Seq(H), Distinct(s), NEW h \in H
  PROVE  /\ SetHeader(s, h, TRUE) \in Seq(H)
         /\ Distinct(SetHeader(s, h, TRUE))
         /\ \A w : w \in ToSet(SetHeader(s, h, TRUE)) <=>
                    w = h \/ (w \in ToSet(s) /\ ~HeaderNamesEqual(h.name, w.name))
<1> DEFINE t == SetHeader(s, h, TRUE)
<1>1. CASE Positions(s, h.name) = {}
  <2>1. t = Append(s, h)
    BY <1>1 DEF SetHeader, HasHeader
  <2>2. \A i \in 1..Len(s) : ~HeaderNamesEqual(s[i].name, h.name)
    BY <1>1 DEF Positions
  <2> HIDE DEF t
  <2>3. t \in Seq(H) /\ Len(t) = Len(s) + 1 /\ t[Len(s) + 1] = h /\ \A i \in 1..Len(s) : t[i] = s[i]
    BY <2>1
  <2>4. Distinct(t)
    <3> SUFFICES ASSUME NEW i \in 1..Len(t),
                        NEW j \in 1..Len(t), HeaderNamesEqual(t[i].name, t[j].name)
                 PROVE  i = j
      BY DEF Distinct
    <3>1. i \in 1..Len(s) \/ i = Len(s) + 1
      BY <2>3
    <3>2. j \in 1..Len(s) \/ j = Len(s) + 1
      BY <2>3
    <3> QED BY <2>2, <2>3, <3>1, <3>2, SameName DEF Distinct
  <2>5. ToSet(t) = ToSet(s) \cup {h}
    BY <2>3 DEF ToSet
  <2>6. \A w \in ToSet(s) : ~HeaderNamesEqual(h.name, w.name)
    BY <2>2, SameName DEF ToSet
  <2> QED BY <2>3, <2>4, <2>5, <2>6 DEF t
<1>2. CASE Positions(s, h.name) # {}
  <2>1. PICK m \in 1..Len(s) : HeaderNamesEqual(s[m].name, h.name)
    BY <1>2 DEF Positions
  <2>2. Positions(s, h.name) = {m}
    BY <2>1, SameName DEF Positions, Distinct
  <2>3. Min(Positions(s, h.name)) = m
    BY <2>2 DEF Min
  <2>4. t = [s EXCEPT ![m] = h]
    BY <1>2, <2>3 DEF SetHeader, HasHeader
  <2> HIDE DEF t
  <2>5. t \in Seq(H) /\ Len(t) = Len(s) /\ t[m] = h /\ \A i \in 1..Len(s) : i # m => t[i] = s[i]
    BY <2>1, <2>4
  <2>6. \A i \in 1..Len(s) : HeaderNamesEqual(s[i].name, h.name) => i = m
    BY <2>1, SameName DEF Distinct
  <2>7. Distinct(t)
    <3> SUFFICES ASSUME NEW i \in 1..Len(t),
                        NEW j \in 1..Len(t), HeaderNamesEqual(t[i].name, t[j].name)
                 PROVE  i = j
      BY DEF Distinct
    <3>1. CASE i = m
      BY <2>5, <2>6, <3>1, SameName
    <3>2. CASE j = m
      BY <2>5, <2>6, <3>2, SameName
    <3>3. CASE i # m /\ j # m
      BY <2>5, <3>3 DEF Distinct
    <3> QED BY <3>1, <3>2, <3>3
  <2>8. ASSUME NEW w \in ToSet(t)
        PROVE  w = h \/ (w \in ToSet(s) /\ ~HeaderNamesEqual(h.name, w.name))
    <3>1. PICK i \in 1..Len(s) : w = t[i]
      BY <2>5, <2>8 DEF ToSet
    <3>2. CASE i # m
      BY <2>5, <2>6, <3>1, <3>2, SameName DEF ToSet
    <3> QED BY <2>5, <3>1, <3>2
  <2>9. ASSUME NEW w \in ToSet(s), ~HeaderNamesEqual(h.name, w.name)
        PROVE  w \in ToSet(t)
    <3>1. PICK i \in 1..Len(s) : w = s[i]
      BY <2>9 DEF ToSet
    <3>2. i # m
      BY <2>1, <2>9, <3>1, SameName
    <3> QED BY <2>5, <3>1, <3>2 DEF ToSet
  <2>10. h \in ToSet(t)
    BY <2>1, <2>5 DEF ToSet
  <2>11. \A w : w \in ToSet(t) <=> w = h \/ (w \in ToSet(s) /\ ~HeaderNamesEqual(h.name, w.name))
    BY <2>8, <2>9, <2>10
  <2> QED BY <2>5, <2>7, <2>11 DEF t
<1> QED BY <1>1, <1>2

LEMMA SetHeaderCompletes ==
  ASSUME NEW H, NEW s \in Seq(H), Distinct(s), NEW h \in H
  PROVE  /\ SetHeader(s, h, FALSE) \in Seq(H)
         /\ Distinct(SetHeader(s, h, FALSE))
         /\ \A w : w \in ToSet(SetHeader(s, h, FALSE)) <=>
                    \/ w \in ToSet(s)
                    \/ w = h /\ \A x \in ToSet(s) : ~HeaderNamesEqual(x.name, h.name)
<1> DEFINE t == SetHeader(s, h, FALSE)
<1>1. CASE Positions(s, h.name) = {}
  <2>1. t = Append(s, h)
    BY <1>1 DEF SetHeader, HasHeader
  <2>2. \A i \in 1..Len(s) : ~HeaderNamesEqual(s[i].name, h.name)
    BY <1>1 DEF Positions
  <2> HIDE DEF t
  <2>3. t \in Seq(H) /\ Len(t) = Len(s) + 1 /\ t[Len(s) + 1] = h /\ \A i \in 1..Len(s) : t[i] = s[i]
    BY <2>1
  <2>4. Distinct(t)
    <3> SUFFICES ASSUME NEW i \in 1..Len(t),
                        NEW j \in 1..Len(t), HeaderNamesEqual(t[i].name, t[j].name)
                 PROVE  i = j
      BY DEF Distinct
    <3>1. i \in 1..Len(s) \/ i = Len(s) + 1
      BY <2>3
    <3>2. j \in 1..Len(s) \/ j = Len(s) + 1
      BY <2>3
    <3> QED BY <2>2, <2>3, <3>1, <3>2, SameName DEF Distinct
  <2>5. ToSet(t) = ToSet(s) \cup {h}
    BY <2>3 DEF ToSet
  <2>6. \A w \in ToSet(s) : ~HeaderNamesEqual(w.name, h.name)
    BY <2>2 DEF ToSet
  <2> QED BY <2>3, <2>4, <2>5, <2>6 DEF t
<1>2. CASE Positions(s, h.name) # {}
  <2>1. t = s
    BY <1>2 DEF SetHeader, HasHeader
  <2>2. \E w \in ToSet(s) : HeaderNamesEqual(w.name, h.name)
    BY <1>2 DEF Positions, ToSet
  <2> QED BY <2>1, <2>2
<1> QED BY <1>1, <1>2

LEMMA SetHeaderRepresents ==
  ASSUME NEW H, NEW s \in Seq(H), NEW l \in Seq(H), Represents(s, l), NEW h \in H
  PROVE  /\ SetHeader(s, h, TRUE) \in Seq(H) /\ Represents(SetHeader(s, h, TRUE), <<h>> \o l)
         /\ SetHeader(s, h, FALSE) \in Seq(H) /\ Represents(SetHeader(s, h, FALSE), Append(l, h))
<1>1. Distinct(s) /\ ToSet(s) = Winners(l)
  BY DEF Represents
<1>2. ToSet(SetHeader(s, h, TRUE)) = Winners(<<h>> \o l)
  <2>1. \A w : w \in ToSet(SetHeader(s, h, TRUE)) <=>
               w = h \/ (w \in ToSet(s) /\ ~HeaderNamesEqual(h.name, w.name))
    BY <1>1, SetHeaderOverwrites
  <2>2. \A w : w \in Winners(<<h>> \o l) <=>
               w = h \/ (w \in Winners(l) /\ ~HeaderNamesEqual(h.name, w.name))
    BY WinnersPrepend
  <2>3. \A w : w \in ToSet(SetHeader(s, h, TRUE)) <=> w \in Winners(<<h>> \o l)
    BY <1>1, <2>1, <2>2
  <2> QED BY <2>3
<1>3. ToSet(SetHeader(s, h, FALSE)) = Winners(Append(l, h))
  <2>1. \A w : w \in ToSet(SetHeader(s, h, FALSE)) <=>
               \/ w \in ToSet(s)
               \/ w = h /\ \A x \in ToSet(s) : ~HeaderNamesEqual(x.name, h.name)
    BY <1>1, SetHeaderCompletes
  <2>2. \A w : w \in Winners(Append(l, h)) <=>
               \/ w \in Winners(l)
               \/ w = h /\ \A x \in Winners(l) : ~HeaderNamesEqual(x.name, h.name)
    BY WinnersAppend
  <2>3. \A w : w \in ToSet(SetHeader(s, h, FALSE)) <=> w \in Winners(Append(l, h))
    BY <1>1, <2>1, <2>2
  <2> QED BY <2>3
<1>4. /\ SetHeader(s, h, TRUE) \in Seq(H) /\ Distinct(SetHeader(s, h, TRUE))
      /\ SetHeader(s, h, FALSE) \in Seq(H) /\ Distinct(SetHeader(s, h, FALSE))
  BY <1>1, SetHeaderOverwrites, SetHeaderCompletes
<1> QED BY <1>2, <1>3, <1>4 DEF Represents

\* The list of merged headers is what its definition says.
Merging(s, more, overwrite) ==
  CHOOSE after :
    after = [i \in 0..Len(more) |-> IF i = 0 THEN s
        ELSE SetHeader(after[i - 1], more[i], overwrite)]

IsMerging(f, s, more, overwrite, n) ==
  f = [i \in 0..n |-> IF i = 0 THEN s ELSE SetHeader(f[i - 1], more[i], overwrite)]

LEMMA MergingExists ==
  ASSUME NEW s, NEW more, NEW overwrite, NEW n \in Nat
  PROVE  \E f : IsMerging(f, s, more, overwrite, n)
<1> DEFINE After(k, f) ==
      f = [i \in 0..k |-> IF i = 0 THEN s ELSE SetHeader(f[i - 1], more[i], overwrite)]
    S == {k \in 0..n : \E f : After(k, f)}
<1>1. 0 \in S
  <2>1. After(0, [i \in 0..0 |-> s])
    OBVIOUS
  <2> HIDE DEF After
  <2> QED BY <2>1
<1>2. ASSUME NEW k \in 0..(n - 1), k \in S
      PROVE  k + 1 \in S
  <2>1. PICK f : After(k, f)
    BY <1>2
  <2> DEFINE g == [i \in 0..(k + 1) |->
                IF i = k + 1 THEN SetHeader(f[k], more[k + 1], overwrite) ELSE f[i]]
  <2>2. \A i \in 0..k : g[i] = f[i]
    OBVIOUS
  <2>3. \A i \in 0..(k + 1) : g[i] = IF i = 0 THEN s ELSE SetHeader(g[i - 1], more[i], overwrite)
    <3> TAKE i \in 0..(k + 1)
    <3>1. CASE i = k + 1
      <4>1. g[k] = f[k] /\ g[k + 1] = SetHeader(f[k], more[k + 1], overwrite)
        BY <2>2
      <4> QED BY <3>1, <4>1
    <3>2. CASE i \in 1..k
      <4>1. f[i] = SetHeader(f[i - 1], more[i], overwrite)
        BY <2>1, <3>2
      <4>2. g[i] = f[i] /\ g[i - 1] = f[i - 1]
        BY <2>2, <3>2
      <4> QED BY <3>2, <4>1, <4>2
    <3>3. CASE i = 0
      BY <2>1, <2>2, <3>3
    <3> QED BY <3>1, <3>2, <3>3
  <2>4. g = [i \in 0..(k + 1) |-> g[i]]
    OBVIOUS
  <2> HIDE DEF g
  <2>5. After(k + 1, g)
    BY <2>3, <2>4
  <2> HIDE DEF After
  <2> QED BY <2>5
<1>3. n \in S
  <2> HIDE DEF S
  <2> QED BY <1>1, <1>2, UpTo
<1> QED BY <1>3 DEF IsMerging

LEMMA MergingValue ==
  ASSUME NEW s, NEW H, NEW more \in Seq(H), NEW overwrite
  PROVE  Merging(s, more, overwrite) =
           [i \in 0..Len(more) |->
             IF i = 0 THEN s ELSE SetHeader(Merging(s, more, overwrite)[i - 1], more[i], overwrite)]
<1>1. Len(more) \in Nat
  OBVIOUS
<1>2. \E f : IsMerging(f, s, more, overwrite, Len(more))
  BY <1>1, MergingExists
<1>3. Merging(s, more, overwrite) = CHOOSE f : IsMerging(f, s, more, overwrite, Len(more))
  BY Zenon DEF Merging, IsMerging
<1>4. IsMerging(Merging(s, more, overwrite), s, more, overwrite, Len(more))
  BY <1>2, <1>3
<1> QED BY <1>4 DEF IsMerging

LEMMA MergingStarts ==
  ASSUME NEW s, NEW H, NEW more \in Seq(H), NEW overwrite
  PROVE  Merging(s, more, overwrite)[0] = s
<1> DEFINE f == Merging(s, more, overwrite)
<1>1. f = [i \in 0..Len(more) |-> IF i = 0 THEN s ELSE SetHeader(f[i - 1], more[i], overwrite)]
  BY MergingValue
<1> HIDE DEF f
<1>2. f[0] = s
  BY <1>1
<1> QED BY <1>2 DEF f

LEMMA MergingGoesOn ==
  ASSUME NEW s, NEW H, NEW more \in Seq(H), NEW overwrite
  PROVE  \A i \in 1..Len(more) :
           Merging(s, more, overwrite)[i] =
               SetHeader(Merging(s, more, overwrite)[i - 1], more[i], overwrite)
<1> DEFINE f == Merging(s, more, overwrite)
<1>1. f = [i \in 0..Len(more) |-> IF i = 0 THEN s ELSE SetHeader(f[i - 1], more[i], overwrite)]
  BY MergingValue
<1> HIDE DEF f
<1>2. \A i \in 1..Len(more) : f[i] = SetHeader(f[i - 1], more[i], overwrite)
  BY <1>1
<1> QED BY <1>2 DEF f

LEMMA MergingEnds ==
  ASSUME NEW s, NEW H, NEW more \in Seq(H), NEW overwrite
  PROVE  Merged(s, more, overwrite) = Merging(s, more, overwrite)[Len(more)]
BY DEF Merged, Merging

\* What the headers represent that a list is merged into.
LEMMA ReverseOf ==
  ASSUME NEW H, NEW more \in Seq(H)
  PROVE  Reverse(more) = [j \in 1..Len(more) |-> more[(Len(more) - j) + 1]]
BY DEF Reverse

LEMMA SameSequence ==
  ASSUME NEW H, NEW a \in Seq(H), NEW b \in Seq(H), Len(a) = Len(b), \A k \in 1..Len(a) : a[k] =
      b[k]
  PROVE  a = b
OBVIOUS

LEMMA PrependToBoth ==
  ASSUME NEW H, NEW h \in H, NEW a \in Seq(H), NEW b \in Seq(H)
  PROVE  (<<h>> \o a) \o b = <<h>> \o (a \o b)
<1>1. <<h>> \in Seq(H)
  OBVIOUS
<1> QED BY <1>1, ConcatAssociative

LEMMA AppendToBoth ==
  ASSUME NEW H, NEW a \in Seq(H), NEW b \in Seq(H), NEW h \in H
  PROVE  a \o Append(b, h) = Append(a \o b, h)
<1>1. \A k \in 1..(Len(a) + Len(b) + 1) : (a \o Append(b, h))[k] = Append(a \o b, h)[k]
  OBVIOUS
<1> QED BY <1>1, SameSequence

LEMMA OverwrittenRepresents ==
  ASSUME NEW H, NEW s \in Seq(H), NEW l \in Seq(H), Represents(s, l), NEW more \in Seq(H)
  PROVE  /\ Overwritten(s, more) \in Seq(H)
         /\ Represents(Overwritten(s, more), Reverse(more) \o l)
<1> DEFINE f == Merging(s, more, TRUE)
           Back(i) == [j \in 1..i |-> more[(i - j) + 1]]
           Good(i) == f[i] \in Seq(H) /\ Represents(f[i], Back(i) \o l)
           S == {i \in 0..Len(more) : Good(i)}
<1>0. Len(more) \in Nat
  OBVIOUS
<1>1. /\ f[0] = s /\ Overwritten(s, more) = f[Len(more)]
      /\ \A i \in 1..Len(more) : f[i] = SetHeader(f[i - 1], more[i], TRUE)
  <2>1. f[0] = s
    BY MergingStarts
  <2>2. Merged(s, more, TRUE) = f[Len(more)]
    BY MergingEnds
  <2>3. \A i \in 1..Len(more) : f[i] = SetHeader(f[i - 1], more[i], TRUE)
    BY MergingGoesOn, ZenonT(40)
  <2>4. Overwritten(s, more) = Merged(s, more, TRUE)
    BY Zenon DEF Overwritten
  <2> HIDE DEF f
  <2> QED BY <2>1, <2>2, <2>3, <2>4
<1> HIDE DEF f
<1>2. ASSUME NEW i \in 0..Len(more)
      PROVE  Back(i) \in Seq(H) /\ Len(Back(i)) = i /\ \A j \in 1..i : Back(i)[j] =
          more[(i - j) + 1]
  <2>1. \A j \in 1..i : more[(i - j) + 1] \in H
    BY <1>0
  <2> QED BY <1>0, <2>1
<1>3. Back(Len(more)) = Reverse(more)
  BY ReverseOf
<1>4. 0 \in S
  <2>1. Back(0) = <<>>
    OBVIOUS
  <2>2. Back(0) \o l = l
    BY <2>1
  <2> HIDE DEF Back
  <2>3. Good(0)
    BY <1>1, <2>2
  <2> HIDE DEF Good
  <2> QED BY <1>0, <2>3
<1> HIDE DEF Back
<1>5. ASSUME NEW i \in 0..(Len(more) - 1), i \in S
      PROVE  i + 1 \in S
  <2>0. i + 1 \in 1..Len(more) /\ (i + 1) - 1 = i
    BY <1>0
  <2>a. f[i + 1] = SetHeader(f[i], more[i + 1], TRUE)
    BY <1>1, <2>0
  <2>1. f[i + 1] = SetHeader(f[i], more[i + 1], TRUE) /\ more[i + 1] \in H /\ i + 1 \in 0..Len(more)
        /\ i \in 0..Len(more)
    BY <1>0, <2>0, <2>a
  <2>2. Back(i) \in Seq(H) /\ Len(Back(i)) = i /\ Back(i + 1) \in Seq(H) /\ Len(Back(i + 1)) = i + 1
    BY <1>2, <2>1
  <2>3. Back(i + 1) = <<more[i + 1]>> \o Back(i)
    <3> DEFINE b == <<more[i + 1]>> \o Back(i)
    <3>1. b \in Seq(H) /\ Len(b) = i + 1 /\ b[1] = more[i + 1] /\ \A j \in 1..i : b[j + 1] =
             Back(i)[j]
      BY <2>1, <2>2
    <3>0. b = <<more[i + 1]>> \o Back(i)
      OBVIOUS
    <3> HIDE DEF b
    <3>2. ASSUME NEW k \in 1..(i + 1)
          PROVE  Back(i + 1)[k] = b[k]
      <4>1. Back(i + 1)[k] = more[((i + 1) - k) + 1]
        BY <1>2, <2>1
      <4>2. CASE k = 1
        BY <3>1, <4>1, <4>2
      <4>3. CASE k > 1
        <5>1. k - 1 \in 1..i /\ (k - 1) + 1 = k /\ (i - (k - 1)) + 1 = ((i + 1) - k) + 1
          BY <4>3
        <5>2. b[(k - 1) + 1] = Back(i)[k - 1]
          BY <3>1, <5>1
        <5>3. Back(i)[k - 1] = more[(i - (k - 1)) + 1]
          BY <1>2, <2>1, <5>1
        <5> QED BY <4>1, <5>1, <5>2, <5>3
      <4> QED BY <4>2, <4>3
    <3>3. Back(i + 1) = b
      BY <2>2, <3>1, <3>2, SameSequence
    <3> QED BY <3>0, <3>3
  <2>4. Back(i + 1) \o l = <<more[i + 1]>> \o (Back(i) \o l)
    <3>1. (<<more[i + 1]>> \o Back(i)) \o l = <<more[i + 1]>> \o (Back(i) \o l)
      BY <2>1, <2>2, PrependToBoth, SMTT(40)
    <3> QED BY <2>3, <3>1
  <2>5. Back(i) \o l \in Seq(H)
    BY <2>2
  <2>6. f[i] \in Seq(H) /\ Represents(f[i], Back(i) \o l)
    BY <1>5
  <2>7. SetHeader(f[i], more[i + 1], TRUE) \in Seq(H)
    BY <2>1, <2>5, <2>6, SetHeaderRepresents
  <2>8. Represents(SetHeader(f[i], more[i + 1], TRUE), <<more[i + 1]>> \o (Back(i) \o l))
    BY <2>1, <2>5, <2>6, SetHeaderRepresents
  <2>9. Good(i + 1)
    BY <2>1, <2>4, <2>7, <2>8
  <2> HIDE DEF Good
  <2> QED BY <2>1, <2>9
<1>6. Len(more) \in S
  <2> HIDE DEF S
  <2>1. 0..Len(more) \subseteq S
    BY <1>0, <1>4, <1>5, UpTo
  <2> QED BY <1>0, <2>1
<1> QED BY <1>1, <1>3, <1>6

LEMMA CompletedRepresents ==
  ASSUME NEW H, NEW s \in Seq(H), NEW l \in Seq(H), Represents(s, l), NEW more \in Seq(H)
  PROVE  /\ Completed(s, more) \in Seq(H)
         /\ Represents(Completed(s, more), l \o more)
<1> DEFINE f == Merging(s, more, FALSE)
           Part(i) == SubSeq(more, 1, i)
           Good(i) == f[i] \in Seq(H) /\ Represents(f[i], l \o Part(i))
           S == {i \in 0..Len(more) : Good(i)}
<1>0. Len(more) \in Nat
  OBVIOUS
<1>1. /\ f[0] = s /\ Completed(s, more) = f[Len(more)]
      /\ \A i \in 1..Len(more) : f[i] = SetHeader(f[i - 1], more[i], FALSE)
  <2>1. f[0] = s
    BY MergingStarts
  <2>2. Merged(s, more, FALSE) = f[Len(more)]
    BY MergingEnds
  <2>3. \A i \in 1..Len(more) : f[i] = SetHeader(f[i - 1], more[i], FALSE)
    BY MergingGoesOn
  <2>4. Completed(s, more) = Merged(s, more, FALSE)
    BY Zenon DEF Completed
  <2> HIDE DEF f
  <2> QED BY <2>1, <2>2, <2>3, <2>4
<1> HIDE DEF f
<1>2. Part(Len(more)) = more /\ Part(0) = <<>>
  OBVIOUS
<1>3. ASSUME NEW i \in 0..(Len(more) - 1)
      PROVE  /\ Part(i) \in Seq(H) /\ Part(i + 1) = Append(Part(i), more[i + 1])
             /\ more[i + 1] \in H /\ i + 1 \in 0..Len(more)
  OBVIOUS
<1> HIDE DEF Part
<1>4. 0 \in S
  <2>1. l \o Part(0) = l
    BY <1>2
  <2>2. Good(0)
    BY <1>1, <2>1
  <2> HIDE DEF Good
  <2> QED BY <1>0, <2>2
<1>5. ASSUME NEW i \in 0..(Len(more) - 1), i \in S
      PROVE  i + 1 \in S
  <2>0. i + 1 \in 1..Len(more) /\ (i + 1) - 1 = i
    BY <1>0
  <2>a. f[i + 1] = SetHeader(f[i], more[i + 1], FALSE)
    BY <1>1, <2>0
  <2>1. f[i + 1] =
           SetHeader(f[i], more[i + 1], FALSE) /\ more[i + 1] \in H /\ i + 1 \in 0..Len(more)
    BY <1>3, <2>0, <2>a
  <2>2. Part(i) \in Seq(H) /\ Part(i + 1) = Append(Part(i), more[i + 1])
    BY <1>3
  <2>b. l \o Append(Part(i), more[i + 1]) = Append(l \o Part(i), more[i + 1])
    BY <2>1, <2>2, AppendToBoth
  <2>c. l \o Part(i + 1) = Append(l \o Part(i), more[i + 1])
    BY <2>2, <2>b, Zenon
  <2>d. l \o Part(i) \in Seq(H)
    BY <2>2
  <2>3. l \o Part(i + 1) = Append(l \o Part(i), more[i + 1]) /\ l \o Part(i) \in Seq(H)
    BY <2>c, <2>d
  <2>4. f[i] \in Seq(H) /\ Represents(f[i], l \o Part(i))
    BY <1>5
  <2>5. SetHeader(f[i], more[i + 1], FALSE) \in Seq(H)
    BY <2>1, <2>3, <2>4, SetHeaderRepresents
  <2>6. Represents(SetHeader(f[i], more[i + 1], FALSE), Append(l \o Part(i), more[i + 1]))
    BY <2>1, <2>3, <2>4, SetHeaderRepresents
  <2>7. Good(i + 1)
    BY <2>1, <2>3, <2>5, <2>6
  <2> HIDE DEF Good
  <2> QED BY <2>1, <2>7
<1>6. Len(more) \in S
  <2> HIDE DEF S
  <2>1. 0..Len(more) \subseteq S
    BY <1>0, <1>4, <1>5, UpTo
  <2> QED BY <1>0, <2>1
<1> QED BY <1>1, <1>2, <1>6

-----------------------------------------------------------------------------
(* Configurations.                                                         *)

\* The configuration after each member of an interceptor.
IsIntercepting(f, c, json, excluded, n) ==
  f = [i \in 0..n |-> IF i = 0 THEN c ELSE SetMember(f[i - 1], json.entries[i], excluded)]
Intercepting(c, json, excluded, n) ==
  CHOOSE f : IsIntercepting(f, c, json, excluded, n)

LEMMA InterceptingExists ==
  ASSUME NEW c, NEW json, NEW excluded, NEW n \in Nat
  PROVE  \E f : IsIntercepting(f, c, json, excluded, n)
<1> DEFINE S == {k \in 0..n : \E f : IsIntercepting(f, c, json, excluded, k)}
<1>1. 0 \in S
  <2>1. IsIntercepting([i \in 0..0 |-> c], c, json, excluded, 0)
    BY DEF IsIntercepting
  <2> QED BY <2>1
<1>2. ASSUME NEW k \in 0..(n - 1), k \in S
      PROVE  k + 1 \in S
  <2>1. PICK f : IsIntercepting(f, c, json, excluded, k)
    BY <1>2
  <2>2. f = [i \in 0..k |-> IF i = 0 THEN c ELSE SetMember(f[i - 1], json.entries[i], excluded)]
    BY <2>1 DEF IsIntercepting
  <2> DEFINE g == [i \in 0..(k + 1) |->
                IF i = k + 1 THEN SetMember(f[k], json.entries[k + 1], excluded) ELSE f[i]]
  <2>3. \A i \in 0..k : g[i] = f[i]
    OBVIOUS
  <2>4. ASSUME NEW i \in 0..(k + 1)
        PROVE  g[i] = IF i = 0 THEN c ELSE SetMember(g[i - 1], json.entries[i], excluded)
    <3>1. CASE i = k + 1
      <4>1. g[k] = f[k] /\ g[k + 1] = SetMember(f[k], json.entries[k + 1], excluded)
        BY <2>3
      <4> QED BY <3>1, <4>1
    <3>2. CASE i \in 1..k
      <4>1. f[i] = SetMember(f[i - 1], json.entries[i], excluded)
        BY <2>2, <3>2
      <4>2. g[i] = f[i] /\ g[i - 1] = f[i - 1]
        BY <2>3, <3>2
      <4> QED BY <3>2, <4>1, <4>2
    <3>3. CASE i = 0
      <4>1. f[0] = c
        BY <2>2
      <4> QED BY <2>3, <3>3, <4>1
    <3> QED BY <3>1, <3>2, <3>3
  <2>5. g = [i \in 0..(k + 1) |-> g[i]]
    OBVIOUS
  <2> HIDE DEF g
  <2>6. g = [i \in 0..(k + 1) |-> IF i = 0 THEN c
           ELSE SetMember(g[i - 1], json.entries[i], excluded)]
    BY <2>4, <2>5
  <2>7. IsIntercepting(g, c, json, excluded, k + 1)
    BY <2>6 DEF IsIntercepting
  <2> QED BY <2>7
<1>3. 0..n \subseteq S
  <2> HIDE DEF S
  <2> QED BY <1>1, <1>2, UpTo
<1> QED BY <1>3

LEMMA InterceptingValue ==
  ASSUME NEW c, NEW json, NEW excluded, NEW n \in Nat
  PROVE  /\ Intercepting(c, json, excluded, n)[0] = c
         /\ \A i \in 1..n : Intercepting(c, json, excluded, n)[i] =
             SetMember(Intercepting(c, json, excluded, n)[i - 1], json.entries[i], excluded)
<1> DEFINE f == Intercepting(c, json, excluded, n)
<1>1. \E h : IsIntercepting(h, c, json, excluded, n)
  BY InterceptingExists
<1>2. IsIntercepting(f, c, json, excluded, n)
  BY <1>1, Zenon DEF Intercepting
<1>3. f = [i \in 0..n |-> IF i = 0 THEN c ELSE SetMember(f[i - 1], json.entries[i], excluded)]
  BY <1>2 DEF IsIntercepting
<1> HIDE DEF f
<1>4. f[0] = c /\ \A i \in 1..n : f[i] = SetMember(f[i - 1], json.entries[i], excluded)
  BY <1>3
<1> QED BY <1>4 DEF f

\* The configuration after each entry of the config blocks.
IsApplying(f, c, entries, n) ==
  f = [i \in 0..n |-> IF i = 0 THEN c
      ELSE ApplyEntry(f[i - 1], entries[i].name, ReadEntry(entries[i].value))]
Applying(c, entries, n) ==
  CHOOSE f : IsApplying(f, c, entries, n)

LEMMA ApplyingExists ==
  ASSUME NEW c, NEW entries, NEW n \in Nat
  PROVE  \E f : IsApplying(f, c, entries, n)
<1> DEFINE S == {k \in 0..n : \E f : IsApplying(f, c, entries, k)}
<1>1. 0 \in S
  <2>1. IsApplying([i \in 0..0 |-> c], c, entries, 0)
    BY DEF IsApplying
  <2> QED BY <2>1
<1>2. ASSUME NEW k \in 0..(n - 1), k \in S
      PROVE  k + 1 \in S
  <2>1. PICK f : IsApplying(f, c, entries, k)
    BY <1>2
  <2>2. f = [i \in 0..k |-> IF i = 0 THEN c
           ELSE ApplyEntry(f[i - 1], entries[i].name, ReadEntry(entries[i].value))]
    BY <2>1 DEF IsApplying
  <2> DEFINE g == [i \in 0..(k + 1) |->
                IF i = k + 1 THEN ApplyEntry(f[k], entries[k + 1].name, ReadEntry(entries[k + 1].value)) ELSE f[i]]
  <2>3. \A i \in 0..k : g[i] = f[i]
    OBVIOUS
  <2>4. ASSUME NEW i \in 0..(k + 1)
        PROVE  g[i] = IF i = 0 THEN c
            ELSE ApplyEntry(g[i - 1], entries[i].name, ReadEntry(entries[i].value))
    <3>1. CASE i = k + 1
      <4>1. g[k] = f[k] /\ g[k + 1] =
               ApplyEntry(f[k], entries[k + 1].name, ReadEntry(entries[k + 1].value))
        BY <2>3
      <4> QED BY <3>1, <4>1
    <3>2. CASE i \in 1..k
      <4>1. f[i] = ApplyEntry(f[i - 1], entries[i].name, ReadEntry(entries[i].value))
        BY <2>2, <3>2
      <4>2. g[i] = f[i] /\ g[i - 1] = f[i - 1]
        BY <2>3, <3>2
      <4> QED BY <3>2, <4>1, <4>2
    <3>3. CASE i = 0
      <4>1. f[0] = c
        BY <2>2
      <4> QED BY <2>3, <3>3, <4>1
    <3> QED BY <3>1, <3>2, <3>3
  <2>5. g = [i \in 0..(k + 1) |-> g[i]]
    OBVIOUS
  <2> HIDE DEF g
  <2>6. g = [i \in 0..(k + 1) |-> IF i = 0 THEN c
           ELSE ApplyEntry(g[i - 1], entries[i].name, ReadEntry(entries[i].value))]
    BY <2>4, <2>5
  <2>7. IsApplying(g, c, entries, k + 1)
    BY <2>6 DEF IsApplying
  <2> QED BY <2>7
<1>3. 0..n \subseteq S
  <2> HIDE DEF S
  <2> QED BY <1>1, <1>2, UpTo
<1> QED BY <1>3

LEMMA ApplyingValue ==
  ASSUME NEW c, NEW entries, NEW n \in Nat
  PROVE  /\ Applying(c, entries, n)[0] = c
         /\ \A i \in 1..n : Applying(c, entries, n)[i] =
             ApplyEntry(Applying(c, entries, n)[i - 1], entries[i].name, ReadEntry(entries[i].value))
<1> DEFINE f == Applying(c, entries, n)
<1>1. \E h : IsApplying(h, c, entries, n)
  BY ApplyingExists
<1>2. IsApplying(f, c, entries, n)
  BY <1>1, Zenon DEF Applying
<1>3. f = [i \in 0..n |-> IF i = 0 THEN c
         ELSE ApplyEntry(f[i - 1], entries[i].name, ReadEntry(entries[i].value))]
  BY <1>2 DEF IsApplying
<1> HIDE DEF f
<1>4. f[0] = c /\ \A i \in 1..n : f[i] =
         ApplyEntry(f[i - 1], entries[i].name, ReadEntry(entries[i].value))
  BY <1>3
<1> QED BY <1>4 DEF f

\* The configuration after each override.
IsOverriding(f, c, entries, n) ==
  f = [i \in 0..n |-> IF i = 0 THEN c ELSE ApplyOverride(f[i - 1], entries[i])]
Overriding(c, entries, n) ==
  CHOOSE f : IsOverriding(f, c, entries, n)

LEMMA OverridingExists ==
  ASSUME NEW c, NEW entries, NEW n \in Nat
  PROVE  \E f : IsOverriding(f, c, entries, n)
<1> DEFINE S == {k \in 0..n : \E f : IsOverriding(f, c, entries, k)}
<1>1. 0 \in S
  <2>1. IsOverriding([i \in 0..0 |-> c], c, entries, 0)
    BY DEF IsOverriding
  <2> QED BY <2>1
<1>2. ASSUME NEW k \in 0..(n - 1), k \in S
      PROVE  k + 1 \in S
  <2>1. PICK f : IsOverriding(f, c, entries, k)
    BY <1>2
  <2>2. f = [i \in 0..k |-> IF i = 0 THEN c ELSE ApplyOverride(f[i - 1], entries[i])]
    BY <2>1 DEF IsOverriding
  <2> DEFINE g == [i \in 0..(k + 1) |-> IF i = k + 1 THEN ApplyOverride(f[k], entries[k + 1])
           ELSE f[i]]
  <2>3. \A i \in 0..k : g[i] = f[i]
    OBVIOUS
  <2>4. ASSUME NEW i \in 0..(k + 1)
        PROVE  g[i] = IF i = 0 THEN c ELSE ApplyOverride(g[i - 1], entries[i])
    <3>1. CASE i = k + 1
      <4>1. g[k] = f[k] /\ g[k + 1] = ApplyOverride(f[k], entries[k + 1])
        BY <2>3
      <4> QED BY <3>1, <4>1
    <3>2. CASE i \in 1..k
      <4>1. f[i] = ApplyOverride(f[i - 1], entries[i])
        BY <2>2, <3>2
      <4>2. g[i] = f[i] /\ g[i - 1] = f[i - 1]
        BY <2>3, <3>2
      <4> QED BY <3>2, <4>1, <4>2
    <3>3. CASE i = 0
      <4>1. f[0] = c
        BY <2>2
      <4> QED BY <2>3, <3>3, <4>1
    <3> QED BY <3>1, <3>2, <3>3
  <2>5. g = [i \in 0..(k + 1) |-> g[i]]
    OBVIOUS
  <2> HIDE DEF g
  <2>6. g = [i \in 0..(k + 1) |-> IF i = 0 THEN c ELSE ApplyOverride(g[i - 1], entries[i])]
    BY <2>4, <2>5
  <2>7. IsOverriding(g, c, entries, k + 1)
    BY <2>6 DEF IsOverriding
  <2> QED BY <2>7
<1>3. 0..n \subseteq S
  <2> HIDE DEF S
  <2> QED BY <1>1, <1>2, UpTo
<1> QED BY <1>3

LEMMA OverridingValue ==
  ASSUME NEW c, NEW entries, NEW n \in Nat
  PROVE  /\ Overriding(c, entries, n)[0] = c
         /\ \A i \in 1..n : Overriding(c, entries, n)[i] =
             ApplyOverride(Overriding(c, entries, n)[i - 1], entries[i])
<1> DEFINE f == Overriding(c, entries, n)
<1>1. \E h : IsOverriding(h, c, entries, n)
  BY OverridingExists
<1>2. IsOverriding(f, c, entries, n)
  BY <1>1, Zenon DEF Overriding
<1>3. f = [i \in 0..n |-> IF i = 0 THEN c ELSE ApplyOverride(f[i - 1], entries[i])]
  BY <1>2 DEF IsOverriding
<1> HIDE DEF f
<1>4. f[0] = c /\ \A i \in 1..n : f[i] = ApplyOverride(f[i - 1], entries[i])
  BY <1>3
<1> QED BY <1>4 DEF f

\* What each step of load leaves: no configuration, or all settings, the headers in a list, the
\* url a text and the providers as they were given.
ReadSettings == {"commonHeaders", "baseUrl", "authProviders"}
IsConfiguration(c) ==
  /\ DOMAIN c = DOMAIN Defaults
  /\ IsList(c.commonHeaders) /\ (c.baseUrl = "" \/ c.baseUrl \in STRING)
  /\ c.authProviders = Absent \/ IsSetting("authProviders", c.authProviders)
IsOutcome(c) == IsInvalid(c) \/ IsConfiguration(c)

LEMMA ReadSettingsAreSettings == ReadSettings \subseteq DOMAIN Defaults
<1>1. {"commonHeaders", "baseUrl", "authProviders"} \subseteq DOMAIN Defaults
  BY DEF Defaults
<1> QED BY <1>1 DEF ReadSettings

LEMMA SetReadsBack ==
  ASSUME NEW c, IsConfiguration(c), NEW name, NEW value, name \in DOMAIN Defaults
  PROVE  LET d == [c EXCEPT ![name] = value]
         IN DOMAIN d = DOMAIN Defaults /\ d[name] = value
            /\ \A other \in DOMAIN Defaults : other # name => d[other] = c[other]
BY DEF IsConfiguration

LEMMA SetLeavesOutcome ==
  ASSUME NEW c, IsConfiguration(c), NEW name, name \notin ReadSettings, NEW value
  PROVE  /\ IsConfiguration([c EXCEPT ![name] = value])
         /\ \A allowed \in BOOLEAN : IsOutcome(Set(c, name, allowed, value))
<1>1. IsConfiguration([c EXCEPT ![name] = value])
  <2>1. DOMAIN [c EXCEPT ![name] = value] = DOMAIN Defaults
    BY DEF IsConfiguration
  <2>2. \A other \in ReadSettings : [c EXCEPT ![name] = value][other] = c[other]
    BY ReadSettingsAreSettings DEF IsConfiguration
  <2>3. {"commonHeaders", "baseUrl", "authProviders"} \subseteq ReadSettings
    BY DEF ReadSettings
  <2> QED BY <2>1, <2>2, <2>3 DEF IsConfiguration
<1> QED BY <1>1 DEF Set, IsOutcome, IsInvalid

LEMMA SetUrlLeavesOutcome ==
  ASSUME NEW c, IsConfiguration(c), NEW value, NEW allowed \in BOOLEAN, allowed => value \in STRING
  PROVE  IsOutcome(Set(c, "baseUrl", allowed, value))
<1>1. {"commonHeaders", "baseUrl", "authProviders"} \subseteq DOMAIN Defaults
  BY DEF Defaults
<1>2. value \in STRING => IsConfiguration([c EXCEPT !["baseUrl"] = value])
  BY <1>1, SetReadsBack DEF IsConfiguration
<1> QED BY <1>2 DEF Set, IsOutcome, IsInvalid

LEMMA SetProvidersLeavesOutcome ==
  ASSUME NEW c, IsConfiguration(c), NEW value, IsSetting("authProviders", value)
  PROVE  IsConfiguration([c EXCEPT !["authProviders"] = value])
<1>1. {"commonHeaders", "baseUrl", "authProviders"} \subseteq DOMAIN Defaults
  BY DEF Defaults
<1> QED BY <1>1, SetReadsBack DEF IsConfiguration

LEMMA SetHeadersLeavesOutcome ==
  ASSUME NEW c, IsConfiguration(c), NEW headers, IsList(headers)
  PROVE  IsOutcome(SetHeaders(c, headers))
<1>1. {"commonHeaders", "baseUrl", "authProviders"} \subseteq DOMAIN Defaults
  BY DEF Defaults
<1>2. IsConfiguration([c EXCEPT !["commonHeaders"] = headers])
  BY <1>1, SetReadsBack DEF IsConfiguration
<1> QED BY <1>2 DEF SetHeaders, Set, IsOutcome, IsInvalid

LEMMA MemberLeavesOutcome ==
  ASSUME NEW c, IsOutcome(c), NEW e, NEW excluded
  PROVE  IsOutcome(SetMember(c, e, excluded))
<1>1. CASE IsInvalid(c)
  BY <1>1 DEF SetMember, IsOutcome, IsInvalid
<1>2. CASE ~IsInvalid(c) /\ e.key = excluded
  BY <1>2, SetLeavesOutcome DEF SetMember, SetExcluded, IsOutcome, ReadSettings
<1>3. CASE ~IsInvalid(c) /\ e.key # excluded /\ e.key \in LogFlags
  <2>1. e.key \notin ReadSettings
    BY <1>3 DEF LogFlags, ReadSettings
  <2> QED BY <1>3, <2>1, SetLeavesOutcome DEF SetMember, IsOutcome
<1>4. CASE ~IsInvalid(c) /\ e.key # excluded /\ e.key \notin LogFlags
  BY <1>4 DEF SetMember, IsOutcome, IsInvalid
<1> QED BY <1>1, <1>2, <1>3, <1>4

LEMMA InterceptorLeavesOutcome ==
  ASSUME NEW c, IsConfiguration(c), NEW json, IsSetting("interceptor", json), NEW excluded
  PROVE  IsOutcome(SetInterceptor(c, json, excluded))
<1>1. CASE json.kind # "Object"
  BY <1>1 DEF SetInterceptor, IsOutcome, IsInvalid
<1>2. CASE json.kind = "Object"
  <2> DEFINE n == Len(json.entries)
             f == Intercepting(c, json, excluded, n)
             S == {i \in 0..n : IsOutcome(f[i])}
  <2>1. n \in Nat
    BY <1>2 DEF IsSetting, IsList
  <2>2. SetInterceptor(c, json, excluded) = f[n]
    BY <1>2 DEF SetInterceptor, Intercepting, IsIntercepting
  <2> HIDE DEF n
  <2>3. f[0] = c
    BY <2>1, InterceptingValue
  <2>4. \A i \in 1..n : f[i] = SetMember(f[i - 1], json.entries[i], excluded)
    BY <2>1, InterceptingValue
  <2> HIDE DEF f
  <2>5. 0 \in S
    BY <2>1, <2>3 DEF IsOutcome
  <2>6. ASSUME NEW i \in 0..(n - 1), i \in S
        PROVE  i + 1 \in S
    <3>1. i + 1 \in 1..n /\ (i + 1) - 1 = i
      BY <2>1
    <3>2. f[i + 1] = SetMember(f[i], json.entries[i + 1], excluded)
      BY <2>4, <3>1
    <3> QED BY <2>6, <3>1, <3>2, MemberLeavesOutcome
  <2>7. 0..n \subseteq S
    <3> HIDE DEF S
    <3> QED BY <2>1, <2>5, <2>6, UpTo
  <2>8. IsOutcome(f[n])
    BY <2>1, <2>7
  <2> QED BY <2>2, <2>8
<1> QED BY <1>1, <1>2

LEMMA CommonLeavesOutcome ==
  ASSUME NEW c, IsConfiguration(c), NEW name \in CommonSettings, NEW json, IsSetting(name, json)
  PROVE  IsOutcome(SetCommon(c, name, json))
<1>1. name # "baseUrl" => name \notin ReadSettings
  BY DEF CommonSettings, Limits, Flags, ReadSettings
<1>2. name = "baseUrl" => name \notin DOMAIN Limits /\ name \notin Flags
  BY DEF Limits, Flags
<1>3. name \in DOMAIN Limits => name \notin Flags
  BY DEF Limits, Flags
<1>4. CASE name = "baseUrl"
  <2> DEFINE allowed == json.kind = "String" /\ (json.value # "" => IsAbsoluteHttpUrl(json.value))
  <2>1. SetCommon(c, name, json) = Set(c, "baseUrl", allowed, json.value)
    BY <1>2, <1>4 DEF SetCommon
  <2>2. allowed \in BOOLEAN /\ (allowed => json.value \in STRING)
    BY DEF IsSetting
  <2> HIDE DEF allowed
  <2> QED BY <2>1, <2>2, SetUrlLeavesOutcome
<1>a. name \in DOMAIN Limits => name # "baseUrl"
  BY DEF Limits
<1>b. name \in Flags => name # "baseUrl"
  BY DEF Flags
<1>5. CASE name \in DOMAIN Limits
  BY <1>1, <1>a, <1>3, <1>5, SetLeavesOutcome DEF SetCommon
<1>6. CASE name \in Flags
  BY <1>1, <1>b, <1>3, <1>6, SetLeavesOutcome DEF SetCommon
<1> QED BY <1>4, <1>5, <1>6 DEF CommonSettings

LEMMA EntryLeavesOutcome ==
  ASSUME NEW c, IsOutcome(c), NEW name, NEW json, IsSetting(name, json)
  PROVE  IsOutcome(ApplyEntry(c, name, json))
<1>1. CASE IsInvalid(c) \/ name \notin Settings \/ IsInvalid(json)
  BY <1>1 DEF ApplyEntry, IsOutcome, IsInvalid
<1>2. CASE ~(IsInvalid(c) \/ name \notin Settings \/ IsInvalid(json))
  <2>1. IsConfiguration(c) /\ ApplyEntry(c, name, json) = SetEntry(c, name, json)
    BY <1>2 DEF ApplyEntry, IsOutcome
  <2>2. CASE name = "interceptor"
    <3>1. SetEntry(c, name, json) =
            IF json.kind = "Boolean" THEN [c EXCEPT !.enabled = json.value]
            ELSE SetInterceptor(c, json, "excludedHeaders")
      BY <2>2 DEF SetEntry, Policies, CommonSettings, Limits, Flags
    <3>2. IsConfiguration([c EXCEPT !["enabled"] = json.value])
      BY <2>1, SetLeavesOutcome DEF ReadSettings
    <3>3. IsOutcome(SetInterceptor(c, json, "excludedHeaders"))
      BY <2>1, <2>2, InterceptorLeavesOutcome
    <3> QED BY <2>1, <3>1, <3>2, <3>3 DEF IsOutcome
  <2>3. CASE name = "commonHeaders"
    <3>1. SetEntry(c, name, json) = CompiledHeaders(c, json)
      BY <2>3 DEF SetEntry, Policies, CommonSettings, Limits, Flags
    <3>2. CASE json.kind # "Object" \/ ~All(json.entries, LAMBDA e : Scalar(e.value))
      BY <2>1, <3>1, <3>2 DEF CompiledHeaders, IsOutcome, IsInvalid
    <3>3. CASE json.kind = "Object" /\ All(json.entries, LAMBDA e : Scalar(e.value))
      <4> DEFINE headers == [i \in 1..Len(json.entries) |->
                               Header(json.entries[i].key, ScalarText(json.entries[i].value))]
      <4>1. Len(json.entries) \in Nat
        BY <3>3 DEF IsSetting, IsList
      <4>2. IsList(headers)
        BY <4>1 DEF IsList
      <4>3. CompiledHeaders(c, json) = SetHeaders(c, headers)
        BY <3>3 DEF CompiledHeaders
      <4> HIDE DEF headers
      <4> QED BY <2>1, <3>1, <4>2, <4>3, SetHeadersLeavesOutcome
    <3> QED BY <3>2, <3>3
  <2>4. CASE name = "defaultAuthProvider"
    <3>1. SetEntry(c, name, json) = Set(c, name, json.kind = "String", json.value)
      BY <2>4 DEF SetEntry, Policies, CommonSettings, Limits, Flags
    <3>2. name \notin ReadSettings
      BY <2>4 DEF ReadSettings
    <3>3. IsOutcome(Set(c, name, json.kind = "String", json.value))
      BY <2>1, <3>2, SetLeavesOutcome
    <3> QED BY <2>1, <3>1, <3>3
  <2>5. CASE name \in Policies
    <3>1. SetEntry(c, name, json) = [c EXCEPT ![name] = json]
      BY <2>5 DEF SetEntry, Policies, CommonSettings, Limits, Flags
    <3>2. name = "authProviders" \/ name \notin ReadSettings
      BY <2>5 DEF Policies, ReadSettings
    <3>3. IsConfiguration([c EXCEPT ![name] = json])
      BY <2>1, <3>2, SetLeavesOutcome, SetProvidersLeavesOutcome
    <3> QED BY <2>1, <3>1, <3>3 DEF IsOutcome
  <2>6. CASE name \in CommonSettings
    <3>1. SetEntry(c, name, json) = SetCommon(c, name, json)
      BY <2>6 DEF SetEntry, Policies, CommonSettings, Limits, Flags
    <3> QED BY <2>1, <2>6, <3>1, CommonLeavesOutcome
  <2> QED BY <1>2, <2>2, <2>3, <2>4, <2>5, <2>6 DEF Settings
<1> QED BY <1>1, <1>2

LEMMA OverrideLeavesOutcome ==
  ASSUME NEW c, IsOutcome(c), NEW e, IsSetting(e.key, e.value)
  PROVE  IsOutcome(ApplyOverride(c, e))
<1>1. CASE IsInvalid(c) \/ e.key \notin OverriddenSettings
  BY <1>1 DEF ApplyOverride, IsOutcome, IsInvalid
<1>2. CASE ~(IsInvalid(c) \/ e.key \notin OverriddenSettings)
  <2>1. IsConfiguration(c)
    BY <1>2 DEF IsOutcome
  <2>2. CASE e.key = "commonHeaders"
    <3>1. ApplyOverride(c, e) = OverriddenHeaders(c, e.value)
      BY <1>2, <2>2 DEF ApplyOverride, CommonSettings, Limits, Flags
    <3>2. CASE OverriddenHeaders(c, e.value) = Invalid
      BY <3>1, <3>2 DEF IsOutcome, IsInvalid
    <3>3. CASE OverriddenHeaders(c, e.value) # Invalid
      <4> DEFINE headers == [i \in 1..Len(e.value.values) |->
                               Header(Lookup(e.value.values[i], "name").value,
                                      Lookup(e.value.values[i], "value").value)]
      <4>1. e.value.kind = "Array" /\ OverriddenHeaders(c, e.value) = SetHeaders(c, headers)
        BY <3>3 DEF OverriddenHeaders
      <4>2. Len(e.value.values) \in Nat
        BY <4>1 DEF IsSetting, IsList
      <4>3. IsList(headers)
        BY <4>2 DEF IsList
      <4> HIDE DEF headers
      <4> QED BY <2>1, <3>1, <4>1, <4>3, SetHeadersLeavesOutcome
    <3> QED BY <3>2, <3>3
  <2>3. CASE e.key = "interceptor"
    <3>1. ApplyOverride(c, e) = SetInterceptor(c, e.value, "excludedLogHeaders")
      BY <1>2, <2>3 DEF ApplyOverride, CommonSettings, Limits, Flags
    <3> QED BY <2>1, <2>3, <3>1, InterceptorLeavesOutcome
  <2>4. CASE e.key \in CommonSettings
    <3>1. ApplyOverride(c, e) = SetCommon(c, e.key, e.value)
      BY <1>2, <2>4 DEF ApplyOverride, CommonSettings, Limits, Flags
    <3> QED BY <2>1, <2>4, <3>1, CommonLeavesOutcome
  <2> QED BY <1>2, <2>2, <2>3, <2>4 DEF OverriddenSettings
<1> QED BY <1>1, <1>2

LEMMA EntriesLeaveOutcome ==
  ASSUME NEW c, IsOutcome(c), NEW entries, IsList(entries),
         \A i \in 1..Len(entries) : IsSetting(entries[i].name, ReadEntry(entries[i].value))
  PROVE  IsOutcome(AppliedEntries(c, entries))
<1> DEFINE n == Len(entries)
           f == Applying(c, entries, n)
           S == {i \in 0..n : IsOutcome(f[i])}
<1>1. n \in Nat
  BY DEF IsList
<1>2. AppliedEntries(c, entries) = f[n]
  BY DEF AppliedEntries, Applying, IsApplying
<1>3. \A i \in 1..n : IsSetting(entries[i].name, ReadEntry(entries[i].value))
  OBVIOUS
<1> HIDE DEF n
<1>4. f[0] = c
  BY <1>1, ApplyingValue
<1>5. \A i \in 1..n : f[i] = ApplyEntry(f[i - 1], entries[i].name, ReadEntry(entries[i].value))
  BY <1>1, ApplyingValue
<1> HIDE DEF f
<1>6. 0 \in S
  BY <1>1, <1>4
<1>7. ASSUME NEW i \in 0..(n - 1), i \in S
      PROVE  i + 1 \in S
  <2>1. i + 1 \in 1..n /\ (i + 1) - 1 = i
    BY <1>1
  <2>2. f[i + 1] = ApplyEntry(f[i], entries[i + 1].name, ReadEntry(entries[i + 1].value))
    BY <1>5, <2>1
  <2>3. IsSetting(entries[i + 1].name, ReadEntry(entries[i + 1].value))
    BY <1>3, <2>1
  <2>4. IsOutcome(f[i])
    BY <1>7
  <2>5. IsOutcome(ApplyEntry(f[i], entries[i + 1].name, ReadEntry(entries[i + 1].value)))
    BY <2>3, <2>4, EntryLeavesOutcome
  <2> QED BY <2>1, <2>2, <2>5
<1>8. 0..n \subseteq S
  <2> HIDE DEF S
  <2> QED BY <1>1, <1>6, <1>7, UpTo
<1>9. IsOutcome(f[n])
  BY <1>1, <1>8
<1> QED BY <1>2, <1>9

LEMMA OverridesLeaveOutcome ==
  ASSUME NEW c, IsOutcome(c), NEW entries, IsList(entries),
         \A i \in 1..Len(entries) : IsSetting(entries[i].key, entries[i].value)
  PROVE  IsOutcome(AppliedOverrides(c, entries))
<1> DEFINE n == Len(entries)
           f == Overriding(c, entries, n)
           S == {i \in 0..n : IsOutcome(f[i])}
<1>1. n \in Nat
  BY DEF IsList
<1>2. AppliedOverrides(c, entries) = f[n]
  BY DEF AppliedOverrides, Overriding, IsOverriding
<1>3. \A i \in 1..n : IsSetting(entries[i].key, entries[i].value)
  OBVIOUS
<1> HIDE DEF n
<1>4. f[0] = c
  BY <1>1, OverridingValue
<1>5. \A i \in 1..n : f[i] = ApplyOverride(f[i - 1], entries[i])
  BY <1>1, OverridingValue
<1> HIDE DEF f
<1>6. 0 \in S
  BY <1>1, <1>4
<1>7. ASSUME NEW i \in 0..(n - 1), i \in S
      PROVE  i + 1 \in S
  <2>1. i + 1 \in 1..n /\ (i + 1) - 1 = i
    BY <1>1
  <2>2. f[i + 1] = ApplyOverride(f[i], entries[i + 1])
    BY <1>5, <2>1
  <2>3. IsSetting(entries[i + 1].key, entries[i + 1].value)
    BY <1>3, <2>1
  <2>4. IsOutcome(f[i])
    BY <1>7
  <2>5. IsOutcome(ApplyOverride(f[i], entries[i + 1]))
    BY <2>3, <2>4, OverrideLeavesOutcome
  <2> QED BY <2>1, <2>2, <2>5
<1>8. 0..n \subseteq S
  <2> HIDE DEF S
  <2> QED BY <1>1, <1>6, <1>7, UpTo
<1>9. IsOutcome(f[n])
  BY <1>1, <1>8
<1> QED BY <1>2, <1>9

LEMMA EmptyList == IsList(<<>>) /\ Len(<<>>) = 0
BY DEF IsList

LEMMA DefaultsAreConfiguration == IsConfiguration(Defaults)
<1>1. Defaults.commonHeaders = <<>> /\ Defaults.baseUrl = "" /\ Defaults.authProviders = Absent
  BY DEF Defaults
<1>2. IsList(Defaults.commonHeaders)
  BY <1>1, EmptyList
<1> QED BY <1>1, <1>2 DEF IsConfiguration

\* What load makes of the inputs of a runtime.
LEMMA LoadLeavesOutcome ==
  ASSUME NEW input \in Hosts, NEW c,
         c = Load(input.program, input.sibling, input.overrides), ~IsInvalid(c)
  PROVE  IsConfiguration(c) /\ PoliciesAreValid(c)
<1> DEFINE entries == EntriesOf(input.sibling) \o EntriesOf(input.program)
           compiled == AppliedEntries(Defaults, entries)
           whole == IF input.overrides.kind = "Absent" THEN compiled
                    ELSE IF input.overrides.kind # "Object" THEN Invalid
                    ELSE AppliedOverrides(compiled, input.overrides.entries)
<1>1. /\ IsList(entries)
      /\ \A i \in 1..Len(entries) : IsSetting(entries[i].name, ReadEntry(entries[i].value))
      /\ input.overrides.kind = "Object"
          => /\ IsList(input.overrides.entries)
             /\ \A i \in 1..Len(input.overrides.entries) :
                  IsSetting(input.overrides.entries[i].key, input.overrides.entries[i].value)
  BY InputsAssumption
<1>2. c = whole /\ PoliciesAreValid(whole)
  BY DEF Load, IsInvalid
<1> HIDE DEF entries
<1>3. IsConfiguration(Defaults)
  BY DefaultsAreConfiguration
<1>4. IsOutcome(compiled)
  BY <1>1, <1>3, EntriesLeaveOutcome DEF IsOutcome
<1> HIDE DEF compiled
<1>5. CASE input.overrides.kind = "Absent"
  BY <1>2, <1>4, <1>5 DEF IsOutcome
<1>6. CASE input.overrides.kind # "Absent" /\ input.overrides.kind = "Object"
  <2>1. IsOutcome(AppliedOverrides(compiled, input.overrides.entries))
    BY <1>1, <1>4, <1>6, OverridesLeaveOutcome
  <2> QED BY <1>2, <1>6, <2>1 DEF IsOutcome
<1>7. CASE input.overrides.kind # "Absent" /\ input.overrides.kind # "Object"
  BY <1>2, <1>7 DEF IsInvalid
<1> QED BY <1>5, <1>6, <1>7

-----------------------------------------------------------------------------
(* What is sent.                                                           *)

LEMMA DistinctCounts ==
  ASSUME NEW H, NEW s \in Seq(H), Distinct(s)
  PROVE  Len(s) = Cardinality(ToSet(s))
<1>1. Len(s) \in Nat /\ s \in [1..Len(s) -> ToSet(s)]
  BY DEF ToSet
<1>2. \A i, j \in 1..Len(s) : s[i] = s[j] => i = j
  BY SameName DEF Distinct
<1>3. s \in Bijection(1..Len(s), ToSet(s))
  BY <1>1, <1>2 DEF Bijection, Injection, Surjection, IsInjective, ToSet
<1>4. ExistsBijection(1..Len(s), ToSet(s))
  BY <1>3 DEF ExistsBijection
<1> QED BY <1>1, <1>4, FS_CountingElements

LEMMA ReverseIsSequence ==
  ASSUME NEW H, NEW s \in Seq(H)
  PROVE  Reverse(s) \in Seq(H) /\ Len(Reverse(s)) = Len(s)
<1>1. \A k \in 1..Len(s) : s[(Len(s) - k) + 1] \in H
  OBVIOUS
<1> QED BY <1>1 DEF Reverse

LEMMA ReverseElement ==
  ASSUME NEW H, NEW s \in Seq(H), NEW k \in 1..Len(s)
  PROVE  Reverse(s)[k] = s[(Len(s) - k) + 1]
BY DEF Reverse

LEMMA ConcatenationElements ==
  ASSUME NEW H, NEW a \in Seq(H), NEW b \in Seq(H)
  PROVE  /\ a \o b \in Seq(H) /\ Len(a \o b) = Len(a) + Len(b)
         /\ \A k \in 1..(Len(a) + Len(b)) :
              (a \o b)[k] = IF k <= Len(a) THEN a[k] ELSE b[k - Len(a)]
<1>1. a \o b \in Seq(H) /\ Len(a \o b) = Len(a) + Len(b)
  OBVIOUS
<1>2. \A k \in 1..(Len(a) + Len(b)) : (a \o b)[k] = IF k <= Len(a) THEN a[k] ELSE b[k - Len(a)]
  OBVIOUS
<1> QED BY <1>1, <1>2

LEMMA ReversedConcatenation ==
  ASSUME NEW H, NEW a \in Seq(H), NEW b \in Seq(H)
  PROVE  Reverse(a \o b) = Reverse(b) \o Reverse(a)
<1> DEFINE c == a \o b
           x == Reverse(c)
           p == Reverse(b)
           q == Reverse(a)
           y == p \o q
<1>1. c \in Seq(H) /\ Len(c) = Len(a) + Len(b)
      /\ \A k \in 1..(Len(a) + Len(b)) : c[k] = IF k <= Len(a) THEN a[k] ELSE b[k - Len(a)]
  BY ConcatenationElements
<1> HIDE DEF c
<1>2. x \in Seq(H) /\ Len(x) = Len(a) + Len(b)
  BY <1>1, ReverseIsSequence
<1>3. p \in Seq(H) /\ Len(p) = Len(b) /\ q \in Seq(H) /\ Len(q) = Len(a)
  BY ReverseIsSequence
<1> HIDE DEF p, q
<1>4. y \in Seq(H) /\ Len(y) = Len(a) + Len(b)
      /\ \A k \in 1..(Len(a) + Len(b)) :
           y[k] = IF k <= Len(b) THEN p[k] ELSE q[k - Len(b)]
  <2>1. /\ p \o q \in Seq(H) /\ Len(p \o q) = Len(p) + Len(q)
        /\ \A k \in 1..(Len(p) + Len(q)) : (p \o q)[k] = IF k <= Len(p) THEN p[k] ELSE q[k - Len(p)]
    BY <1>3, ConcatenationElements
  <2> QED BY <1>3, <2>1
<1> HIDE DEF y
<1>5. ASSUME NEW k \in 1..(Len(a) + Len(b))
      PROVE  x[k] = y[k]
  <2>0. x[k] = c[((Len(a) + Len(b)) - k) + 1]
    <3>1. k \in 1..Len(c)
      BY <1>1
    <3>2. x[k] = c[(Len(c) - k) + 1]
      BY <1>1, <3>1, ReverseElement
    <3> HIDE DEF x
    <3> QED BY <1>1, <3>2
  <2>1. CASE k <= Len(b)
    <3>1. k \in 1..Len(b) /\ y[k] = p[k]
      BY <1>4, <2>1
    <3>2. y[k] = b[(Len(b) - k) + 1]
      BY <3>1, ReverseElement DEF p, q
    <3>3. /\ ((Len(a) + Len(b)) - k) + 1 \in 1..(Len(a) + Len(b))
          /\ ~(((Len(a) + Len(b)) - k) + 1 <= Len(a))
          /\ (((Len(a) + Len(b)) - k) + 1) - Len(a) = (Len(b) - k) + 1
      BY <2>1
    <3>4. x[k] = b[(Len(b) - k) + 1]
      BY <1>1, <2>0, <3>3
    <3> QED BY <3>2, <3>4
  <2>2. CASE k > Len(b)
    <3>1. k - Len(b) \in 1..Len(a) /\ y[k] = q[k - Len(b)]
      BY <1>4, <2>2
    <3>2. y[k] = a[(Len(a) - (k - Len(b))) + 1]
      BY <3>1, ReverseElement DEF p, q
    <3>3. /\ ((Len(a) + Len(b)) - k) + 1 \in 1..(Len(a) + Len(b))
          /\ ((Len(a) + Len(b)) - k) + 1 <= Len(a)
          /\ ((Len(a) + Len(b)) - k) + 1 = (Len(a) - (k - Len(b))) + 1
      BY <2>2
    <3>4. x[k] = a[(Len(a) - (k - Len(b))) + 1]
      BY <1>1, <2>0, <3>3
    <3> QED BY <3>2, <3>4
  <2> QED BY <2>1, <2>2
<1> HIDE DEF x
<1>6. x = y
  BY <1>2, <1>4, <1>5, SameSequence
<1> QED BY <1>6 DEF x, y, c, p, q

LEMMA BuiltHeaders ==
  ASSUME NEW H, NEW c, NEW spec, spec.headers \in Seq(H), spec.customHeaders \in Seq(H),
         NEW b, b = Build(c, spec), ~IsInvalid(b)
  PROVE  /\ b.headers \in Seq(H) /\ b.body = spec.body
         /\ {"headers", "body"} \subseteq DOMAIN b
         /\ Represents(b.headers, Reverse(spec.headers \o spec.customHeaders))
<1> DEFINE h1 == Overwritten(<<>>, spec.headers)
           h2 == Overwritten(h1, spec.customHeaders)
<1>1. b.headers = h2 /\ b.body = spec.body /\ {"headers", "body"} \subseteq DOMAIN b
  BY DEF Build, IsInvalid
<1>2. <<>> \in Seq(H) /\ Represents(<<>>, <<>>)
  BY DEF Represents, Distinct, ToSet, Winners
<1>3. h1 \in Seq(H)
  BY <1>2, OverwrittenRepresents
<1>4. Represents(h1, Reverse(spec.headers) \o <<>>)
  BY <1>2, OverwrittenRepresents
<1>5. Reverse(spec.headers) \in Seq(H)
  BY ReverseIsSequence
<1>6. Reverse(spec.headers) \o <<>> = Reverse(spec.headers)
  BY <1>5
<1>7. Represents(h1, Reverse(spec.headers))
  BY <1>4, <1>6
<1> HIDE DEF h1
<1>8. h2 \in Seq(H)
  BY <1>3, <1>5, <1>7, OverwrittenRepresents
<1>9. Represents(h2, Reverse(spec.customHeaders) \o Reverse(spec.headers))
  BY <1>3, <1>5, <1>7, OverwrittenRepresents
<1>10. Reverse(spec.headers \o spec.customHeaders) =
         Reverse(spec.customHeaders) \o Reverse(spec.headers)
  BY ReversedConcatenation
<1> HIDE DEF h2
<1> QED BY <1>1, <1>8, <1>9, <1>10

\* The provider of a request and its token.
ProviderOf(c, spec) == IF spec.auth = <<>> THEN c.defaultAuthProvider ELSE AuthName(spec.auth[1])
TokenOf(c, spec) == Lookup(Lookup(c.authProviders, ProviderOf(c, spec)), "accessToken").value
TokenHeaders(c, spec) ==
  IF ProviderOf(c, spec) = "" THEN <<>>
  ELSE <<Header("Authorization", "Bearer " \o TokenOf(c, spec))>>

LEMMA PreparedHeaders ==
  ASSUME NEW H, NEW c, NEW spec, spec.headers \in Seq(H), spec.customHeaders \in Seq(H),
         TokenHeaders(c, spec) \in Seq(H),
         NEW q, q = Prepare(c, spec), ~IsInvalid(q)
  PROVE  /\ q.headers \in Seq(H) /\ q.body = spec.body /\ "headers" \in DOMAIN q
         /\ Represents(q.headers, TokenHeaders(c, spec) \o Reverse(spec.headers
              \o spec.customHeaders))
<1> DEFINE b == Build(c, spec)
           l == Reverse(spec.headers \o spec.customHeaders)
           t == Header("Authorization", "Bearer " \o TokenOf(c, spec))
<1>1. ~IsInvalid(b) /\ q = ApplyAuthentication(c, spec, b)
  BY DEF Prepare, IsInvalid
<1>2. /\ b.headers \in Seq(H) /\ b.body = spec.body
      /\ {"headers", "body"} \subseteq DOMAIN b /\ Represents(b.headers, l)
  BY <1>1, BuiltHeaders
<1>3. l \in Seq(H)
  <2>1. spec.headers \o spec.customHeaders \in Seq(H)
    OBVIOUS
  <2> QED BY <2>1, ReverseIsSequence
<1> HIDE DEF b, l
<1>4. CASE ProviderOf(c, spec) = ""
  <2>1. q = b
    BY <1>1, <1>4 DEF ApplyAuthentication, ProviderOf, IsInvalid
  <2>2. TokenHeaders(c, spec) = <<>>
    BY <1>4 DEF TokenHeaders
  <2>3. <<>> \o l = l
    BY <1>3
  <2> QED BY <1>2, <2>1, <2>2, <2>3 DEF l
<1>5. CASE ProviderOf(c, spec) # ""
  <2>1. q = [b EXCEPT !.headers = SetHeader(@, t, TRUE)]
    <3> DEFINE token == Option(Lookup(c.authProviders, ProviderOf(c, spec)), "accessToken",
                        JsonString("")).value
    <3>1. token # "" /\ q = [b EXCEPT !.headers =
             SetHeader(@, Header("Authorization", "Bearer " \o token), TRUE)]
      BY <1>1, <1>5 DEF ApplyAuthentication, ProviderOf, IsInvalid
    <3>2. token = TokenOf(c, spec)
      BY <3>1 DEF Option, TokenOf, JsonString
    <3> QED BY <3>1, <3>2
  <2>2. TokenHeaders(c, spec) = <<t>> /\ t \in H
    <3>1. TokenHeaders(c, spec) = <<t>>
      BY <1>5 DEF TokenHeaders
    <3> HIDE DEF t
    <3>2. <<t>> \in Seq(H)
      BY <3>1
    <3> QED BY <3>1, <3>2
  <2> HIDE DEF t
  <2>3. SetHeader(b.headers, t, TRUE) \in Seq(H)
    BY <1>2, <1>3, <2>2, SetHeaderRepresents
  <2>4. Represents(SetHeader(b.headers, t, TRUE), <<t>> \o l)
    BY <1>2, <1>3, <2>2, SetHeaderRepresents
  <2>5. q.headers = SetHeader(b.headers, t, TRUE) /\ q.body = b.body /\ "headers" \in DOMAIN q
    BY <1>2, <2>1
  <2> QED BY <1>2, <2>2, <2>3, <2>4, <2>5 DEF l
<1> QED BY <1>4, <1>5

TypeHeaders(spec) ==
  LET types == <<Header("Content-Type", "application/json"), Header("Accept", "application/json")>>
  IN IF spec.body = <<>> THEN Tail(types) ELSE types

LEMMA ElementOfBoth ==
  ASSUME NEW H, NEW a \in Seq(H), NEW b \in Seq(H)
  PROVE  /\ a \o b \in Seq(H) /\ Len(a \o b) = Len(a) + Len(b)
         /\ \A k \in 1..(Len(a) + Len(b)) : (a \o b)[k] = IF k <= Len(a) THEN a[k]
             ELSE b[k - Len(a)]
OBVIOUS

LEMMA TwoLists ==
  \A x, y : <<>> \o <<y>> = Tail(<<x, y>>) /\ <<x>> \o <<y>> = <<x, y>>
<1> TAKE x, y
<1> DEFINE H == {x, y}
           a == <<x>>
           b == <<y>>
           t == <<x, y>>
<1>1. a \in Seq(H) /\ b \in Seq(H) /\ t \in Seq(H) /\ a[1] = x /\ b[1] = y
      /\ t[1] = x /\ t[2] = y /\ Len(a) = 1 /\ Len(b) = 1 /\ Len(t) = 2
  OBVIOUS
<1> HIDE DEF H, a, b, t
<1>2. <<>> \o b = b
  BY <1>1
<1>3. Tail(t) = b
  <2> DEFINE u == Tail(t)
  <2>1. u \in Seq(H) /\ Len(u) = 1 /\ u[1] = y
    BY <1>1
  <2> HIDE DEF u
  <2>2. \A k \in 1..Len(u) : u[k] = b[k]
    BY <1>1, <2>1
  <2>3. u = b
    BY <1>1, <2>1, <2>2, SameSequence
  <2> QED BY <2>3 DEF u
<1>4. a \o b = t
  <2> DEFINE u == a \o b
  <2>1. /\ u \in Seq(H) /\ Len(u) = Len(a) + Len(b)
        /\ \A k \in 1..(Len(a) + Len(b)) : u[k] = IF k <= Len(a) THEN a[k] ELSE b[k - Len(a)]
    BY <1>1, ElementOfBoth
  <2> HIDE DEF u
  <2>2. Len(u) = 2 /\ u[1] = a[1]
    BY <1>1, <2>1
  <2>3. u[2] = b[1]
    BY <1>1, <2>1
  <2>4. \A k \in 1..Len(u) : u[k] = t[k]
    BY <1>1, <2>1, <2>2, <2>3
  <2>5. u = t
    BY <1>1, <2>1, <2>4, SameSequence
  <2> QED BY <2>5 DEF u
<1> QED BY <1>2, <1>3, <1>4 DEF a, b, t

LEMMA SentHeaders ==
  ASSUME NEW H, NEW c, NEW spec, spec.headers \in Seq(H), spec.customHeaders \in Seq(H),
         TokenHeaders(c, spec) \in Seq(H), c.commonHeaders \in Seq(H), TypeHeaders(spec) \in Seq(H),
         NEW q, q = Prepare(c, spec), ~IsInvalid(q), NEW sent, sent = ToSend(c, q), ~IsInvalid(sent)
  PROVE  /\ sent.headers \in Seq(H)
         /\ Represents(sent.headers,
                       ((TokenHeaders(c, spec) \o Reverse(spec.headers \o spec.customHeaders))
                        \o c.commonHeaders) \o TypeHeaders(spec))
<1> DEFINE l == TokenHeaders(c, spec) \o Reverse(spec.headers \o spec.customHeaders)
           h1 == Completed(q.headers, c.commonHeaders)
           h2 == Completed(h1, TypeHeaders(spec))
<1>1. /\ q.headers \in Seq(H) /\ q.body = spec.body /\ "headers" \in DOMAIN q
      /\ Represents(q.headers, l)
  BY PreparedHeaders
<1>2. l \in Seq(H)
  <2>1. spec.headers \o spec.customHeaders \in Seq(H)
    OBVIOUS
  <2>2. Reverse(spec.headers \o spec.customHeaders) \in Seq(H)
    BY <2>1, ReverseIsSequence
  <2> QED BY <2>2
<1>3. sent.headers = h2
  <2> DEFINE types == (IF q.body = <<>> THEN <<>>
           ELSE <<Header("Content-Type", "application/json")>>)
                      \o <<Header("Accept", "application/json")>>
  <2>1. sent = [q EXCEPT !.headers = Completed(Completed(@, c.commonHeaders), types)]
    BY DEF ToSend, BeforeRequest, IsInvalid
  <2>2. types = TypeHeaders(spec)
    BY <1>1, TwoLists DEF TypeHeaders
  <2> HIDE DEF types
  <2> QED BY <1>1, <2>1, <2>2
<1> HIDE DEF l
<1>4. h1 \in Seq(H)
  BY <1>1, <1>2, CompletedRepresents
<1>5. Represents(h1, l \o c.commonHeaders)
  BY <1>1, <1>2, CompletedRepresents
<1> HIDE DEF h1
<1>6. l \o c.commonHeaders \in Seq(H)
  BY <1>2
<1>7. h2 \in Seq(H)
  BY <1>4, <1>5, <1>6, CompletedRepresents
<1>8. Represents(h2, (l \o c.commonHeaders) \o TypeHeaders(spec))
  BY <1>4, <1>5, <1>6, CompletedRepresents
<1> HIDE DEF h2
<1> QED BY <1>3, <1>7, <1>8 DEF l

-----------------------------------------------------------------------------
(* The requests and the exchanges.                                         *)

\* Why a call was refused: it cannot be built, or its policies cannot be used.
IsRefused(spec) ==
  LET own == Prepare(configuration, spec)
  IN IsInvalid(own) \/ IsInvalid(ToSend(configuration, own))
\* A request takes part in an exchange of its own key.
TakesPart(spec, x) ==
  LET own == Prepare(configuration, spec)
  IN ~IsInvalid(own) /\ RequestKey(own) = RequestKey(exchanges[x].prepared)
IsRequest(r) ==
  /\ DOMAIN r = {"call", "exchange", "value"}
  /\ r.call \in host.calls /\ r.exchange \in 0..Len(exchanges)
  /\ r.exchange = 0 => IsRefused(r.call.spec)
  /\ r.exchange # 0 => TakesPart(r.call.spec, r.exchange)
\* The first request of an exchange is the one that it was opened with.
IsFirst(i, x) == requests[i].exchange = x /\ \A j \in 1..(i - 1) : requests[j].exchange # x
IsOpenedBy(x, spec) ==
  LET own == Prepare(configuration, spec)
  IN /\ exchanges[x].prepared = own /\ ~IsInvalid(own)
     /\ exchanges[x].sent = ToSend(configuration, own) /\ ~IsInvalid(exchanges[x].sent)
IsExchange(x) ==
  /\ DOMAIN exchanges[x] = {"prepared", "sent", "coalesces", "body"}
  /\ \E i \in 1..Len(requests) : IsFirst(i, x) /\ IsOpenedBy(x, requests[i].call.spec)
ExchangeInv ==
  /\ host \in Hosts
  /\ configuration # Absent =>
       configuration = Load(host.program, host.sibling, host.overrides)
  /\ configuration \in {Absent, Invalid} => requests = <<>> /\ exchanges = <<>>
  /\ IsList(requests) /\ IsList(exchanges)
  /\ \A i \in 1..Len(requests) : IsRequest(requests[i])
  /\ \A x \in 1..Len(exchanges) : IsExchange(x)

LEMMA AppendedList ==
  ASSUME NEW s, IsList(s), NEW e
  PROVE  /\ Len(s) \in Nat /\ IsList(Append(s, e)) /\ Len(Append(s, e)) = Len(s) + 1
         /\ Append(s, e)[Len(s) + 1] = e /\ \A i \in 1..Len(s) : Append(s, e)[i] = s[i]
<1> DEFINE E == {s[i] : i \in 1..Len(s)} \cup {e}
<1>1. s \in Seq(E) /\ Len(s) \in Nat
  BY DEF IsList
<1>2. e \in E
  OBVIOUS
<1> DEFINE t == Append(s, e)
<1> HIDE DEF E
<1>3. t \in Seq(E) /\ Len(t) = Len(s) + 1 /\ t[Len(s) + 1] = e /\ \A i \in 1..Len(s) : t[i] = s[i]
  BY <1>1, <1>2
<1> HIDE DEF t
<1>4. IsList(t)
  BY <1>3 DEF IsList
<1> QED BY <1>1, <1>3, <1>4 DEF t

LEMMA ExchangeInvInit == ExchangeInit => ExchangeInv
BY EmptyList DEF ExchangeInit, ExchangeInv

LEMMA ConfigureKeepsInv == ExchangeInv /\ Configure => ExchangeInv'
<1> SUFFICES ASSUME ExchangeInv, Configure PROVE ExchangeInv'
  OBVIOUS
<1>1. requests' = <<>> /\ exchanges' = <<>> /\ host' = host
  BY DEF ExchangeInv, Configure
<1> QED BY <1>1, EmptyList DEF ExchangeInv, Configure

\* One more request.
LEMMA CalledKeepsInv ==
  ASSUME ExchangeInv, NEW call \in host.calls, NEW value, NEW x \in 0..Len(exchanges),
         configuration \notin {Absent, Invalid}, UNCHANGED <<host, configuration, exchanges>>,
         Called(call, x, value),
         x = 0 => IsRefused(call.spec), x # 0 => TakesPart(call.spec, x)
  PROVE  ExchangeInv'
<1> DEFINE r == [call |-> call, exchange |-> x, value |-> value]
<1>1. requests' = Append(requests, r) /\ IsRequest(r)
  BY DEF Called, IsRequest
<1>2. Len(requests) \in Nat /\ IsList(requests') /\ Len(requests') = Len(requests) + 1
      /\ requests'[Len(requests) + 1] = r /\ \A i \in 1..Len(requests) : requests'[i] = requests[i]
  BY <1>1, AppendedList DEF ExchangeInv
<1> HIDE DEF r
<1>3. ASSUME NEW i \in 1..Len(requests')
      PROVE  IsRequest(requests[i])'
  <2>1. IsRequest(requests'[i])
    <3>1. CASE i \in 1..Len(requests)
      BY <1>2, <3>1 DEF ExchangeInv
    <3>2. CASE i = Len(requests) + 1
      BY <1>1, <1>2, <3>2
    <3> QED BY <1>2, <3>1, <3>2
  <2> QED BY <2>1 DEF IsRequest, IsRefused, TakesPart
<1>4. ASSUME NEW y \in 1..Len(exchanges)
      PROVE  IsExchange(y)'
  <2>1. PICK i \in 1..Len(requests) : IsFirst(i, y) /\ IsOpenedBy(y, requests[i].call.spec)
    BY DEF ExchangeInv, IsExchange
  <2>2. i \in 1..Len(requests') /\ requests'[i] = requests[i]
        /\ \A j \in 1..(i - 1) : requests'[j] = requests[j]
    BY <1>2
  <2>3. IsFirst(i, y)' /\ IsOpenedBy(y, requests[i].call.spec)'
    BY <2>1, <2>2 DEF IsFirst, IsOpenedBy
  <2>4. DOMAIN exchanges[y] = {"prepared", "sent", "coalesces", "body"}
    BY DEF ExchangeInv, IsExchange
  <2> QED BY <2>2, <2>3, <2>4 DEF IsExchange
<1> QED BY <1>2, <1>3, <1>4 DEF ExchangeInv

LEMMA OpenKeepsInv ==
  ASSUME ExchangeInv, NEW call \in host.calls, NEW prepared, NEW sent, NEW coalesces,
         configuration \notin {Absent, Invalid}, UNCHANGED <<host, configuration>>,
         prepared = Prepare(configuration, call.spec), ~IsInvalid(prepared),
         sent = ToSend(configuration, prepared), ~IsInvalid(sent),
         Open(call, prepared, sent, coalesces)
  PROVE  ExchangeInv'
<1>0. PICK n : n = Len(exchanges) + 1
  OBVIOUS
<1> DEFINE r == [call |-> call, exchange |-> n, value |-> Pending]
           e == [prepared |-> prepared, sent |-> sent, coalesces |-> coalesces, body |-> <<>>]
<1>1. requests' = Append(requests, r) /\ exchanges' = Append(exchanges, e)
  BY <1>0 DEF Open, Called
<1>2. Len(requests) \in Nat /\ IsList(requests') /\ Len(requests') = Len(requests) + 1
      /\ requests'[Len(requests) + 1] = r /\ \A i \in 1..Len(requests) : requests'[i] = requests[i]
  BY <1>1, AppendedList DEF ExchangeInv
<1>3. Len(exchanges) \in Nat /\ IsList(exchanges') /\ Len(exchanges') = n
      /\ exchanges'[n] = e /\ \A y \in 1..Len(exchanges) : exchanges'[y] = exchanges[y]
  BY <1>0, <1>1, AppendedList DEF ExchangeInv
<1>4. DOMAIN r = {"call", "exchange", "value"} /\ r.call = call /\ r.exchange = n
      /\ DOMAIN e = {"prepared", "sent", "coalesces", "body"} /\ e.prepared = prepared /\ e.sent =
          sent
  OBVIOUS
<1> HIDE DEF r, e
<1>5. ASSUME NEW i \in 1..Len(requests')
      PROVE  IsRequest(requests[i])'
  <2>1. CASE i \in 1..Len(requests)
    <3>1. IsRequest(requests[i]) /\ requests'[i] = requests[i]
      BY <1>2, <2>1 DEF ExchangeInv
    <3>2. requests[i].exchange \in 0..Len(exchanges) /\ requests[i].exchange \in 0..Len(exchanges')
      BY <1>0, <1>3, <3>1 DEF IsRequest
    <3>3. requests[i].exchange # 0 =>
            exchanges'[requests[i].exchange] = exchanges[requests[i].exchange]
      BY <1>3, <3>2
    <3> QED BY <3>1, <3>2, <3>3 DEF IsRequest, IsRefused, TakesPart
  <2>2. CASE i = Len(requests) + 1
    <3>1. requests'[i] = r /\ n \in 0..Len(exchanges') /\ n # 0
      BY <1>0, <1>2, <1>3, <2>2
    <3>2. TakesPart(call.spec, n)'
      BY <1>3, <1>4 DEF TakesPart
    <3> QED BY <1>4, <3>1, <3>2 DEF IsRequest
  <2> QED BY <1>2, <2>1, <2>2
<1>6. ASSUME NEW y \in 1..Len(exchanges')
      PROVE  IsExchange(y)'
  <2>1. CASE y \in 1..Len(exchanges)
    <3>1. PICK i \in 1..Len(requests) : IsFirst(i, y) /\ IsOpenedBy(y, requests[i].call.spec)
      BY <2>1 DEF ExchangeInv, IsExchange
    <3>2. i \in 1..Len(requests') /\ requests'[i] = requests[i]
          /\ \A j \in 1..(i - 1) : requests'[j] = requests[j]
      BY <1>2
    <3>3. exchanges'[y] = exchanges[y]
      BY <1>3, <2>1
    <3>4. IsFirst(i, y)' /\ IsOpenedBy(y, requests[i].call.spec)'
      BY <3>1, <3>2, <3>3 DEF IsFirst, IsOpenedBy
    <3>5. DOMAIN exchanges[y] = {"prepared", "sent", "coalesces", "body"}
      BY <2>1 DEF ExchangeInv, IsExchange
    <3> QED BY <3>2, <3>3, <3>4, <3>5 DEF IsExchange
  <2>2. CASE y = n
    <3>0. PICK k : k = Len(requests) + 1
      OBVIOUS
    <3>1. k \in 1..Len(requests') /\ requests'[k] = r
      BY <1>2, <3>0
    <3>2. \A j \in 1..(k - 1) : requests'[j].exchange # n
      <4> TAKE j \in 1..(k - 1)
      <4>1. j \in 1..Len(requests)
        BY <1>2, <3>0
      <4>2. requests'[j] = requests[j] /\ requests[j].exchange \in 0..Len(exchanges)
        BY <1>2, <4>1 DEF ExchangeInv, IsRequest
      <4> QED BY <1>0, <1>3, <4>2
    <3>3. IsFirst(k, n)'
      BY <1>4, <3>1, <3>2 DEF IsFirst
    <3>4. IsOpenedBy(n, call.spec)'
      BY <1>3, <1>4 DEF IsOpenedBy
    <3>5. exchanges'[n] = e /\ requests'[k].call = call
      BY <1>3, <1>4, <3>1
    <3> QED BY <1>4, <2>2, <3>1, <3>3, <3>4, <3>5 DEF IsExchange
  <2> QED BY <1>0, <1>3, <2>1, <2>2
<1> QED BY <1>2, <1>3, <1>5, <1>6 DEF ExchangeInv

LEMMA ExecuteKeepsInv ==
  ASSUME ExchangeInv, NEW call \in host.calls, Execute(call)
  PROVE  ExchangeInv'
<1> DEFINE own == Prepare(configuration, call.spec)
           share == Coalesces(configuration, call.spec)
           shared == IF share THEN Shared(RequestKey(own)) ELSE {}
<1>1. configuration \notin {Absent, Invalid} /\ UNCHANGED <<host, configuration>>
  BY DEF Execute
<1>2. Len(exchanges) \in Nat
  BY DEF ExchangeInv, IsList
<1>3. CASE IsInvalid(own)
  <2>1. Called(call, 0, RequestFailure) /\ UNCHANGED exchanges
    BY <1>3 DEF Execute, Refuse, NoExchange
  <2>2. IsRefused(call.spec)
    BY <1>3 DEF IsRefused
  <2> QED BY <1>1, <1>2, <2>1, <2>2, CalledKeepsInv
<1>4. CASE ~IsInvalid(own)
  <2>1. Perform(call, own, share)
    BY <1>4 DEF Execute
  <2>2. CASE shared # {}
    <3>1. PICK x \in shared : TakePart(call, x)
      BY <2>1, <2>2 DEF Perform
    <3>2. x \in 1..Len(exchanges) /\ RequestKey(exchanges[x].prepared) = RequestKey(own)
      BY <2>2, <3>1 DEF Shared
    <3>3. x \in 0..Len(exchanges) /\ x # 0
      BY <1>2, <3>2
    <3>4. Called(call, x, Pending) /\ UNCHANGED exchanges
      BY <3>1 DEF TakePart
    <3>5. TakesPart(call.spec, x)
      BY <1>4, <3>2 DEF TakesPart
    <3> QED BY <1>1, <3>3, <3>4, <3>5, CalledKeepsInv
  <2>3. CASE shared = {}
    <3> DEFINE sent == ToSend(configuration, own)
    <3>1. IF IsInvalid(sent) THEN Refuse(call) ELSE Open(call, own, sent, share)
      BY <2>1, <2>3 DEF Perform
    <3>2. CASE IsInvalid(sent)
      <4>1. Called(call, 0, RequestFailure) /\ UNCHANGED exchanges
        BY <3>1, <3>2 DEF Refuse, NoExchange
      <4>2. IsRefused(call.spec)
        BY <3>2 DEF IsRefused
      <4> QED BY <1>1, <1>2, <4>1, <4>2, CalledKeepsInv
    <3>3. CASE ~IsInvalid(sent)
      <4>1. Open(call, own, sent, share)
        BY <3>1, <3>3
      <4> QED BY <1>1, <1>4, <3>3, <4>1, OpenKeepsInv
    <3> QED BY <3>2, <3>3
  <2> QED BY <2>2, <2>3
<1> QED BY <1>3, <1>4

LEMMA AnswerKeepsInv ==
  ASSUME ExchangeInv, NEW x \in 1..Len(exchanges), NEW body, Answer(x, body)
  PROVE  ExchangeInv'
<1>1. /\ exchanges' = [exchanges EXCEPT ![x].body = <<body>>]
      /\ requests' = [i \in DOMAIN requests |-> Answered(requests[i], x, body)]
      /\ UNCHANGED <<host, configuration>>
  BY DEF Answer
<1>2. IsList(requests) /\ IsList(exchanges) /\ Len(requests) \in Nat /\ Len(exchanges) \in Nat
      /\ DOMAIN requests = 1..Len(requests) /\ DOMAIN exchanges = 1..Len(exchanges)
  BY DEF ExchangeInv, IsList
<1>3. Len(requests') = Len(requests) /\ IsList(requests')
      /\ \A i \in 1..Len(requests) : requests'[i] = Answered(requests[i], x, body)
  BY <1>1, <1>2 DEF IsList
<1>4. Len(exchanges') = Len(exchanges) /\ IsList(exchanges')
  <2>1. exchanges' = [y \in 1..Len(exchanges) |-> exchanges'[y]]
    BY <1>1, <1>2
  <2>2. Len(exchanges') = Len(exchanges)
    BY <1>2, <2>1
  <2> QED BY <1>2, <2>1, <2>2 DEF IsList
<1>5. ASSUME NEW i \in 1..Len(requests)
      PROVE  /\ DOMAIN requests'[i] = {"call", "exchange", "value"}
             /\ requests'[i].call = requests[i].call /\ requests'[i].exchange = requests[i].exchange
  <2>1. DOMAIN requests[i] = {"call", "exchange", "value"}
    BY DEF ExchangeInv, IsRequest
  <2> QED BY <1>3, <2>1 DEF Answered
<1>6. ASSUME NEW y \in 1..Len(exchanges)
      PROVE  /\ DOMAIN exchanges'[y] = {"prepared", "sent", "coalesces", "body"}
             /\ exchanges'[y].prepared = exchanges[y].prepared /\ exchanges'[y].sent =
                 exchanges[y].sent
  <2>1. DOMAIN exchanges[y] = {"prepared", "sent", "coalesces", "body"}
    BY DEF ExchangeInv, IsExchange
  <2> QED BY <1>1, <1>2, <2>1
<1>7. ASSUME NEW i \in 1..Len(requests')
      PROVE  IsRequest(requests[i])'
  <2>1. i \in 1..Len(requests) /\ IsRequest(requests[i])
    BY <1>3 DEF ExchangeInv
  <2>2. requests[i].exchange # 0 =>
          exchanges'[requests[i].exchange].prepared = exchanges[requests[i].exchange].prepared
    BY <1>2, <1>6, <2>1 DEF IsRequest
  <2> QED BY <1>1, <1>4, <1>5, <2>1, <2>2 DEF IsRequest, IsRefused, TakesPart
<1>8. ASSUME NEW y \in 1..Len(exchanges')
      PROVE  IsExchange(y)'
  <2>1. y \in 1..Len(exchanges)
    BY <1>4
  <2>2. PICK i \in 1..Len(requests) : IsFirst(i, y) /\ IsOpenedBy(y, requests[i].call.spec)
    BY <2>1 DEF ExchangeInv, IsExchange
  <2>3. i \in 1..Len(requests') /\ requests'[i].call = requests[i].call
        /\ requests'[i].exchange = requests[i].exchange
    BY <1>3, <1>5
  <2>4. \A j \in 1..(i - 1) : requests'[j].exchange = requests[j].exchange
    BY <1>2, <1>5
  <2>5. IsFirst(i, y)'
    BY <2>2, <2>3, <2>4 DEF IsFirst
  <2>6. IsOpenedBy(y, requests[i].call.spec)'
    BY <1>1, <1>6, <2>1, <2>2, <2>3 DEF IsOpenedBy
  <2> QED BY <1>6, <2>1, <2>3, <2>5, <2>6 DEF IsExchange
<1>9. configuration' \notin {Absent, Invalid}
  BY <1>1, EmptyList DEF ExchangeInv
<1> QED BY <1>1, <1>3, <1>4, <1>7, <1>8, <1>9 DEF ExchangeInv

LEMMA ExchangeInvariance == ExchangeSpec => []ExchangeInv
<1>1. ExchangeInv /\ [ExchangeNext]_exchangeVars => ExchangeInv'
  <2> SUFFICES ASSUME ExchangeInv, [ExchangeNext]_exchangeVars
               PROVE  ExchangeInv'
    OBVIOUS
  <2>1. CASE Configure
    BY <2>1, ConfigureKeepsInv
  <2>2. ASSUME NEW call \in host.calls, Execute(call)
        PROVE  ExchangeInv'
    BY <2>2, ExecuteKeepsInv
  <2>3. ASSUME NEW x \in 1..Len(exchanges), NEW body \in host.bodies, Answer(x, body)
        PROVE  ExchangeInv'
    BY <2>3, AnswerKeepsInv
  <2>4. CASE UNCHANGED exchangeVars
    BY <2>4 DEF exchangeVars, ExchangeInv, IsRequest, IsExchange, IsRefused, TakesPart, IsFirst,
                IsOpenedBy
  <2> QED BY <2>1, <2>2, <2>3, <2>4 DEF ExchangeNext
<1> QED BY <1>1, ExchangeInvInit, PTL DEF ExchangeSpec

-----------------------------------------------------------------------------
(* The properties.                                                         *)

LEMMA SingleList == \A e : IsList(<<e>>)
BY DEF IsList

LEMMA ElementsIn ==
  ASSUME NEW X, NEW Y, NEW s \in Seq(X), ToSet(s) \subseteq Y
  PROVE  s \in Seq(Y)
<1>1. \A i \in 1..Len(s) : s[i] \in Y
  BY DEF ToSet
<1> QED BY <1>1

LEMMA ListElements ==
  ASSUME NEW s, IsList(s)
  PROVE  s \in Seq(ToSet(s))
<1>1. Len(s) \in Nat /\ s = [i \in 1..Len(s) |-> s[i]] /\ \A i \in 1..Len(s) : s[i] \in ToSet(s)
  BY DEF IsList, ToSet
<1> QED BY <1>1

LEMMA ConfigurationIsLoaded ==
  ASSUME ExchangeInv, configuration \notin {Absent, Invalid}
  PROVE  IsConfiguration(configuration) /\ PoliciesAreValid(configuration)
BY LoadLeavesOutcome DEF ExchangeInv, IsInvalid

LEMMA OpenerIsFirst ==
  ASSUME ExchangeInv, NEW x, NEW i \in 1..Len(requests), IsFirst(i, x)
  PROVE  Opener(x) = requests[i].call
<1>1. DOMAIN requests = 1..Len(requests) /\ Len(requests) \in Nat
  BY DEF ExchangeInv, IsList
<1>2. \A k \in DOMAIN requests :
        requests[k].exchange = x /\ (\A j \in 1..(k - 1) : requests[j].exchange # x) => k = i
  BY <1>1 DEF IsFirst
<1> DEFINE o == CHOOSE k \in DOMAIN requests :
                  requests[k].exchange = x /\ \A j \in 1..(k - 1) : requests[j].exchange # x
<1>3. o = i
  BY <1>1, <1>2 DEF IsFirst
<1> QED BY <1>3 DEF Opener

\* The sent headers represent, for every list of headers, every configuration and every token,
\* the strongest of each name, in the order of their sources (PreparedRequest::setHeader keeps or
\* replaces the one header of that name).
THEOREM HeadersAreSent == ExchangeSpec => []StrongestHeaderIsSent
<1>1. ExchangeInv => StrongestHeaderIsSent
  <2> SUFFICES ASSUME ExchangeInv, NEW x \in 1..Len(exchanges)
               PROVE  /\ ToSet(exchanges[x].sent.headers) = Winners(Strongest(Opener(x).spec))
                      /\ Len(exchanges[x].sent.headers) =
                          Cardinality(Winners(Strongest(Opener(x).spec)))
    BY DEF StrongestHeaderIsSent
  <2>1. PICK i \in 1..Len(requests) : IsFirst(i, x) /\ IsOpenedBy(x, requests[i].call.spec)
    BY DEF ExchangeInv, IsExchange
  <2> DEFINE spec == requests[i].call.spec
             own == Prepare(configuration, spec)
             sent == exchanges[x].sent
             t == TokenHeaders(configuration, spec)
             y == TypeHeaders(spec)
             H == ((ToSet(spec.headers) \cup ToSet(spec.customHeaders))
                   \cup (ToSet(configuration.commonHeaders) \cup ToSet(t))) \cup ToSet(y)
  <2>2. Opener(x).spec = spec
    BY <2>1, OpenerIsFirst
  <2>3. ~IsInvalid(own) /\ sent = ToSend(configuration, own) /\ ~IsInvalid(sent)
    BY <2>1 DEF IsOpenedBy
  <2>4. spec.headers \in HeaderLists /\ spec.customHeaders \in HeaderLists
    BY InputsAssumption DEF ExchangeInv, IsRequest, IsCall
  <2>5. IsList(configuration.commonHeaders)
    <3>1. exchanges # <<>>
      BY EmptyList
    <3> QED BY <3>1, ConfigurationIsLoaded DEF ExchangeInv, IsConfiguration
  <2>6. t \in Seq(ToSet(t))
    <3>1. t = <<>> \/ t = <<Header("Authorization", "Bearer " \o TokenOf(configuration, spec))>>
      BY DEF TokenHeaders
    <3>2. IsList(t)
      BY <3>1, EmptyList, SingleList
    <3> QED BY <3>2, ListElements
  <2>7. y \in Seq(ToSet(y))
    <3>1. y = <<Header("Accept", "application/json")>>
          \/ y =
              <<Header("Content-Type", "application/json"), Header("Accept", "application/json")>>
      BY TwoLists DEF TypeHeaders
    <3>2. IsList(y)
      <4> HIDE DEF y
      <4> QED BY <3>1 DEF IsList
    <3> QED BY <3>2, ListElements
  <2> HIDE DEF t, y, own, sent
  <2>8. spec.headers \in Seq(H)
    BY <2>4, ElementsIn DEF HeaderLists
  <2>9. spec.customHeaders \in Seq(H)
    BY <2>4, ElementsIn DEF HeaderLists
  <2>10. configuration.commonHeaders \in Seq(H)
    <3>1. configuration.commonHeaders \in Seq(ToSet(configuration.commonHeaders))
      BY <2>5, ListElements
    <3> QED BY <3>1, ElementsIn
  <2>11. t \in Seq(H)
    BY <2>6, ElementsIn
  <2>12. y \in Seq(H)
    BY <2>7, ElementsIn
  <2> HIDE DEF H
  <2> DEFINE r == Reverse(spec.headers \o spec.customHeaders)
  <2> HIDE DEF spec
  <2>13. /\ sent.headers \in Seq(H)
         /\ Represents(sent.headers, ((t \o r) \o configuration.commonHeaders) \o y)
    BY <2>3, <2>8, <2>9, <2>10, <2>11, <2>12, SentHeaders DEF t, y, own
  <2>14. Strongest(spec) = ((t \o r) \o configuration.commonHeaders) \o y
    BY DEF Strongest, t, y, TokenHeaders, TypeHeaders, TokenOf, ProviderOf
  <2>15. Distinct(sent.headers) /\ ToSet(sent.headers) = Winners(Strongest(spec))
    BY <2>13, <2>14 DEF Represents
  <2>16. Len(sent.headers) = Cardinality(ToSet(sent.headers))
    BY <2>13, <2>15, DistinctCounts
  <2> QED BY <2>2, <2>15, <2>16 DEF sent
<1> QED BY <1>1, ExchangeInvariance, PTL

LEMMA RefusalHasReason ==
  ASSUME NEW c, PoliciesAreValid(c), NEW spec,
         spec.retryPolicy = <<>>, spec.auth = <<>>, spec.multipart = <<>>, spec.proxy = <<>>,
         spec.certificatePolicy = <<>>,
         IsInvalid(Prepare(c, spec)) \/ IsInvalid(ToSend(c, Prepare(c, spec))),
         Joins(c.baseUrl, spec.url), All(spec.headers \o spec.customHeaders, IsHeader)
  PROVE  c.defaultAuthProvider # "" /\ Token(c.authProviders, c.defaultAuthProvider) = ""
<1> DEFINE b == Build(c, spec)
           q == Prepare(c, spec)
           token == Token(c.authProviders, c.defaultAuthProvider)
<1>1. /\ b.retryPolicy = c.retryPolicy /\ b.proxy = c.proxy /\ b.multipart = <<>>
      /\ b.certificatePolicy = c.certificatePolicy
      /\ "kind" \notin DOMAIN b
      /\ {"retryPolicy", "proxy", "multipart", "certificatePolicy", "headers"} \subseteq DOMAIN b
  BY DEF Build, ValueOr
<1>2. ~IsInvalid(b)
  <2>1. "kind" \in DOMAIN Invalid
    BY DEF Invalid
  <2> QED BY <1>1, <2>1 DEF IsInvalid
<1> HIDE DEF b
<1>3. SUFFICES ASSUME c.defaultAuthProvider = "" \/ token # ""
               PROVE  FALSE
  OBVIOUS
<1>4. All(spec.auth, IsAuth)
  BY DEF All
<1>5. q = ApplyAuthentication(c, spec, b)
  BY <1>2 DEF Prepare, b
<1>6. q = b \/ q = [b EXCEPT !.headers =
                     SetHeader(@, Header("Authorization", "Bearer " \o token), TRUE)]
  BY <1>3, <1>4, <1>5 DEF ApplyAuthentication, PoliciesAreValid, Token
<1>7. /\ q.retryPolicy = c.retryPolicy /\ q.proxy = c.proxy /\ q.multipart = <<>>
      /\ q.certificatePolicy = c.certificatePolicy
      /\ "kind" \notin DOMAIN q /\ "headers" \in DOMAIN q
  BY <1>1, <1>6
<1> HIDE DEF q, token
<1>8. "kind" \in DOMAIN Invalid
  BY DEF Invalid
<1>9. ~IsInvalid(q)
  BY <1>7, <1>8 DEF IsInvalid
<1>10. ToSend(c, q) = BeforeRequest(c, q)
  <2>1. All(q.multipart, IsMultipart)
    BY <1>7 DEF All
  <2> QED BY <1>7, <2>1 DEF ToSend, PoliciesAreValid
<1>11. DOMAIN BeforeRequest(c, q) = DOMAIN q
  BY DEF BeforeRequest
<1>12. ~IsInvalid(ToSend(c, q))
  BY <1>7, <1>8, <1>10, <1>11 DEF IsInvalid
<1> QED BY <1>9, <1>12 DEF q

\* A configuration that load returns has no policy that a request would be refused for: load
\* validates all that executePrepared parses again.
THEOREM LoadedPoliciesServe == ExchangeSpec => []LoadedPoliciesAreUsable
<1>1. ExchangeInv => LoadedPoliciesAreUsable
  <2> SUFFICES ASSUME ExchangeInv, NEW i \in DOMAIN requests,
                      requests[i].exchange = NoExchange,
                      {name \in {"retryPolicy", "auth", "multipart", "proxy", "certificatePolicy"} :
                         requests[i].call.spec[name] # <<>>} = {},
                      Joins(configuration.baseUrl, requests[i].call.spec.url),
                      All(requests[i].call.spec.headers
                      \o requests[i].call.spec.customHeaders, IsHeader)
               PROVE  /\ configuration.defaultAuthProvider # ""
                      /\ Token(configuration.authProviders, configuration.defaultAuthProvider) = ""
    BY DEF LoadedPoliciesAreUsable
  <2> DEFINE spec == requests[i].call.spec
  <2>1. i \in 1..Len(requests) /\ requests # <<>>
    BY EmptyList DEF ExchangeInv, IsList
  <2>2. PoliciesAreValid(configuration)
    BY <2>1, ConfigurationIsLoaded DEF ExchangeInv
  <2>3. IsRefused(spec)
    BY <2>1 DEF ExchangeInv, IsRequest, NoExchange
  <2>4. /\ spec.retryPolicy = <<>> /\ spec.auth = <<>> /\ spec.multipart = <<>> /\ spec.proxy = <<>>
        /\ spec.certificatePolicy = <<>>
    OBVIOUS
  <2> QED BY <2>2, <2>3, <2>4, RefusalHasReason DEF IsRefused
<1> QED BY <1>1, ExchangeInvariance, PTL

-----------------------------------------------------------------------------
(* Texts.  The provers take a string for a value without parts; that it is *)
(* a sequence of characters is said where it is used.                      *)

Texts == STRING
Literals == {"", "\n", ":", "/", "?", "&", "=", "%", "Bearer ", "Authorization", "0123456789ABCDEF"}
TextsAreSequences ==
  /\ \E C : Texts = Seq(C)
  /\ Literals \subseteq Texts
  /\ Len("") = 0 /\ Len("\n") = 1 /\ Len(":") = 1

LEMMA TextsAreSeq == ASSUME TextsAreSequences PROVE \E C : Texts = Seq(C)
BY Zenon DEF TextsAreSequences

LEMMA LiteralsAreTexts ==
  ASSUME TextsAreSequences, NEW literal \in Literals
  PROVE  literal \in Texts
BY Zenon DEF TextsAreSequences

LEMMA TextsJoin ==
  ASSUME TextsAreSequences, NEW a \in Texts, NEW b \in Texts
  PROVE  a \o b \in Texts
<1>1. PICK C : Texts = Seq(C)
  BY TextsAreSeq
<1> QED BY <1>1

LEMMA TextLength ==
  ASSUME TextsAreSequences, NEW text \in Texts
  PROVE  Len(text) \in Nat
<1>1. PICK C : Texts = Seq(C)
  BY TextsAreSeq
<1> QED BY <1>1

LEMMA EmptyText == ASSUME TextsAreSequences PROVE "" \in Texts
<1>1. "" \in Literals
  BY DEF Literals
<1> QED BY <1>1, LiteralsAreTexts

LEMMA OneCharacter ==
  ASSUME TextsAreSequences, NEW text \in Texts, NEW i \in 1..Len(text)
  PROVE  /\ SubSeq(text, i, i) \in Texts /\ Len(SubSeq(text, i, i)) = 1
         /\ SubSeq(text, i, i)[1] = text[i]
<1>1. PICK C : Texts = Seq(C)
  BY TextsAreSeq
<1>2. text \in Seq(C) /\ Len(text) \in Nat
  BY <1>1
<1>3. SubSeq(text, i, i) \in Seq(C) /\ Len(SubSeq(text, i, i)) = 1 /\ SubSeq(text, i, i)[1] =
         text[i]
  BY <1>2
<1> QED BY <1>1, <1>3

LEMMA NoCharacter ==
  ASSUME NEW text, Len(text) \in Nat, NEW i, i \notin 1..Len(text)
  PROVE  Char(text, i) = ""
BY Zenon DEF Char

LEMMA SomeCharacter ==
  ASSUME TextsAreSequences, NEW text \in Texts, NEW i \in 1..Len(text)
  PROVE  Char(text, i) # ""
<1> DEFINE none == ""
           c == Char(text, i)
<1>1. Len(none) = 0
  BY Zenon DEF TextsAreSequences
<1>2. c = SubSeq(text, i, i)
  BY Zenon DEF Char
<1>3. Len(c) = 1
  BY <1>2, OneCharacter
<1> HIDE DEF none, c
<1>4. c # none
  BY <1>1, <1>3
<1> QED BY <1>4 DEF none, c

LEMMA CharIsText ==
  ASSUME TextsAreSequences, NEW text \in Texts, NEW i
  PROVE  Char(text, i) \in Texts
BY OneCharacter, EmptyText DEF Char

LEMMA BetweenIsText ==
  ASSUME TextsAreSequences, NEW text \in Texts, NEW from \in Nat \ {0}, NEW to \in Nat
  PROVE  Between(text, from, to) \in Texts
<1>1. CASE to > Len(text) + 1
  BY <1>1, EmptyText DEF Between
<1>2. CASE ~(to > Len(text) + 1)
  <2>1. PICK C : Texts = Seq(C)
    BY TextsAreSeq
  <2>2. Len(text) \in Nat /\ to - 1 <= Len(text)
    BY <1>2, TextLength
  <2>3. SubSeq(text, from, to - 1) \in Seq(C)
    <3>1. text \in Seq(C)
      BY <2>1
    <3> QED BY <2>2, <3>1
  <2> QED BY <1>2, <2>1, <2>3 DEF Between
<1> QED BY <1>1, <1>2

LEMMA FirstIsPosition ==
  ASSUME TextsAreSequences, NEW text \in Texts, NEW c
  PROVE  First(text, c) \in 1..(Len(text) + 1)
<1> DEFINE these == Characters(text) \ {c}
           S == {i \in 1..(Len(text) + 1) : Char(text, i) \notin these}
<1>1. Len(text) \in Nat
  BY TextLength
<1>2. Char(text, Len(text) + 1) \notin these
  <2>1. Char(text, Len(text) + 1) = ""
    <3>1. Len(text) + 1 \notin 1..Len(text)
      BY <1>1
    <3> QED BY <1>1, <3>1, NoCharacter, Zenon
  <2>2. \A i \in 1..Len(text) : Char(text, i) # ""
    BY SomeCharacter
  <2> QED BY <1>1, <2>1, <2>2 DEF Characters
<1> HIDE DEF these
<1>3. S \in SUBSET Nat /\ S # {}
  BY <1>1, <1>2
<1>4. PICK m \in S : \A k \in S : m <= k
  <2> HIDE DEF S
  <2> QED BY <1>3, LeastMember
<1>5. m \in 1..(Len(text) + 1) /\ Char(text, m) \notin these
      /\ \A j \in 1..(m - 1) : Char(text, j) \in these
  BY <1>1, <1>4
<1>6. Past(text, 1, these) \in 1..(Len(text) + 1)
  BY <1>5 DEF Past
<1> QED BY <1>6 DEF First, these

LEMMA EncodedIsText ==
  ASSUME TextsAreSequences, NEW c \in Texts
  PROVE  Encoded(c) \in Texts
<1>1. \A n : Hex(n) \in Texts
  <2> DEFINE digits == "0123456789ABCDEF"
  <2>1. digits \in Texts
    BY LiteralsAreTexts, Zenon DEF Literals
  <2>2. \A n : Hex(n) = Char(digits, n + 1)
    BY Zenon DEF Hex
  <2> HIDE DEF digits
  <2> QED BY <2>1, <2>2, CharIsText
<1> DEFINE mark == "%"
           a == Hex(CodeOf(c) \div 16)
           b == Hex(CodeOf(c) % 16)
<1>2. mark \in Texts
  BY LiteralsAreTexts, Zenon DEF Literals
<1>3. a \in Texts /\ b \in Texts
  BY <1>1, Zenon
<1>4. Encoded(c) = IF c \in Unreserved THEN c ELSE mark \o a \o b
  BY Zenon DEF Encoded
<1> HIDE DEF a, b, mark
<1>5. mark \o a \in Texts
  BY <1>2, <1>3, TextsJoin
<1>6. (mark \o a) \o b \in Texts
  BY <1>3, <1>5, TextsJoin
<1> QED BY <1>4, <1>6

EncodedFurther(before, text, i) == before \o Encoded(Char(text, i))

\* A text, encoded up to each of its characters.
IsEncoding(f, none, text, n) ==
  f = [i \in 0..n |-> IF i = 0 THEN none ELSE EncodedFurther(f[i - 1], text, i)]
Encoding(none, text, n) ==
  CHOOSE f : IsEncoding(f, none, text, n)

LEMMA EncodingExists ==
  ASSUME NEW none, NEW text, NEW n \in Nat
  PROVE  \E f : IsEncoding(f, none, text, n)
<1> DEFINE S == {k \in 0..n : \E f : IsEncoding(f, none, text, k)}
<1>1. 0 \in S
  <2>1. IsEncoding([i \in 0..0 |-> none], none, text, 0)
    BY DEF IsEncoding
  <2> QED BY <2>1
<1>2. ASSUME NEW k \in 0..(n - 1), k \in S
      PROVE  k + 1 \in S
  <2>1. PICK f : IsEncoding(f, none, text, k)
    BY <1>2
  <2>2. f = [i \in 0..k |-> IF i = 0 THEN none ELSE EncodedFurther(f[i - 1], text, i)]
    BY <2>1 DEF IsEncoding
  <2> DEFINE g == [i \in 0..(k + 1) |-> IF i = k + 1 THEN EncodedFurther(f[k], text, k + 1)
           ELSE f[i]]
  <2>3. \A i \in 0..k : g[i] = f[i]
    OBVIOUS
  <2>4. ASSUME NEW i \in 0..(k + 1)
        PROVE  g[i] = IF i = 0 THEN none ELSE EncodedFurther(g[i - 1], text, i)
    <3>1. CASE i = k + 1
      <4>1. g[k] = f[k] /\ g[k + 1] = EncodedFurther(f[k], text, k + 1)
        BY <2>3
      <4> QED BY <3>1, <4>1
    <3>2. CASE i \in 1..k
      <4>1. f[i] = EncodedFurther(f[i - 1], text, i)
        BY <2>2, <3>2
      <4>2. g[i] = f[i] /\ g[i - 1] = f[i - 1]
        BY <2>3, <3>2
      <4> QED BY <3>2, <4>1, <4>2
    <3>3. CASE i = 0
      <4>1. f[0] = none
        BY <2>2
      <4> QED BY <2>3, <3>3, <4>1
    <3> QED BY <3>1, <3>2, <3>3
  <2>5. g = [i \in 0..(k + 1) |-> g[i]]
    OBVIOUS
  <2> HIDE DEF g
  <2>6. g = [i \in 0..(k + 1) |-> IF i = 0 THEN none ELSE EncodedFurther(g[i - 1], text, i)]
    BY <2>4, <2>5
  <2>7. IsEncoding(g, none, text, k + 1)
    BY <2>6 DEF IsEncoding
  <2> QED BY <2>7
<1>3. 0..n \subseteq S
  <2> HIDE DEF S
  <2> QED BY <1>1, <1>2, UpTo
<1> QED BY <1>3

LEMMA EncodingValue ==
  ASSUME NEW none, NEW text, NEW n \in Nat
  PROVE  /\ Encoding(none, text, n)[0] = none
         /\ \A i \in 1..n : Encoding(none, text, n)[i] =
             EncodedFurther(Encoding(none, text, n)[i - 1], text, i)
<1> DEFINE f == Encoding(none, text, n)
<1>1. \E h : IsEncoding(h, none, text, n)
  BY EncodingExists
<1>2. IsEncoding(f, none, text, n)
  BY <1>1, Zenon DEF Encoding
<1>3. f = [i \in 0..n |-> IF i = 0 THEN none ELSE EncodedFurther(f[i - 1], text, i)]
  BY <1>2 DEF IsEncoding
<1> HIDE DEF f
<1>4. f[0] = none /\ \A i \in 1..n : f[i] = EncodedFurther(f[i - 1], text, i)
  BY <1>3
<1> QED BY <1>4 DEF f

\* A url with more and more parameters.
IsExtending(f, url, parameters, n) ==
  f = [i \in 0..n |-> IF i = 0 THEN url ELSE WithParameter(f[i - 1], parameters[i])]
Extending(url, parameters, n) ==
  CHOOSE f : IsExtending(f, url, parameters, n)

LEMMA ExtendingExists ==
  ASSUME NEW url, NEW parameters, NEW n \in Nat
  PROVE  \E f : IsExtending(f, url, parameters, n)
<1> DEFINE S == {k \in 0..n : \E f : IsExtending(f, url, parameters, k)}
<1>1. 0 \in S
  <2>1. IsExtending([i \in 0..0 |-> url], url, parameters, 0)
    BY DEF IsExtending
  <2> QED BY <2>1
<1>2. ASSUME NEW k \in 0..(n - 1), k \in S
      PROVE  k + 1 \in S
  <2>1. PICK f : IsExtending(f, url, parameters, k)
    BY <1>2
  <2>2. f = [i \in 0..k |-> IF i = 0 THEN url ELSE WithParameter(f[i - 1], parameters[i])]
    BY <2>1 DEF IsExtending
  <2> DEFINE g == [i \in 0..(k + 1) |->
                IF i = k + 1 THEN WithParameter(f[k], parameters[k + 1]) ELSE f[i]]
  <2>3. \A i \in 0..k : g[i] = f[i]
    OBVIOUS
  <2>4. ASSUME NEW i \in 0..(k + 1)
        PROVE  g[i] = IF i = 0 THEN url ELSE WithParameter(g[i - 1], parameters[i])
    <3>1. CASE i = k + 1
      <4>1. g[k] = f[k] /\ g[k + 1] = WithParameter(f[k], parameters[k + 1])
        BY <2>3
      <4> QED BY <3>1, <4>1
    <3>2. CASE i \in 1..k
      <4>1. f[i] = WithParameter(f[i - 1], parameters[i])
        BY <2>2, <3>2
      <4>2. g[i] = f[i] /\ g[i - 1] = f[i - 1]
        BY <2>3, <3>2
      <4> QED BY <3>2, <4>1, <4>2
    <3>3. CASE i = 0
      <4>1. f[0] = url
        BY <2>2
      <4> QED BY <2>3, <3>3, <4>1
    <3> QED BY <3>1, <3>2, <3>3
  <2>5. g = [i \in 0..(k + 1) |-> g[i]]
    OBVIOUS
  <2> HIDE DEF g
  <2>6. g = [i \in 0..(k + 1) |-> IF i = 0 THEN url ELSE WithParameter(g[i - 1], parameters[i])]
    BY <2>4, <2>5
  <2>7. IsExtending(g, url, parameters, k + 1)
    BY <2>6 DEF IsExtending
  <2> QED BY <2>7
<1>3. 0..n \subseteq S
  <2> HIDE DEF S
  <2> QED BY <1>1, <1>2, UpTo
<1> QED BY <1>3

LEMMA ExtendingValue ==
  ASSUME NEW url, NEW parameters, NEW n \in Nat
  PROVE  /\ Extending(url, parameters, n)[0] = url
         /\ \A i \in 1..n : Extending(url, parameters, n)[i] =
             WithParameter(Extending(url, parameters, n)[i - 1], parameters[i])
<1> DEFINE f == Extending(url, parameters, n)
<1>1. \E h : IsExtending(h, url, parameters, n)
  BY ExtendingExists
<1>2. IsExtending(f, url, parameters, n)
  BY <1>1, Zenon DEF Extending
<1>3. f = [i \in 0..n |-> IF i = 0 THEN url ELSE WithParameter(f[i - 1], parameters[i])]
  BY <1>2 DEF IsExtending
<1> HIDE DEF f
<1>4. f[0] = url /\ \A i \in 1..n : f[i] = WithParameter(f[i - 1], parameters[i])
  BY <1>3
<1> QED BY <1>4 DEF f

LEMMA EncodeComponentIsText ==
  ASSUME TextsAreSequences, NEW text \in Texts
  PROVE  EncodeComponent(text) \in Texts
<1> DEFINE n == Len(text)
           none == ""
           f == Encoding(none, text, n)
           S == {i \in 0..n : f[i] \in Texts}
<1>1. n \in Nat
  BY TextLength
<1>2. EncodeComponent(text) = f[n]
  BY DEF EncodeComponent, Encoding, IsEncoding, EncodedFurther
<1>3. none \in Texts
  BY EmptyText, Zenon
<1> HIDE DEF n, none
<1>4. f[0] \in Texts
  BY <1>1, <1>3, EncodingValue
<1>5. \A i \in 1..n : f[i] = EncodedFurther(f[i - 1], text, i)
  BY <1>1, EncodingValue
<1> HIDE DEF f
<1>6. 0 \in S
  BY <1>1, <1>4
<1>7. ASSUME NEW i \in 0..(n - 1), i \in S
      PROVE  i + 1 \in S
  <2>1. i + 1 \in 1..n /\ (i + 1) - 1 = i
    BY <1>1
  <2>2. f[i + 1] = EncodedFurther(f[i], text, i + 1)
    BY <1>5, <2>1
  <2>3. f[i] \in Texts
    BY <1>7
  <2>4. f[i] \o Encoded(Char(text, i + 1)) \in Texts
    BY <2>3, CharIsText, EncodedIsText, TextsJoin
  <2>5. i + 1 \in 0..n
    BY <1>1
  <2> QED BY <2>2, <2>4, <2>5 DEF EncodedFurther
<1>8. 0..n \subseteq S
  <2> HIDE DEF S
  <2> QED BY <1>1, <1>6, <1>7, UpTo
<1>9. f[n] \in Texts
  BY <1>1, <1>8
<1> QED BY <1>2, <1>9

\* A header, or a parameter.
Pairs == [name : Texts, value : Texts]

LEMMA WithParameterIsText ==
  ASSUME TextsAreSequences, NEW url \in Texts, NEW p \in Pairs
  PROVE  WithParameter(url, p) \in Texts
<1> DEFINE mark == IF Includes(url, "?") THEN "&" ELSE "?"
           a == EncodeComponent(p.name)
           b == EncodeComponent(p.value)
<1>1. mark \in Texts /\ "=" \in Texts
  BY LiteralsAreTexts, Zenon DEF Literals
<1>2. a \in Texts /\ b \in Texts
  <2>1. p.name \in Texts /\ p.value \in Texts
    BY DEF Pairs
  <2> QED BY <2>1, EncodeComponentIsText
<1> HIDE DEF mark, a, b
<1>3. url \o mark \in Texts
  BY <1>1, TextsJoin
<1>4. (url \o mark) \o a \in Texts
  BY <1>2, <1>3, TextsJoin
<1>5. ((url \o mark) \o a) \o "=" \in Texts
  BY <1>1, <1>4, TextsJoin
<1>6. (((url \o mark) \o a) \o "=") \o b \in Texts
  BY <1>2, <1>5, TextsJoin
<1> QED BY <1>6 DEF WithParameter, mark, a, b

LEMMA WithParametersIsText ==
  ASSUME TextsAreSequences, NEW url \in Texts, NEW parameters \in Seq(Pairs)
  PROVE  WithParameters(url, parameters) \in Texts
<1> DEFINE n == Len(parameters)
           f == Extending(url, parameters, n)
           S == {i \in 0..n : f[i] \in Texts}
<1>1. n \in Nat
  OBVIOUS
<1>2. WithParameters(url, parameters) = f[n]
  BY DEF WithParameters, Extending, IsExtending
<1>n. n = Len(parameters)
  OBVIOUS
<1> HIDE DEF n
<1>3. f[0] \in Texts
  BY <1>1, ExtendingValue, EmptyText
<1>4. \A i \in 1..n : f[i] = WithParameter(f[i - 1], parameters[i])
  BY <1>1, ExtendingValue
<1> HIDE DEF f
<1>5. 0 \in S
  BY <1>1, <1>3
<1>6. ASSUME NEW i \in 0..(n - 1), i \in S
      PROVE  i + 1 \in S
  <2>1. i + 1 \in 1..n /\ (i + 1) - 1 = i
    BY <1>1
  <2>2. f[i + 1] = WithParameter(f[i], parameters[i + 1])
    BY <1>4, <2>1
  <2>3. f[i] \in Texts
    BY <1>6
  <2>4. WithParameter(f[i], parameters[i + 1]) \in Texts
    <3>1. parameters[i + 1] \in Pairs
      BY <1>n, <2>1
    <3> QED BY <2>3, <3>1, WithParameterIsText
  <2> QED BY <2>1, <2>2, <2>4
<1>7. 0..n \subseteq S
  <2> HIDE DEF S
  <2> QED BY <1>1, <1>5, <1>6, UpTo
<1>8. f[n] \in Texts
  BY <1>1, <1>7
<1> QED BY <1>2, <1>8

LEMMA AppendQueryParametersIsText ==
  ASSUME TextsAreSequences, NEW url \in Texts, NEW parameters \in Seq(Pairs)
  PROVE  AppendQueryParameters(url, parameters) \in Texts
<1> DEFINE at == First(url, "#")
           whole == Between(url, 1, at)
           a == WithParameters(whole, parameters)
           b == From(url, at)
<1>1. at \in Nat \ {0} /\ Len(url) + 1 \in Nat
  BY FirstIsPosition, TextLength
<1> HIDE DEF at
<1>2. whole \in Texts /\ b \in Texts
  BY <1>1, BetweenIsText DEF From
<1> HIDE DEF whole, b
<1>3. a \in Texts
  BY <1>2, WithParametersIsText
<1> HIDE DEF a
<1>4. a \o b \in Texts
  BY <1>2, <1>3, TextsJoin
<1> QED BY <1>4 DEF AppendQueryParameters, at, whole, a, b

LEMMA JoinIsText ==
  ASSUME TextsAreSequences, NEW base \in Texts, NEW url \in Texts
  PROVE  Join(base, url) \in Texts
<1>1. From(url, 2) \in Texts
  <2>1. Len(url) + 1 \in Nat
    BY TextLength
  <2> QED BY <2>1, BetweenIsText DEF From
<1>2. "/" \in Texts
  BY LiteralsAreTexts, Zenon DEF Literals
<1>3. base \o From(url, 2) \in Texts
  BY <1>1, TextsJoin
<1>4. base \o url \in Texts
  BY TextsJoin
<1>5. base \o "/" \in Texts
  BY <1>2, TextsJoin
<1>6. (base \o "/") \o url \in Texts
  BY <1>5, TextsJoin
<1> QED BY <1>3, <1>4, <1>6 DEF Join

LEMMA TokenIsText ==
  ASSUME TextsAreSequences, NEW c, IsConfiguration(c), PoliciesAreValid(c), NEW spec, NEW q,
         q = Prepare(c, spec), ~IsInvalid(q), ProviderOf(c, spec) # ""
  PROVE  TokenOf(c, spec) \in Texts
<1> DEFINE name == ProviderOf(c, spec)
           b == Build(c, spec)
           token == Token(c.authProviders, name)
<1>1. q = ApplyAuthentication(c, spec, b)
  BY DEF Prepare, IsInvalid
<1> HIDE DEF b
<1>2. DeclaresProvider(c, name) /\ token # ""
  BY <1>1 DEF ApplyAuthentication, ProviderOf, Token, IsInvalid
<1>3. PICK i \in 1..Len(c.authProviders.entries) : c.authProviders.entries[i].key = name
  BY <1>2 DEF DeclaresProvider
<1>4. c.authProviders # Absent
  BY <1>2 DEF DeclaresProvider
<1>5. IsProviders(c.authProviders)
  BY <1>4 DEF PoliciesAreValid
<1>6. IsSetting("authProviders", c.authProviders)
  BY <1>4 DEF IsConfiguration
<1> HIDE DEF name
<1>7. Token(c.authProviders, c.authProviders.entries[i].key) \in STRING
  BY <1>5, <1>6 DEF IsSetting
<1>8. token \in Texts
  BY <1>3, <1>7 DEF Texts
<1>9. token = TokenOf(c, spec)
  BY <1>2 DEF Token, Option, TokenOf, JsonString, name
<1> QED BY <1>8, <1>9

LEMMA PreparedMessage ==
  ASSUME TextsAreSequences, NEW c, IsConfiguration(c), PoliciesAreValid(c), NEW spec, IsCall(spec),
         NEW q, q = Prepare(c, spec), ~IsInvalid(q)
  PROVE  /\ q.method = spec.method /\ q.body = spec.body
         /\ q.url \in Texts /\ q.headers \in Seq(Pairs)
<1> DEFINE b == Build(c, spec)
           t == TokenHeaders(c, spec)
           u == Join(c.baseUrl, spec.url)
<1>1. q = ApplyAuthentication(c, spec, b) /\ ~IsInvalid(b)
  BY DEF Prepare, IsInvalid
<1>2. b.method = spec.method /\ b.url = AppendQueryParameters(u, spec.queryParams)
      /\ {"method", "url"} \subseteq DOMAIN b
  BY <1>1 DEF Build, IsInvalid
<1> HIDE DEF b
<1>3. q.method = b.method /\ q.url = b.url
  BY <1>1, <1>2 DEF ApplyAuthentication, IsInvalid
<1>4. spec.headers \in Seq(Pairs) /\ spec.customHeaders \in Seq(Pairs)
      /\ spec.queryParams \in Seq(Pairs)
  BY DEF IsCall, HeaderLists, Pairs, Texts
<1>5. u \in Texts
  <2>1. c.baseUrl \in Texts
    BY EmptyText DEF IsConfiguration, Texts
  <2>2. spec.url \in Texts
    BY DEF IsCall, Texts
  <2> QED BY <2>1, <2>2, JoinIsText
<1> HIDE DEF u
<1>6. q.url \in Texts
  BY <1>2, <1>3, <1>4, <1>5, AppendQueryParametersIsText
<1>7. t \in Seq(Pairs)
  <2>1. CASE ProviderOf(c, spec) = ""
    <3>1. t = <<>>
      BY <2>1 DEF TokenHeaders
    <3> QED BY <3>1
  <2>2. CASE ProviderOf(c, spec) # ""
    <3> DEFINE name == "Authorization"
               value == "Bearer " \o TokenOf(c, spec)
               header == Header(name, value)
    <3>1. name \in Texts
      BY LiteralsAreTexts, Zenon DEF Literals
    <3>2. "Bearer " \in Texts
      BY LiteralsAreTexts, Zenon DEF Literals
    <3>3. value \in Texts
      BY <2>2, <3>2, TokenIsText, TextsJoin
    <3>4. t = <<header>>
      BY <2>2 DEF TokenHeaders
    <3> HIDE DEF name, value
    <3>5. header \in Pairs
      BY <3>1, <3>3 DEF Header, Pairs
    <3> HIDE DEF header
    <3> QED BY <3>4, <3>5
  <2> QED BY <2>1, <2>2
<1>8. q.headers \in Seq(Pairs) /\ q.body = spec.body
  BY <1>4, <1>7, PreparedHeaders
<1> QED BY <1>2, <1>3, <1>6, <1>8

\* What ends a line and what ends the name of a header.
LineFeed == "\n"
Colon == ":"
Marks == {LineFeed, Colon}

LEMMA MarksAreTexts ==
  ASSUME TextsAreSequences, NEW mark \in Marks
  PROVE  mark \in Texts /\ Len(mark) = 1
<1>1. LineFeed \in Texts /\ Colon \in Texts
  BY LiteralsAreTexts, Zenon DEF Literals, LineFeed, Colon
<1>2. Len(LineFeed) = 1 /\ Len(Colon) = 1
  BY Zenon DEF TextsAreSequences, LineFeed, Colon
<1> QED BY <1>1, <1>2, Zenon DEF Marks

LEMMA MarksDiffer == LineFeed # Colon
BY DEF LineFeed, Colon

LEMMA TextsAssociate ==
  ASSUME TextsAreSequences, NEW a \in Texts, NEW b \in Texts, NEW c \in Texts
  PROVE  (a \o b) \o c = a \o (b \o c)
<1>1. PICK C : Texts = Seq(C)
  BY TextsAreSeq
<1>2. a \in Seq(C) /\ b \in Seq(C) /\ c \in Seq(C)
  BY <1>1
<1> QED BY <1>2

\* A text without this mark.
Free(text, mark) == \A i \in 1..Len(text) : text[i] # mark[1]

LEMMA FreeOfCharacter ==
  ASSUME TextsAreSequences, NEW text \in Texts, NEW mark \in Marks, mark \notin Characters(text)
  PROVE  Free(text, mark)
<1>1. mark \in Texts /\ Len(mark) = 1
  BY MarksAreTexts
<1> SUFFICES ASSUME NEW i \in 1..Len(text), text[i] = mark[1]
             PROVE  FALSE
  BY DEF Free
<1> DEFINE c == SubSeq(text, i, i)
<1>2. c \in Texts /\ Len(c) = 1 /\ c[1] = text[i]
  BY OneCharacter
<1>3. Char(text, i) = c
  BY Zenon DEF Char
<1> HIDE DEF c
<1>4. PICK C : Texts = Seq(C)
  BY TextsAreSeq
<1>5. c \in Seq(C) /\ mark \in Seq(C)
  BY <1>1, <1>2, <1>4
<1>6. c = mark
  BY <1>1, <1>2, <1>5
<1> QED BY <1>3, <1>6 DEF Characters

LEMMA FreeTogether ==
  ASSUME TextsAreSequences, NEW a \in Texts, NEW b \in Texts, NEW mark, Free(a, mark), Free(b, mark)
  PROVE  Free(a \o b, mark)
<1>1. PICK C : Texts = Seq(C)
  BY TextsAreSeq
<1>2. a \in Seq(C) /\ b \in Seq(C)
  BY <1>1
<1> QED BY <1>2 DEF Free

LEMMA OtherMarkIsFree ==
  ASSUME TextsAreSequences
  PROVE  Free(Colon, LineFeed)
<1>1. /\ LineFeed \in Texts /\ Len(LineFeed) = 1 /\ Colon \in Texts /\ Len(Colon) = 1
  BY MarksAreTexts DEF Marks
<1>2. PICK C : Texts = Seq(C)
  BY TextsAreSeq
<1>3. LineFeed \in Seq(C) /\ Colon \in Seq(C)
  BY <1>1, <1>2
<1>4. Colon[1] # LineFeed[1]
  BY <1>1, <1>3, MarksDiffer
<1> QED BY <1>1, <1>4 DEF Free

\* Where a mark is, between what is left and right of it.
Around(a, mark, b) == (a \o mark) \o b

LEMMA AroundMark ==
  ASSUME TextsAreSequences, NEW a \in Texts, NEW b \in Texts, NEW mark \in Texts, Len(mark) = 1
  PROVE  /\ Around(a, mark, b) \in Texts
         /\ Len(a) \in Nat /\ Len(b) \in Nat
         /\ Len(Around(a, mark, b)) = Len(a) + 1 + Len(b)
<1>1. PICK C : Texts = Seq(C)
  BY TextsAreSeq
<1>2. a \in Seq(C) /\ b \in Seq(C) /\ mark \in Seq(C)
  BY <1>1
<1> DEFINE c == a \o mark
<1>3. c \in Seq(C) /\ Len(c) = Len(a) + Len(mark)
  BY <1>2, ElementOfBoth
<1> HIDE DEF c
<1>4. c \o b \in Seq(C) /\ Len(c \o b) = Len(c) + Len(b)
  BY <1>2, <1>3, ElementOfBoth
<1>5. Around(a, mark, b) = c \o b
  BY DEF Around, c
<1>6. Len(a) \in Nat /\ Len(b) \in Nat
  BY <1>2
<1> QED BY <1>1, <1>3, <1>4, <1>5, <1>6

LEMMA AroundElement ==
  ASSUME TextsAreSequences, NEW a \in Texts, NEW b \in Texts, NEW mark \in Texts, Len(mark) = 1,
         NEW k \in 1..(Len(a) + 1 + Len(b))
  PROVE  Around(a, mark, b)[k] = IF k <= Len(a) THEN a[k]
                                 ELSE IF k = Len(a) + 1 THEN mark[1]
                                 ELSE b[k - (Len(a) + 1)]
<1>1. PICK C : Texts = Seq(C)
  BY TextsAreSeq
<1>2. a \in Seq(C) /\ b \in Seq(C) /\ mark \in Seq(C) /\ Len(a) \in Nat /\ Len(b) \in Nat
  BY <1>1
<1> DEFINE c == a \o mark
<1>3. c \in Seq(C) /\ Len(c) = Len(a) + 1
  <2>1. c \in Seq(C) /\ Len(c) = Len(a) + Len(mark)
    BY <1>2, ElementOfBoth
  <2> QED BY <2>1
<1>4. \A i \in 1..(Len(a) + Len(mark)) : c[i] = IF i <= Len(a) THEN a[i] ELSE mark[i - Len(a)]
  BY <1>2, ElementOfBoth
<1> HIDE DEF c
<1>5. \A i \in 1..(Len(c) + Len(b)) : (c \o b)[i] = IF i <= Len(c) THEN c[i] ELSE b[i - Len(c)]
  BY <1>2, <1>3, ElementOfBoth
<1>6. Around(a, mark, b) = c \o b
  BY DEF Around, c
<1> DEFINE t == c \o b
<1> HIDE DEF t
<1>7. k \in 1..(Len(c) + Len(b))
  BY <1>2, <1>3
<1>8. t[k] = IF k <= Len(c) THEN c[k] ELSE b[k - Len(c)]
  BY <1>5, <1>7 DEF t
<1>9. k <= Len(c) => c[k] = IF k <= Len(a) THEN a[k] ELSE mark[k - Len(a)]
  BY <1>2, <1>3, <1>4, <1>7
<1> QED BY <1>2, <1>3, <1>6, <1>8, <1>9 DEF t

LEMMA AroundLeft ==
  ASSUME TextsAreSequences, NEW a \in Texts, NEW b \in Texts, NEW mark \in Texts, Len(mark) = 1,
         NEW i \in 1..Len(a)
  PROVE  Around(a, mark, b)[i] = a[i]
<1>1. Len(a) \in Nat /\ Len(b) \in Nat
  BY TextLength
<1>2. i \in 1..(Len(a) + 1 + Len(b)) /\ i <= Len(a)
  BY <1>1
<1> QED BY <1>2, AroundElement

LEMMA AroundMiddle ==
  ASSUME TextsAreSequences, NEW a \in Texts, NEW b \in Texts, NEW mark \in Texts, Len(mark) = 1
  PROVE  Around(a, mark, b)[Len(a) + 1] = mark[1]
<1>1. Len(a) \in Nat /\ Len(b) \in Nat
  BY TextLength
<1> DEFINE k == Len(a) + 1
<1>2. k \in 1..(Len(a) + 1 + Len(b)) /\ ~(k <= Len(a)) /\ k = Len(a) + 1
  BY <1>1
<1> HIDE DEF k
<1>3. Around(a, mark, b)[k] = mark[1]
  BY <1>2, AroundElement
<1> QED BY <1>3 DEF k

LEMMA AroundRight ==
  ASSUME TextsAreSequences, NEW a \in Texts, NEW b \in Texts, NEW mark \in Texts, Len(mark) = 1,
         NEW i \in 1..Len(b)
  PROVE  Around(a, mark, b)[Len(a) + 1 + i] = b[i]
<1>1. Len(a) \in Nat /\ Len(b) \in Nat
  BY TextLength
<1> DEFINE k == Len(a) + 1 + i
<1>2. k \in 1..(Len(a) + 1 + Len(b)) /\ ~(k <= Len(a)) /\ k # Len(a) + 1 /\ k - (Len(a) + 1) = i
  BY <1>1
<1> HIDE DEF k
<1>3. Around(a, mark, b)[k] = b[i]
  BY <1>2, AroundElement
<1> QED BY <1>3 DEF k

LEMMA SplitAtLength ==
  ASSUME TextsAreSequences, NEW mark \in Texts, Len(mark) = 1,
         NEW a \in Texts, NEW b \in Texts, NEW c \in Texts, NEW d \in Texts,
         Around(a, mark, b) = Around(c, mark, d), Len(a) = Len(c)
  PROVE  a = c /\ b = d
<1>1. PICK C : Texts = Seq(C)
  BY TextsAreSeq
<1>2. a \in Seq(C) /\ b \in Seq(C) /\ c \in Seq(C) /\ d \in Seq(C)
  BY <1>1
<1>3. Len(a) \in Nat /\ Len(b) \in Nat /\ Len(d) \in Nat /\ Len(b) = Len(d)
  BY AroundMark
<1>4. \A i \in 1..Len(a) : a[i] = c[i]
  <2> TAKE i \in 1..Len(a)
  <2>1. Around(a, mark, b)[i] = a[i]
    BY AroundLeft
  <2>2. Around(c, mark, d)[i] = c[i]
    BY AroundLeft
  <2> QED BY <2>1, <2>2
<1>5. \A i \in 1..Len(b) : b[i] = d[i]
  <2> DEFINE t == Around(a, mark, b)
             u == Around(c, mark, d)
  <2>1. \A i \in 1..Len(b) : t[Len(a) + 1 + i] = b[i]
    BY AroundRight
  <2>2. \A i \in 1..Len(d) : u[Len(c) + 1 + i] = d[i]
    BY AroundRight
  <2>3. t = u /\ Len(a) = Len(c)
    OBVIOUS
  <2> HIDE DEF t, u
  <2> QED BY <1>3, <2>1, <2>2, <2>3
<1>6. a = c
  BY <1>2, <1>3, <1>4, SameSequence
<1>7. b = d
  BY <1>2, <1>3, <1>5, SameSequence
<1> QED BY <1>6, <1>7

\* The last mark splits a text in one way, and so does the first.
LEMMA SplitAtLast ==
  ASSUME TextsAreSequences, NEW mark \in Texts, Len(mark) = 1,
         NEW a \in Texts, NEW b \in Texts, NEW c \in Texts, NEW d \in Texts,
         Around(a, mark, b) = Around(c, mark, d), Free(b, mark), Free(d, mark)
  PROVE  a = c /\ b = d
<1> DEFINE t == Around(a, mark, b)
<1>1. /\ Len(a) \in Nat /\ Len(b) \in Nat /\ Len(t) = Len(a) + 1 + Len(b) /\ t[Len(a) + 1] = mark[1]
      /\ \A i \in 1..Len(b) : t[Len(a) + 1 + i] = b[i]
  <2>1. Len(a) \in Nat /\ Len(b) \in Nat /\ Len(t) = Len(a) + 1 + Len(b)
    BY AroundMark
  <2>2. t[Len(a) + 1] = mark[1]
    BY AroundMiddle
  <2>3. \A i \in 1..Len(b) : t[Len(a) + 1 + i] = b[i]
    BY AroundRight
  <2> QED BY <2>1, <2>2, <2>3
<1>n. t = Around(c, mark, d)
  OBVIOUS
<1> HIDE DEF t
<1>2. /\ Len(c) \in Nat /\ Len(d) \in Nat /\ Len(t) = Len(c) + 1 + Len(d) /\ t[Len(c) + 1] = mark[1]
      /\ \A i \in 1..Len(d) : t[Len(c) + 1 + i] = d[i]
  <2>1. Len(c) \in Nat /\ Len(d) \in Nat /\ Len(t) = Len(c) + 1 + Len(d)
    BY <1>n, AroundMark
  <2>2. t[Len(c) + 1] = mark[1]
    BY <1>n, AroundMiddle
  <2>3. \A i \in 1..Len(d) : t[Len(c) + 1 + i] = d[i]
    BY <1>n, AroundRight
  <2> QED BY <2>1, <2>2, <2>3
<1>3. ~(Len(a) < Len(c))
  <2> SUFFICES ASSUME Len(a) < Len(c) PROVE FALSE
    OBVIOUS
  <2> DEFINE i == Len(c) - Len(a)
  <2>1. i \in 1..Len(b) /\ Len(a) + 1 + i = Len(c) + 1
    BY <1>1, <1>2
  <2> HIDE DEF i
  <2> QED BY <1>1, <1>2, <2>1 DEF Free
<1>4. ~(Len(c) < Len(a))
  <2> SUFFICES ASSUME Len(c) < Len(a) PROVE FALSE
    OBVIOUS
  <2> DEFINE i == Len(a) - Len(c)
  <2>1. i \in 1..Len(d) /\ Len(c) + 1 + i = Len(a) + 1
    BY <1>1, <1>2
  <2> HIDE DEF i
  <2> QED BY <1>1, <1>2, <2>1 DEF Free
<1>5. Len(a) = Len(c)
  BY <1>1, <1>2, <1>3, <1>4
<1> QED BY <1>5, SplitAtLength

LEMMA SplitAtFirst ==
  ASSUME TextsAreSequences, NEW mark \in Texts, Len(mark) = 1,
         NEW a \in Texts, NEW b \in Texts, NEW c \in Texts, NEW d \in Texts,
         Around(a, mark, b) = Around(c, mark, d), Free(a, mark), Free(c, mark)
  PROVE  a = c /\ b = d
<1> DEFINE t == Around(a, mark, b)
<1>1. Len(a) \in Nat /\ t[Len(a) + 1] = mark[1] /\ \A i \in 1..Len(a) : t[i] = a[i]
  <2>1. Len(a) \in Nat /\ t[Len(a) + 1] = mark[1]
    BY TextLength, AroundMiddle
  <2>2. \A i \in 1..Len(a) : t[i] = a[i]
    BY AroundLeft
  <2> QED BY <2>1, <2>2
<1>n. t = Around(c, mark, d)
  OBVIOUS
<1> HIDE DEF t
<1>2. Len(c) \in Nat /\ t[Len(c) + 1] = mark[1] /\ \A i \in 1..Len(c) : t[i] = c[i]
  <2>1. Len(c) \in Nat /\ t[Len(c) + 1] = mark[1]
    BY <1>n, TextLength, AroundMiddle
  <2>2. \A i \in 1..Len(c) : t[i] = c[i]
    BY <1>n, AroundLeft
  <2> QED BY <2>1, <2>2
<1>3. ~(Len(a) < Len(c)) /\ ~(Len(c) < Len(a))
  BY <1>1, <1>2 DEF Free
<1>4. Len(a) = Len(c)
  BY <1>1, <1>2, <1>3
<1> QED BY <1>4, SplitAtLength

\* Lines behind one another, each free of line feeds: the text up to each of them.
AreLines(lines, n) == \A i \in 0..n : lines[i] \in Texts /\ Free(lines[i], LineFeed)
AreJoined(f, lines, n) ==
  f[0] = lines[0] /\ \A i \in 1..n : f[i] = Around(f[i - 1], LineFeed, lines[i])

LEMMA JoinedAreTexts ==
  ASSUME TextsAreSequences, NEW n \in Nat, NEW lines,
         NEW f, AreLines(lines, n), AreJoined(f, lines, n)
  PROVE  \A i \in 0..n : f[i] \in Texts
<1> DEFINE S == {i \in 0..n : f[i] \in Texts}
<1>1. 0 \in S
  BY DEF AreLines, AreJoined
<1>2. ASSUME NEW i \in 0..(n - 1), i \in S
      PROVE  i + 1 \in S
  <2>1. i + 1 \in 1..n /\ (i + 1) - 1 = i /\ i + 1 \in 0..n
    OBVIOUS
  <2>2. f[i + 1] = Around(f[i], LineFeed, lines[i + 1])
    BY <2>1 DEF AreJoined
  <2>3. lines[i + 1] \in Texts /\ f[i] \in Texts
    BY <1>2, <2>1 DEF AreLines
  <2>4. LineFeed \in Texts /\ Len(LineFeed) = 1
    BY MarksAreTexts DEF Marks
  <2>5. Around(f[i], LineFeed, lines[i + 1]) \in Texts
    BY <2>3, <2>4, AroundMark
  <2> QED BY <2>1, <2>2, <2>5
<1>3. 0..n \subseteq S
  <2> HIDE DEF S
  <2> QED BY <1>1, <1>2, UpTo
<1> QED BY <1>3

LEMMA OneLine ==
  ASSUME TextsAreSequences, NEW a \in Texts, NEW b \in Texts, NEW line, Free(line, LineFeed)
  PROVE  line # Around(a, LineFeed, b)
<1>1. LineFeed \in Texts /\ Len(LineFeed) = 1
  BY MarksAreTexts DEF Marks
<1> DEFINE t == Around(a, LineFeed, b)
<1>2. Len(a) \in Nat /\ Len(b) \in Nat /\ Len(t) = Len(a) + 1 + Len(b)
  BY <1>1, AroundMark
<1>3. t[Len(a) + 1] = LineFeed[1]
  BY <1>1, AroundMiddle
<1>4. Len(a) + 1 \in 1..Len(t)
  BY <1>2
<1> HIDE DEF t
<1>5. ~Free(t, LineFeed)
  BY <1>3, <1>4 DEF Free
<1> QED BY <1>5 DEF t

\* A text has only one way to be read as lines.
ReadAlike(f, g, lines, more, k, j) ==
  f[k] = g[j] => k = j /\ \A i \in 0..k : lines[i] = more[i]
LEMMA LinesAreRead ==
  ASSUME TextsAreSequences, NEW n \in Nat, NEW lines,
         NEW f, AreLines(lines, n), AreJoined(f, lines, n),
         NEW m \in Nat, NEW more, NEW g, AreLines(more, m), AreJoined(g, more, m),
         f[n] = g[m]
  PROVE  n = m /\ \A i \in 0..n : lines[i] = more[i]
<1> DEFINE S == {k \in 0..n : \A j \in 0..m : ReadAlike(f, g, lines, more, k, j)}
<1>1. \A i \in 0..n : f[i] \in Texts
  BY JoinedAreTexts
<1>2. \A i \in 0..m : g[i] \in Texts
  BY JoinedAreTexts
<1>3. LineFeed \in Texts /\ Len(LineFeed) = 1
  BY MarksAreTexts DEF Marks
<1>4. 0 \in S
  <2> SUFFICES ASSUME NEW j \in 0..m, f[0] = g[j]
               PROVE  0 = j /\ \A i \in 0..0 : lines[i] = more[i]
    BY DEF ReadAlike
  <2>1. f[0] = lines[0] /\ Free(lines[0], LineFeed) /\ g[0] = more[0]
    <3>1. f[0] = lines[0] /\ g[0] = more[0]
      BY DEF AreJoined
    <3>2. 0 \in 0..n
      OBVIOUS
    <3>3. Free(lines[0], LineFeed)
      BY <3>2, Zenon DEF AreLines
    <3> QED BY <3>1, <3>3
  <2>2. j = 0
    <3> SUFFICES ASSUME j # 0 PROVE FALSE
      OBVIOUS
    <3>1. j \in 1..m /\ j - 1 \in 0..m
      OBVIOUS
    <3>2. g[j] = Around(g[j - 1], LineFeed, more[j])
      BY <3>1 DEF AreJoined
    <3>3. g[j - 1] \in Texts /\ more[j] \in Texts
      BY <1>2, <3>1 DEF AreLines
    <3> QED BY <2>1, <3>2, <3>3, OneLine
  <2>3. lines[0] = more[0]
    BY <2>1, <2>2
  <2>4. \A i \in 0..0 : i = 0
    OBVIOUS
  <2> QED BY <2>2, <2>3, <2>4, Zenon
<1>5. ASSUME NEW k \in 0..(n - 1), k \in S
      PROVE  k + 1 \in S
  <2> SUFFICES ASSUME NEW j \in 0..m, f[k + 1] = g[j]
               PROVE  k + 1 = j /\ \A i \in 0..(k + 1) : lines[i] = more[i]
    BY DEF ReadAlike
  <2>1. k + 1 \in 1..n /\ (k + 1) - 1 = k /\ k \in 0..n
    OBVIOUS
  <2>2. f[k + 1] = Around(f[k], LineFeed, lines[k + 1])
    BY <2>1 DEF AreJoined
  <2>3. f[k] \in Texts /\ lines[k + 1] \in Texts /\ Free(lines[k + 1], LineFeed)
    BY <1>1, <2>1 DEF AreLines
  <2>4. j # 0
    <3> SUFFICES ASSUME j = 0 PROVE FALSE
      OBVIOUS
    <3>1. f[k + 1] = more[0] /\ Free(more[0], LineFeed)
      BY DEF AreJoined, AreLines
    <3> QED BY <2>2, <2>3, <3>1, OneLine
  <2>5. j \in 1..m /\ j - 1 \in 0..m
    BY <2>4
  <2>6. g[j] = Around(g[j - 1], LineFeed, more[j])
    BY <2>5 DEF AreJoined
  <2>7. g[j - 1] \in Texts /\ more[j] \in Texts /\ Free(more[j], LineFeed)
    BY <1>2, <2>5 DEF AreLines
  <2>8. f[k] = g[j - 1] /\ lines[k + 1] = more[j]
    <3>1. Around(f[k], LineFeed, lines[k + 1]) = Around(g[j - 1], LineFeed, more[j])
      BY <2>2, <2>6
    <3> QED BY <1>3, <2>3, <2>7, <3>1, SplitAtLast
  <2>9. ReadAlike(f, g, lines, more, k, j - 1)
    BY <1>5, <2>5
  <2>10. k = j - 1 /\ \A i \in 0..k : lines[i] = more[i]
    BY <2>8, <2>9 DEF ReadAlike
  <2> QED BY <2>8, <2>10
<1>6. 0..n \subseteq S
  <2> HIDE DEF S
  <2> QED BY <1>4, <1>5, UpTo
<1>7. ReadAlike(f, g, lines, more, n, m)
  BY <1>6
<1> QED BY <1>7 DEF ReadAlike

KeyFurther(before, headers, i) == before \o headers[i].name \o ":" \o headers[i].value \o "\n"

\* The key of a request, up to each of its headers.
IsKeying(f, start, headers, n) ==
  f = [i \in 0..n |-> IF i = 0 THEN start ELSE KeyFurther(f[i - 1], headers, i)]
Keying(start, headers, n) ==
  CHOOSE f : IsKeying(f, start, headers, n)

LEMMA KeyingExists ==
  ASSUME NEW start, NEW headers, NEW n \in Nat
  PROVE  \E f : IsKeying(f, start, headers, n)
<1> DEFINE S == {k \in 0..n : \E f : IsKeying(f, start, headers, k)}
<1>1. 0 \in S
  <2>1. IsKeying([i \in 0..0 |-> start], start, headers, 0)
    BY DEF IsKeying
  <2> QED BY <2>1
<1>2. ASSUME NEW k \in 0..(n - 1), k \in S
      PROVE  k + 1 \in S
  <2>1. PICK f : IsKeying(f, start, headers, k)
    BY <1>2
  <2>2. f = [i \in 0..k |-> IF i = 0 THEN start ELSE KeyFurther(f[i - 1], headers, i)]
    BY <2>1 DEF IsKeying
  <2> DEFINE g == [i \in 0..(k + 1) |-> IF i = k + 1 THEN KeyFurther(f[k], headers, k + 1)
           ELSE f[i]]
  <2>3. \A i \in 0..k : g[i] = f[i]
    OBVIOUS
  <2>4. ASSUME NEW i \in 0..(k + 1)
        PROVE  g[i] = IF i = 0 THEN start ELSE KeyFurther(g[i - 1], headers, i)
    <3>1. CASE i = k + 1
      <4>1. g[k] = f[k] /\ g[k + 1] = KeyFurther(f[k], headers, k + 1)
        BY <2>3
      <4> QED BY <3>1, <4>1
    <3>2. CASE i \in 1..k
      <4>1. f[i] = KeyFurther(f[i - 1], headers, i)
        BY <2>2, <3>2
      <4>2. g[i] = f[i] /\ g[i - 1] = f[i - 1]
        BY <2>3, <3>2
      <4> QED BY <3>2, <4>1, <4>2
    <3>3. CASE i = 0
      <4>1. f[0] = start
        BY <2>2
      <4> QED BY <2>3, <3>3, <4>1
    <3> QED BY <3>1, <3>2, <3>3
  <2>5. g = [i \in 0..(k + 1) |-> g[i]]
    OBVIOUS
  <2> HIDE DEF g
  <2>6. g = [i \in 0..(k + 1) |-> IF i = 0 THEN start ELSE KeyFurther(g[i - 1], headers, i)]
    BY <2>4, <2>5
  <2>7. IsKeying(g, start, headers, k + 1)
    BY <2>6 DEF IsKeying
  <2> QED BY <2>7
<1>3. 0..n \subseteq S
  <2> HIDE DEF S
  <2> QED BY <1>1, <1>2, UpTo
<1> QED BY <1>3

LEMMA KeyingValue ==
  ASSUME NEW start, NEW headers, NEW n \in Nat
  PROVE  /\ Keying(start, headers, n)[0] = start
         /\ \A i \in 1..n : Keying(start, headers, n)[i] =
             KeyFurther(Keying(start, headers, n)[i - 1], headers, i)
<1> DEFINE f == Keying(start, headers, n)
<1>1. \E h : IsKeying(h, start, headers, n)
  BY KeyingExists
<1>2. IsKeying(f, start, headers, n)
  BY <1>1, Zenon DEF Keying
<1>3. f = [i \in 0..n |-> IF i = 0 THEN start ELSE KeyFurther(f[i - 1], headers, i)]
  BY <1>2 DEF IsKeying
<1> HIDE DEF f
<1>4. f[0] = start /\ \A i \in 1..n : f[i] = KeyFurther(f[i - 1], headers, i)
  BY <1>3
<1> QED BY <1>4 DEF f


\* The key of a message is its lines: the method, the url, each header, and the body.
Ending(q) == ValueOr(q.body, "")
HeaderLine(h) == Around(h.name, Colon, h.value)
KeyLines(q) ==
  [i \in 0..(Len(q.headers) + 2) |->
     IF i = 0 THEN q.method ELSE IF i = 1 THEN q.url
     ELSE IF i = Len(q.headers) + 2 THEN Ending(q) ELSE HeaderLine(q.headers[i - 1])]
KeyStart(q) == Around(q.method, LineFeed, q.url) \o LineFeed
KeyUpTo(q) == Keying(KeyStart(q), q.headers, Len(q.headers))
KeyJoined(q) ==
  [i \in 0..(Len(q.headers) + 2) |->
     IF i = 0 THEN q.method ELSE IF i = 1 THEN Around(q.method, LineFeed, q.url)
     ELSE KeyUpTo(q)[i - 2] \o KeyLines(q)[i]]

\* A message whose lines are free of line feeds.
IsMessage(q) ==
  /\ q.method \in Texts /\ Free(q.method, LineFeed)
  /\ q.url \in Texts /\ Free(q.url, LineFeed)
  /\ q.headers \in Seq(Pairs)
  /\ \A i \in 1..Len(q.headers) :
       Free(q.headers[i].name, Colon) /\ Free(HeaderLine(q.headers[i]), LineFeed)
  /\ Ending(q) \in Texts /\ Free(Ending(q), LineFeed)

LEMMA MarksAre ==
  ASSUME TextsAreSequences
  PROVE  /\ LineFeed \in Texts /\ Len(LineFeed) = 1 /\ Colon \in Texts /\ Len(Colon) = 1
BY MarksAreTexts DEF Marks

LEMMA HeaderLineIsText ==
  ASSUME TextsAreSequences, NEW h \in Pairs
  PROVE  HeaderLine(h) \in Texts /\ h.name \in Texts /\ h.value \in Texts
<1>1. h.name \in Texts /\ h.value \in Texts
  BY DEF Pairs
<1> QED BY <1>1, MarksAre, AroundMark DEF HeaderLine

LEMMA FurtherLine ==
  ASSUME TextsAreSequences, NEW before \in Texts, NEW headers, NEW i, headers[i] \in Pairs
  PROVE  KeyFurther(before, headers, i) = (before \o HeaderLine(headers[i])) \o LineFeed
<1> DEFINE a == headers[i].name
           b == headers[i].value
<1>1. a \in Texts /\ b \in Texts
  BY HeaderLineIsText
<1>2. KeyFurther(before, headers, i) = (((before \o a) \o Colon) \o b) \o LineFeed
  BY Zenon DEF KeyFurther, Colon, LineFeed
<1>3. HeaderLine(headers[i]) = (a \o Colon) \o b
  BY DEF HeaderLine, Around
<1> HIDE DEF a, b
<1>4. (before \o a) \o Colon = before \o (a \o Colon)
  BY <1>1, MarksAre, TextsAssociate, SMTT(40)
<1>5. a \o Colon \in Texts
  BY <1>1, MarksAre, TextsJoin
<1>6. (before \o (a \o Colon)) \o b = before \o ((a \o Colon) \o b)
  BY <1>1, <1>5, TextsAssociate, SMTT(40)
<1> QED BY <1>2, <1>3, <1>4, <1>6

LEMMA KeyUpToIs ==
  ASSUME TextsAreSequences, NEW q, IsMessage(q)
  PROVE  /\ KeyUpTo(q)[0] = KeyStart(q)
         /\ \A i \in 0..Len(q.headers) : KeyUpTo(q)[i] \in Texts
         /\ \A i \in 1..Len(q.headers) :
              KeyUpTo(q)[i] = (KeyUpTo(q)[i - 1] \o HeaderLine(q.headers[i])) \o LineFeed
<1> DEFINE n == Len(q.headers)
           start == KeyStart(q)
           headers == q.headers
           x == KeyUpTo(q)
           S == {i \in 0..n : x[i] \in Texts}
<1>1. n \in Nat /\ \A i \in 1..n : headers[i] \in Pairs
  BY DEF IsMessage
<1>2. start \in Texts
  <2>1. Around(q.method, LineFeed, q.url) \in Texts
    BY MarksAre, AroundMark DEF IsMessage
  <2> QED BY <2>1, MarksAre, TextsJoin DEF KeyStart
<1>3. x = Keying(start, headers, n)
  BY DEF KeyUpTo
<1>h. headers = q.headers /\ n = Len(q.headers)
  OBVIOUS
<1> HIDE DEF n, start, headers, x
<1>4. x[0] = start
  BY <1>1, <1>3, KeyingValue
<1>5. \A i \in 1..n : x[i] = KeyFurther(x[i - 1], headers, i)
  BY <1>1, <1>3, KeyingValue
<1>6. 0 \in S
  BY <1>1, <1>2, <1>4
<1>7. ASSUME NEW i \in 0..(n - 1), i \in S
      PROVE  i + 1 \in S
  <2>1. i + 1 \in 1..n /\ (i + 1) - 1 = i /\ i + 1 \in 0..n
    BY <1>1
  <2>2. x[i + 1] = KeyFurther(x[i], headers, i + 1)
    BY <1>5, <2>1
  <2>3. x[i] \in Texts /\ headers[i + 1] \in Pairs
    BY <1>1, <1>7, <2>1
  <2>4. KeyFurther(x[i], headers, i + 1) = (x[i] \o HeaderLine(headers[i + 1])) \o LineFeed
    BY <2>3, FurtherLine
  <2>5. HeaderLine(headers[i + 1]) \in Texts
    BY <2>3, HeaderLineIsText
  <2>6. x[i] \o HeaderLine(headers[i + 1]) \in Texts
    BY <2>3, <2>5, TextsJoin
  <2>7. (x[i] \o HeaderLine(headers[i + 1])) \o LineFeed \in Texts
    BY <2>6, MarksAre, TextsJoin
  <2> QED BY <2>1, <2>2, <2>4, <2>7
<1>8. 0..n \subseteq S
  <2> HIDE DEF S
  <2> QED BY <1>1, <1>6, <1>7, UpTo
<1>9. \A i \in 0..n : x[i] \in Texts
  BY <1>8
<1>10. \A i \in 1..n : x[i] = (x[i - 1] \o HeaderLine(headers[i])) \o LineFeed
  <2> TAKE i \in 1..n
  <2>1. i - 1 \in 0..n
    BY <1>1
  <2>2. x[i - 1] \in Texts /\ headers[i] \in Pairs
    BY <1>1, <1>9, <2>1
  <2> QED BY <1>5, <2>2, FurtherLine
<1> QED BY <1>h, <1>4, <1>9, <1>10 DEF start, x

LEMMA KeyIsItsLines ==
  ASSUME TextsAreSequences, NEW q, IsMessage(q)
  PROVE  RequestKey(q) = KeyJoined(q)[Len(q.headers) + 2]
<1> DEFINE n == Len(q.headers)
           none == ""
<1>1. n \in Nat
  BY DEF IsMessage
<1>2. RequestKey(q) =
         Keying(((q.method \o "\n") \o q.url) \o "\n", q.headers, n)[n] \o ValueOr(q.body, "")
  BY DEF RequestKey, Keying, IsKeying, KeyFurther
<1>3. ((q.method \o "\n") \o q.url) \o "\n" = KeyStart(q)
  BY DEF KeyStart, Around, LineFeed
<1>4. RequestKey(q) = KeyUpTo(q)[n] \o Ending(q)
  BY <1>2, <1>3, Zenon DEF KeyUpTo, Ending
<1>5. n + 2 \in 0..(n + 2) /\ n + 2 # 0 /\ n + 2 # 1 /\ (n + 2) - 2 = n
  BY <1>1
<1>6. KeyLines(q)[n + 2] = Ending(q)
  BY <1>5 DEF KeyLines
<1>7. KeyJoined(q)[n + 2] = KeyUpTo(q)[n] \o KeyLines(q)[n + 2]
  BY <1>5 DEF KeyJoined
<1> QED BY <1>4, <1>6, <1>7

LEMMA KeyLinesAreLines ==
  ASSUME TextsAreSequences, NEW q, IsMessage(q)
  PROVE  AreLines(KeyLines(q), Len(q.headers) + 2)
<1> DEFINE n == Len(q.headers)
<1>1. n \in Nat /\ \A i \in 1..n : q.headers[i] \in Pairs
  BY DEF IsMessage
<1> SUFFICES ASSUME NEW i \in 0..(n + 2)
             PROVE  KeyLines(q)[i] \in Texts /\ Free(KeyLines(q)[i], LineFeed)
  BY DEF AreLines
<1>2. CASE i = 0
  <2>1. KeyLines(q)[i] = q.method
    BY <1>2 DEF KeyLines
  <2> QED BY <2>1 DEF IsMessage
<1>3. CASE i = 1
  <2>1. KeyLines(q)[i] = q.url
    BY <1>3 DEF KeyLines
  <2> QED BY <2>1 DEF IsMessage
<1>4. CASE i = n + 2
  <2>1. KeyLines(q)[i] = Ending(q)
    BY <1>1, <1>4 DEF KeyLines
  <2> QED BY <2>1 DEF IsMessage
<1>5. CASE i # 0 /\ i # 1 /\ i # n + 2
  <2>1. i - 1 \in 1..n
    BY <1>1, <1>5
  <2>2. KeyLines(q)[i] = HeaderLine(q.headers[i - 1])
    BY <1>5 DEF KeyLines
  <2>3. HeaderLine(q.headers[i - 1]) \in Texts
    BY <1>1, <2>1, HeaderLineIsText
  <2> QED BY <2>1, <2>2, <2>3 DEF IsMessage
<1> QED BY <1>2, <1>3, <1>4, <1>5

LEMMA KeyJoinedIsJoined ==
  ASSUME TextsAreSequences, NEW q, IsMessage(q)
  PROVE  AreJoined(KeyJoined(q), KeyLines(q), Len(q.headers) + 2)
<1> DEFINE n == Len(q.headers)
           f == KeyJoined(q)
           l == KeyLines(q)
           x == KeyUpTo(q)
<1>1. n \in Nat
  BY DEF IsMessage
<1>2. f[0] = q.method /\ l[0] = q.method
  BY <1>1 DEF KeyJoined, KeyLines
<1>3. f[1] = Around(q.method, LineFeed, q.url) /\ l[1] = q.url
  BY <1>1 DEF KeyJoined, KeyLines
<1>4. \A i \in 2..(n + 2) : f[i] = x[i - 2] \o l[i]
  <2> TAKE i \in 2..(n + 2)
  <2>1. i \in 0..(n + 2) /\ i # 0 /\ i # 1
    BY <1>1
  <2> QED BY <2>1 DEF KeyJoined
<1>5. \A i \in 2..(n + 1) : l[i] = HeaderLine(q.headers[i - 1])
  BY <1>1 DEF KeyLines
<1>6. x[0] = KeyStart(q)
  BY KeyUpToIs
<1>7. \A i \in 1..n : x[i] = (x[i - 1] \o HeaderLine(q.headers[i])) \o LineFeed
  BY KeyUpToIs
<1> HIDE DEF n, f, l, x
<1>8. ASSUME NEW i \in 1..(n + 2)
      PROVE  f[i] = Around(f[i - 1], LineFeed, l[i])
  <2>1. CASE i = 1
    BY <1>2, <1>3, <2>1
  <2>2. CASE i = 2
    <3>1. f[2] = x[0] \o l[2]
      <4>1. 2 \in 2..(n + 2) /\ 2 - 2 = 0
        BY <1>1
      <4> QED BY <1>4, <4>1
    <3>2. f[2] = (f[1] \o LineFeed) \o l[2]
      BY <1>3, <1>6, <3>1 DEF KeyStart
    <3> QED BY <2>2, <3>2 DEF Around
  <2>3. CASE i \in 3..(n + 2)
    <3> DEFINE j == i - 2
    <3>1. j \in 1..n /\ i - 1 \in 2..(n + 2) /\ i - 1 \in 2..(n + 1) /\ i \in 2..(n + 2)
          /\ (i - 1) - 2 = j - 1 /\ (i - 1) - 1 = j /\ i - 2 = j
      BY <1>1, <2>3
    <3> HIDE DEF j
    <3>2. f[i] = x[j] \o l[i]
      BY <1>4, <3>1
    <3>3. f[i - 1] = x[j - 1] \o l[i - 1]
      BY <1>4, <3>1
    <3>4. l[i - 1] = HeaderLine(q.headers[j])
      BY <1>5, <3>1
    <3>5. x[j] = f[i - 1] \o LineFeed
      BY <1>7, <3>1, <3>3, <3>4
    <3> QED BY <3>2, <3>5 DEF Around
  <2>4. i = 1 \/ i = 2 \/ i \in 3..(n + 2)
    BY <1>1
  <2> QED BY <2>1, <2>2, <2>3, <2>4
<1> QED BY <1>2, <1>8 DEF AreJoined, n, f, l

LEMMA HeaderLineIsRead ==
  ASSUME TextsAreSequences, NEW g \in Pairs, NEW h \in Pairs,
         Free(g.name, Colon), Free(h.name, Colon), HeaderLine(g) = HeaderLine(h)
  PROVE  g = h
<1>1. g.name \in Texts /\ g.value \in Texts /\ h.name \in Texts /\ h.value \in Texts
  BY HeaderLineIsText
<1>2. Around(g.name, Colon, g.value) = Around(h.name, Colon, h.value)
  BY DEF HeaderLine
<1>3. g.name = h.name /\ g.value = h.value
  BY <1>1, <1>2, MarksAre, SplitAtFirst
<1> QED BY <1>3 DEF Pairs

\* A key can be read in one way only: messages of one key are the same.
LEMMA KeyIsRead ==
  ASSUME TextsAreSequences, NEW q, IsMessage(q), NEW r, IsMessage(r), RequestKey(q) = RequestKey(r)
  PROVE  /\ q.method = r.method /\ q.url = r.url
         /\ q.headers = r.headers /\ Ending(q) = Ending(r)
<1> DEFINE n == Len(q.headers) + 2
           m == Len(r.headers) + 2
           l == KeyLines(q)
           k == KeyLines(r)
           f == KeyJoined(q)
           g == KeyJoined(r)
<1>1. n \in Nat /\ m \in Nat /\ n >= 2 /\ m >= 2
  BY DEF IsMessage
<1>2. f[n] = g[m]
  BY KeyIsItsLines
<1>3. AreLines(l, n) /\ AreJoined(f, l, n) /\ AreLines(k, m) /\ AreJoined(g, k, m)
  BY KeyLinesAreLines, KeyJoinedIsJoined
<1>l. l[0] = q.method /\ l[1] = q.url /\ l[n] = Ending(q)
      /\ \A i \in 1..Len(q.headers) : l[i + 1] = HeaderLine(q.headers[i])
  BY <1>1 DEF KeyLines
<1>k. k[0] = r.method /\ k[1] = r.url /\ k[m] = Ending(r)
      /\ \A i \in 1..Len(r.headers) : k[i + 1] = HeaderLine(r.headers[i])
  BY <1>1 DEF KeyLines
<1> HIDE DEF l, k, f, g
<1>4. n = m /\ \A i \in 0..n : l[i] = k[i]
  <2> HIDE DEF n, m
  <2> QED BY <1>1, <1>2, <1>3, LinesAreRead
<1>5. Len(q.headers) = Len(r.headers) /\ Len(q.headers) \in Nat
  BY <1>4 DEF IsMessage
<1>6. \A i \in 1..Len(q.headers) : q.headers[i] = r.headers[i]
  <2> TAKE i \in 1..Len(q.headers)
  <2>1. i + 1 \in 0..n
    BY <1>5
  <2>2. HeaderLine(q.headers[i]) = HeaderLine(r.headers[i])
    BY <1>l, <1>k, <1>4, <1>5, <2>1
  <2>3. q.headers[i] \in Pairs /\ Free(q.headers[i].name, Colon)
    BY DEF IsMessage
  <2>4. r.headers[i] \in Pairs /\ Free(r.headers[i].name, Colon)
    BY <1>5 DEF IsMessage
  <2> QED BY <2>2, <2>3, <2>4, HeaderLineIsRead
<1>7. q.headers \in Seq(Pairs) /\ r.headers \in Seq(Pairs)
  BY DEF IsMessage
<1>8. q.headers = r.headers
  BY <1>5, <1>6, <1>7, SameSequence
<1>9. 0 \in 0..n /\ 1 \in 0..n /\ n \in 0..n
  BY <1>1
<1>10. q.method = r.method /\ q.url = r.url /\ Ending(q) = Ending(r)
  BY <1>l, <1>k, <1>4, <1>9
<1> QED BY <1>8, <1>10

LEMMA PreparedIsMessage ==
  ASSUME TextsAreSequences, NEW c, IsConfiguration(c), PoliciesAreValid(c), NEW spec, IsCall(spec),
         NEW q, q = Prepare(c, spec), ~IsInvalid(q), OnItsLines(q)
  PROVE  IsMessage(q) /\ q.body = spec.body
<1>1. q.method = spec.method /\ q.body = spec.body /\ q.url \in Texts /\ q.headers \in Seq(Pairs)
  BY PreparedMessage
<1>m. LineFeed \in Marks /\ Colon \in Marks
  BY DEF Marks
<1>2. q.method \in Texts /\ Free(q.method, LineFeed)
  <2>1. q.method \in Texts /\ LineFeed \notin Characters(q.method)
    BY <1>1 DEF IsCall, Texts, LineFeed
  <2> QED BY <1>m, <2>1, FreeOfCharacter
<1>3. Free(q.url, LineFeed)
  <2>1. LineFeed \notin Characters(q.url)
    BY DEF OnItsLines, LineFeed
  <2> QED BY <1>1, <1>m, <2>1, FreeOfCharacter
<1>4. ASSUME NEW i \in 1..Len(q.headers)
      PROVE  Free(q.headers[i].name, Colon) /\ Free(HeaderLine(q.headers[i]), LineFeed)
  <2> DEFINE h == q.headers[i]
             a == h.name
             b == h.value
  <2>1. h \in Pairs
    BY <1>1
  <2>2. a \in Texts /\ b \in Texts
    BY <2>1, HeaderLineIsText
  <2>3. IsHeader(h)
    BY DEF OnItsLines, All
  <2>4. LineFeed \notin Characters(a) /\ Colon \notin Characters(a) /\ LineFeed \notin Characters(b)
    BY <2>3 DEF IsHeader, IsHeaderName, Breaks, LineFeed, Colon
  <2> HIDE DEF a, b
  <2>5. Free(a, LineFeed) /\ Free(a, Colon) /\ Free(b, LineFeed)
    BY <1>m, <2>2, <2>4, FreeOfCharacter
  <2>6. a \o Colon \in Texts /\ Free(a \o Colon, LineFeed)
    BY <2>2, <2>5, MarksAre, TextsJoin, FreeTogether, OtherMarkIsFree
  <2>7. Free((a \o Colon) \o b, LineFeed)
    BY <2>2, <2>5, <2>6, FreeTogether
  <2> QED BY <2>5, <2>7 DEF HeaderLine, Around, a, b
<1>5. Ending(q) \in Texts /\ Free(Ending(q), LineFeed)
  <2>1. CASE spec.body = <<>>
    <3> DEFINE none == ""
    <3>1. Ending(q) = none
      BY <1>1, <2>1 DEF Ending, ValueOr
    <3>2. none \in Texts
      BY EmptyText, Zenon
    <3>3. Len(none) = 0
      BY Zenon DEF TextsAreSequences
    <3> HIDE DEF none
    <3>4. Free(none, LineFeed)
      BY <3>3 DEF Free
    <3> QED BY <3>1, <3>2, <3>4
  <2>2. CASE spec.body # <<>>
    <3>1. Ending(q) = spec.body[1]
      BY <1>1, <2>2 DEF Ending, ValueOr
    <3>2. spec.body[1] \in Texts /\ LineFeed \notin Characters(spec.body[1])
      BY <2>2 DEF IsCall, Texts, LineFeed
    <3> QED BY <1>m, <3>1, <3>2, FreeOfCharacter
  <2> QED BY <2>1, <2>2
<1> QED BY <1>1, <1>2, <1>3, <1>4, <1>5 DEF IsMessage

LEMMA SameBody ==
  ASSUME NEW spec, IsCall(spec), NEW other, IsCall(other),
         ValueOr(spec.body, "") = ValueOr(other.body, "")
  PROVE  spec.body = other.body
<1>1. spec.body = <<>> \/ (spec.body = <<spec.body[1]>> /\ spec.body[1] # "")
  BY DEF IsCall
<1>2. other.body = <<>> \/ (other.body = <<other.body[1]>> /\ other.body[1] # "")
  BY DEF IsCall
<1> DEFINE a == spec.body[1]
           b == other.body[1]
<1>3. spec.body = <<>> => ValueOr(spec.body, "") = ""
  BY Zenon DEF ValueOr
<1>4. other.body = <<>> => ValueOr(other.body, "") = ""
  BY Zenon DEF ValueOr
<1>5. spec.body # <<>> => ValueOr(spec.body, "") = a
  BY Zenon DEF ValueOr
<1>6. other.body # <<>> => ValueOr(other.body, "") = b
  BY Zenon DEF ValueOr
<1> HIDE DEF a, b
<1>7. (spec.body = <<>>) = (other.body = <<>>)
  BY <1>1, <1>2, <1>3, <1>4, <1>5, <1>6, Zenon DEF a, b
<1>8. spec.body # <<>> => a = b
  BY <1>5, <1>6, <1>7
<1> QED BY <1>1, <1>2, <1>7, <1>8, Zenon DEF a, b

LEMMA RequestIsCall ==
  ASSUME ExchangeInv, NEW i \in 1..Len(requests)
  PROVE  IsCall(requests[i].call.spec)
BY InputsAssumption DEF ExchangeInv, IsRequest

\* Requests that share an exchange have the same message: NetworkEngine::requestKey tells any two
\* messages without stray line feeds apart.  That strings are sequences of characters, and these
\* literals among them, is TLA+'s definition of a string, which the provers do not know.
THEOREM SharedMessagesAreOwn ==
  TextsAreSequences => (ExchangeSpec => []SharedExchangeIsOwnExchange)
<1> SUFFICES ASSUME TextsAreSequences
             PROVE  ExchangeSpec => []SharedExchangeIsOwnExchange
  OBVIOUS
<1>1. ExchangeInv => SharedExchangeIsOwnExchange
  <2> SUFFICES ASSUME ExchangeInv, NEW i \in DOMAIN requests, NEW own, NEW opened, NEW x,
                      x = requests[i].exchange, x # NoExchange,
                      own = Prepare(configuration, requests[i].call.spec),
                      opened = exchanges[x].prepared, OnItsLines(own), OnItsLines(opened)
               PROVE  \A field \in {"method", "url", "headers", "body"} : own[field] = opened[field]
    BY DEF SharedExchangeIsOwnExchange
  <2>1. i \in 1..Len(requests) /\ IsRequest(requests[i])
    BY DEF ExchangeInv, IsList
  <2>2. x \in 1..Len(exchanges) /\ TakesPart(requests[i].call.spec, x)
    BY <2>1 DEF IsRequest, NoExchange, ExchangeInv, IsList
  <2>3. ~IsInvalid(own) /\ RequestKey(own) = RequestKey(opened)
    BY <2>2 DEF TakesPart
  <2>4. PICK k \in 1..Len(requests) : IsOpenedBy(x, requests[k].call.spec)
    BY <2>2 DEF ExchangeInv, IsExchange
  <2>5. opened = Prepare(configuration, requests[k].call.spec) /\ ~IsInvalid(opened)
    BY <2>4 DEF IsOpenedBy
  <2>6. IsConfiguration(configuration) /\ PoliciesAreValid(configuration)
    <3>1. requests # <<>>
      BY <2>1, EmptyList
    <3> QED BY <3>1, ConfigurationIsLoaded DEF ExchangeInv
  <2> DEFINE spec == requests[i].call.spec
             other == requests[k].call.spec
  <2>7. IsCall(spec) /\ IsCall(other)
    BY <2>1, RequestIsCall
  <2>8. own = Prepare(configuration, spec) /\ opened = Prepare(configuration, other)
    BY <2>5
  <2> HIDE DEF spec, other
  <2>9. IsMessage(own) /\ own.body = spec.body
    BY <2>3, <2>6, <2>7, <2>8, PreparedIsMessage
  <2>10. IsMessage(opened) /\ opened.body = other.body
    BY <2>5, <2>6, <2>7, <2>8, PreparedIsMessage
  <2>11. /\ own.method = opened.method /\ own.url = opened.url
         /\ own.headers = opened.headers /\ Ending(own) = Ending(opened)
    BY <2>3, <2>9, <2>10, KeyIsRead
  <2>12. own.body = opened.body
    <3>1. ValueOr(spec.body, "") = ValueOr(other.body, "")
      BY <2>9, <2>10, <2>11, Zenon DEF Ending
    <3>2. spec.body = other.body
      BY <2>7, <3>1, SameBody, Zenon
    <3> QED BY <2>9, <2>10, <3>2
  <2> QED BY <2>11, <2>12
<1> QED BY <1>1, ExchangeInvariance, PTL


-----------------------------------------------------------------------------
(* The integers.  That the checks of evaluateArithmetic are exact, for     *)
(* every width: each check of a multiplication compares with a quotient,   *)
(* and the lemmas on Quotient turn such a comparison into one with the     *)
(* product.                                                                *)

\* An operation is refused for an overflow exactly when its result is not an int64_t:
\* no wrong result gets through, and no right one is refused.
OverflowIsCaught ==
  \A a, b \in Represented, operation \in CheckedOperators :
    ~(operation = "Divide" /\ b = 0) =>
      (Overflows(a, operation, b) <=> Exact(a, operation, b) \notin Represented)

\* What the checks compute on their way is an int64_t itself: they do not overflow, and
\* the only division that would, of the least number by -1, they have excluded before.
ChecksDoNotOverflow ==
  \A b \in Represented :
    /\ b > 0 => {Maximum - b, Minimum + b, Quotient(Maximum, b), Quotient(Minimum, b)} \subseteq Represented
    /\ b < 0 => {Minimum - b, Maximum + b, Quotient(Maximum, b)} \subseteq Represented

\* Division goes towards zero: what remains is smaller than the divisor and has the
\* sign of the dividend.
DivisionTruncates ==
  \A a \in Represented, b \in Represented \ {0} :
    LET rest == a - Quotient(a, b) * b
    IN /\ IF b > 0 THEN -b < rest /\ rest < b ELSE b < rest /\ rest < -b
       /\ (a >= 0 => rest >= 0) /\ (a <= 0 => rest <= 0)

-----------------------------------------------------------------------------
(* The integers: natural numbers.                                          *)

\* What a division leaves is smaller than the divisor.
LEMMA Division ==
  ASSUME NEW a \in Nat, NEW b \in Nat \ {0}
  PROVE  /\ a \div b \in Nat
         /\ b * (a \div b) <= a
         /\ a < b * (a \div b) + b
BY SMT

\* A number is beyond a quotient exactly when its product is beyond the dividend.
LEMMA BeyondQuotient ==
  ASSUME NEW a \in Nat, NEW b \in Nat \ {0}, NEW n \in Nat
  PROVE  n > a \div b <=> n * b > a
<1> DEFINE d == a \div b
<1>1. d \in Nat /\ b * d <= a /\ a < b * d + b
  BY Division
<1> HIDE DEF d
<1>2. CASE n <= d
  <2>1. n * b <= b * d
    BY <1>1, <1>2
  <2> QED BY <2>1, <1>1, <1>2 DEF d
<1>3. CASE n > d
  <2>1. n * b >= (d + 1) * b
    BY <1>1, <1>3
  <2> QED BY <2>1, <1>1, <1>3 DEF d
<1> QED BY <1>1, <1>2, <1>3

\* No quotient is greater than its dividend, and none but that by 1 is as great.
LEMMA QuotientIsSmaller ==
  ASSUME NEW a \in Nat, NEW b \in Nat \ {0}
  PROVE  a \div b \in 0..a /\ (a > 0 /\ b > 1 => a \div b < a)
<1> DEFINE d == a \div b
<1>1. d \in Nat /\ b * d <= a
  BY Division
<1> HIDE DEF d
<1>2. b * d >= d /\ (b > 1 => b * d >= 2 * d)
  BY <1>1
<1> QED BY <1>1, <1>2 DEF d

-----------------------------------------------------------------------------
(* The integers: quotients.                                                *)

\* The signs of a quotient, case by case.
LEMMA QuotientSigns ==
  ASSUME NEW a \in Nat, NEW b \in Nat \ {0}
  PROVE  /\ Quotient(a, b) = a \div b
         /\ Quotient(a, -b) = -(a \div b)
         /\ a > 0 => Quotient(-a, b) = -(a \div b)
         /\ a > 0 => Quotient(-a, -b) = a \div b
<1>1. a \div b \in Nat
  BY Division
<1>2. -(-a) = a /\ -(-b) = b /\ ~(a < 0) /\ ~(b < 0) /\ -b < 0 /\ (a > 0 => -a < 0)
  OBVIOUS
<1> QED BY <1>1, <1>2 DEF Quotient

\* The range of the integers, as bounds.
LEMMA Bounds ==
  ASSUME NEW n \in Int
  PROVE  /\ n \in Represented <=> -Maximum - 1 <= n /\ n <= Maximum
         /\ Maximum \in Nat /\ Maximum >= 1 /\ Minimum = -(Maximum + 1)
BY MaximumIsPositive DEF Represented, Minimum

\* Quotients of integers are integers, and fit unless the least one is divided by -1.
LEMMA QuotientFits ==
  ASSUME NEW a \in Represented, NEW b \in Represented \ {0}
  PROVE  /\ Quotient(a, b) \in Int
         /\ Quotient(a, b) \in Represented <=> ~(a = Minimum /\ b = -1)
<1>1. a \in Int /\ b \in Int /\ b # 0 /\ Minimum \in Int
  BY MaximumIsPositive DEF Represented, Minimum
<1>2. /\ -Maximum - 1 <= a /\ a <= Maximum /\ Maximum \in Nat /\ Maximum >= 1
      /\ Minimum = -(Maximum + 1)
  BY <1>1, Bounds
<1> DEFINE Size(n) == IF n < 0 THEN -n ELSE n
<1>3. Size(a) \in Nat /\ Size(b) \in Nat \ {0}
  BY <1>1
<1> DEFINE q == Size(a) \div Size(b)
<1>4. q \in 0..Size(a) /\ (Size(a) > 0 /\ Size(b) > 1 => q < Size(a))
  BY <1>3, QuotientIsSmaller
<1>5. Quotient(a, b) = IF (a < 0) # (b < 0) THEN -q ELSE q
  BY DEF Quotient
<1>6. Size(b) = 1 => q = Size(a)
  <2>1. ASSUME Size(b) = 1 PROVE 1 * q <= Size(a) /\ Size(a) < 1 * q + 1
    BY <1>3, <2>1, Division
  <2> QED BY <2>1, <1>3, <1>4
<1> HIDE DEF q
<1>7. Quotient(a, b) \in Int
  BY <1>3, <1>4, <1>5
<1>8. Quotient(a, b) \in Represented <=> -Maximum - 1 <= Quotient(a, b) /\ Quotient(a, b) <= Maximum
  BY <1>7, Bounds
<1> QED BY <1>1, <1>2, <1>3, <1>4, <1>5, <1>6, <1>7, <1>8

-----------------------------------------------------------------------------
(* The integers: the checks.                                               *)

\* The check of a multiplication, one pair of signs after the other.
LEMMA MultiplicationIsExact ==
  ASSUME NEW a \in Represented, NEW b \in Represented
  PROVE  Overflows(a, "Multiply", b) <=> a * b \notin Represented
<1>1. a \in Int /\ b \in Int /\ a * b \in Int
  BY MaximumIsPositive DEF Represented, Minimum
<1>2. /\ -Maximum - 1 <= a /\ a <= Maximum /\ -Maximum - 1 <= b /\ b <= Maximum
      /\ Maximum \in Nat /\ Maximum >= 1 /\ Minimum = -(Maximum + 1)
  BY <1>1, Bounds
<1>3. a * b \in Represented <=> -Maximum - 1 <= a * b /\ a * b <= Maximum
  BY <1>1, Bounds
<1>4. Overflows(a, "Multiply", b) <=>
        /\ a # 0 /\ b # 0
        /\ \/ (a = -1 /\ b = Minimum) \/ (b = -1 /\ a = Minimum)
           \/ a > 0 /\ b > 0 /\ a > Quotient(Maximum, b)
           \/ a > 0 /\ b < 0 /\ b < Quotient(Minimum, a)
           \/ a < 0 /\ b > 0 /\ a < Quotient(Minimum, b)
           \/ a < 0 /\ b < 0 /\ a < Quotient(Maximum, b)
  BY DEF Overflows
<1>5. CASE a = 0 \/ b = 0
  <2>1. a * b = 0
    BY <1>1, <1>5
  <2> QED BY <2>1, <1>2, <1>3, <1>4, <1>5
<1>6. CASE a > 0 /\ b > 0
  <2>1. a \in Nat /\ b \in Nat \ {0} /\ a * b >= 0
    BY <1>1, <1>6
  <2>2. Quotient(Maximum, b) = Maximum \div b
    BY <1>2, <2>1, QuotientSigns
  <2>3. a > Maximum \div b <=> a * b > Maximum
    BY <1>2, <2>1, BeyondQuotient
  <2> QED BY <1>1, <1>2, <1>3, <1>4, <1>6, <2>1, <2>2, <2>3
<1>7. CASE a > 0 /\ b < 0
  <2>1. a \in Nat \ {0} /\ -b \in Nat /\ Maximum + 1 \in Nat /\ Maximum + 1 > 0
    BY <1>1, <1>2, <1>7
  <2>2. Quotient(Minimum, a) = -((Maximum + 1) \div a)
    BY <1>2, <2>1, QuotientSigns
  <2>3. -b > (Maximum + 1) \div a <=> (-b) * a > Maximum + 1
    BY <2>1, BeyondQuotient
  <2>4. (Maximum + 1) \div a \in Nat
    BY <2>1, Division
  <2>5. (-b) * a = -(a * b) /\ a * b < 0
    BY <1>1, <1>7
  <2> QED BY <1>1, <1>2, <1>3, <1>4, <1>7, <2>2, <2>3, <2>4, <2>5
<1>8. CASE a < 0 /\ b > 0
  <2>1. b \in Nat \ {0} /\ -a \in Nat /\ Maximum + 1 \in Nat /\ Maximum + 1 > 0
    BY <1>1, <1>2, <1>8
  <2>2. Quotient(Minimum, b) = -((Maximum + 1) \div b)
    BY <1>2, <2>1, QuotientSigns
  <2>3. -a > (Maximum + 1) \div b <=> (-a) * b > Maximum + 1
    BY <2>1, BeyondQuotient
  <2>4. (Maximum + 1) \div b \in Nat
    BY <2>1, Division
  <2>5. (-a) * b = -(a * b) /\ a * b < 0
    BY <1>1, <1>8
  <2> QED BY <1>1, <1>2, <1>3, <1>4, <1>8, <2>2, <2>3, <2>4, <2>5
<1>9. CASE a < 0 /\ b < 0
  <2>1. -b \in Nat \ {0} /\ -a \in Nat
    BY <1>1, <1>9
  <2>2. Quotient(Maximum, b) = -(Maximum \div (-b))
    <3>1. b = -(-b)
      BY <1>1
    <3> QED BY <1>2, <2>1, <3>1, QuotientSigns
  <2>3. -a > Maximum \div (-b) <=> (-a) * (-b) > Maximum
    BY <1>2, <2>1, BeyondQuotient
  <2>4. Maximum \div (-b) \in Nat
    BY <1>2, <2>1, Division
  <2>5. (-a) * (-b) = a * b /\ a * b > 0
    BY <1>1, <1>9
  <2>6. (a = -1 => a * b = -b) /\ (b = -1 => a * b = -a)
    BY <1>1
  <2> QED BY <1>1, <1>2, <1>3, <1>4, <1>9, <2>2, <2>3, <2>4, <2>5, <2>6
<1> QED BY <1>1, <1>5, <1>6, <1>7, <1>8, <1>9

\* What evaluateArithmetic refuses for an overflow is what does not fit, for every
\* operation, all operands and every width.
THEOREM OverflowIsCaughtTheorem == OverflowIsCaught
<1> SUFFICES ASSUME NEW a \in Represented, NEW b \in Represented, NEW operation \in CheckedOperators,
                    ~(operation = "Divide" /\ b = 0)
             PROVE  Overflows(a, operation, b) <=> Exact(a, operation, b) \notin Represented
  BY DEF OverflowIsCaught
<1>1. a \in Int /\ b \in Int
  BY MaximumIsPositive DEF Represented, Minimum
<1>2. /\ -Maximum - 1 <= a /\ a <= Maximum /\ -Maximum - 1 <= b /\ b <= Maximum
      /\ Maximum \in Nat /\ Maximum >= 1 /\ Minimum = -(Maximum + 1)
  BY <1>1, Bounds
<1>3. CASE operation = "Add"
  <2>1. a + b \in Represented <=> -Maximum - 1 <= a + b /\ a + b <= Maximum
    BY <1>1, Bounds
  <2> QED BY <1>1, <1>2, <1>3, <2>1 DEF Overflows, Exact
<1>4. CASE operation = "Subtract"
  <2>1. a - b \in Represented <=> -Maximum - 1 <= a - b /\ a - b <= Maximum
    BY <1>1, Bounds
  <2> QED BY <1>1, <1>2, <1>4, <2>1 DEF Overflows, Exact
<1>5. CASE operation = "Multiply"
  BY <1>5, MultiplicationIsExact DEF Exact
<1>6. CASE operation = "Divide"
  <2>1. b # 0
    BY <1>6
  <2>2. Quotient(a, b) \in Represented <=> ~(a = Minimum /\ b = -1)
    BY <2>1, QuotientFits
  <2> QED BY <1>6, <2>2 DEF Overflows, Exact
<1>7. CASE operation = "Negate"
  <2>1. -b \in Represented <=> -Maximum - 1 <= -b /\ -b <= Maximum
    BY <1>1, Bounds
  <2> QED BY <1>1, <1>2, <1>7, <2>1 DEF Overflows, Exact
<1> QED BY <1>3, <1>4, <1>5, <1>6, <1>7 DEF CheckedOperators

\* The checks of evaluateArithmetic do not overflow themselves: a signed overflow in one
\* of them would be undefined.
THEOREM ChecksDoNotOverflowTheorem == ChecksDoNotOverflow
<1> SUFFICES ASSUME NEW b \in Represented
             PROVE  /\ b > 0 => {Maximum - b, Minimum + b, Quotient(Maximum, b), Quotient(Minimum, b)}
                                  \subseteq Represented
                    /\ b < 0 => {Minimum - b, Maximum + b, Quotient(Maximum, b)} \subseteq Represented
  BY DEF ChecksDoNotOverflow
<1>1. b \in Int /\ Maximum \in Int /\ Minimum \in Int
  BY MaximumIsPositive DEF Represented, Minimum
<1>2. /\ -Maximum - 1 <= b /\ b <= Maximum /\ Maximum \in Nat /\ Maximum >= 1
      /\ Minimum = -(Maximum + 1)
  BY <1>1, Bounds
<1>3. Maximum \in Represented /\ Minimum \in Represented
  BY <1>1, <1>2, Bounds
<1>4. b > 0 => Maximum - b \in Represented /\ Minimum + b \in Represented
  BY <1>1, <1>2 DEF Represented
<1>5. b < 0 => Minimum - b \in Represented /\ Maximum + b \in Represented
  BY <1>1, <1>2 DEF Represented
<1>6. b # 0 => Quotient(Maximum, b) \in Represented
  <2>1. Maximum # Minimum
    BY <1>2
  <2> QED BY <1>3, <2>1, QuotientFits
<1>7. b > 0 => Quotient(Minimum, b) \in Represented
  <2>1. b > 0 => b # 0 /\ b # -1
    BY <1>1
  <2> QED BY <1>3, <2>1, QuotientFits
<1> QED BY <1>1, <1>4, <1>5, <1>6, <1>7

\* A quotient is the one of C++: what remains is smaller than the divisor and has the
\* sign of the dividend.
THEOREM DivisionTruncatesTheorem == DivisionTruncates
<1> SUFFICES ASSUME NEW a \in Represented, NEW b \in Represented \ {0}
             PROVE  LET rest == a - Quotient(a, b) * b
                    IN /\ IF b > 0 THEN -b < rest /\ rest < b ELSE b < rest /\ rest < -b
                       /\ (a >= 0 => rest >= 0) /\ (a <= 0 => rest <= 0)
  BY DEF DivisionTruncates
<1>1. a \in Int /\ b \in Int /\ b # 0
  BY MaximumIsPositive DEF Represented, Minimum
<1> DEFINE Size(n) == IF n < 0 THEN -n ELSE n
           q == Size(a) \div Size(b)
           p == Size(b) * q
<1>2. Size(a) \in Nat /\ Size(b) \in Nat \ {0}
  BY <1>1
<1>3. q \in Nat /\ p <= Size(a) /\ Size(a) < p + Size(b)
  BY <1>2, Division
<1>4. Quotient(a, b) = IF (a < 0) # (b < 0) THEN -q ELSE q
  BY DEF Quotient
<1> HIDE DEF q
<1>5. Quotient(a, b) * b = IF a < 0 THEN -p ELSE p
  <2>1. CASE a < 0 /\ b < 0
    BY <1>1, <1>3, <1>4, <2>1
  <2>2. CASE a < 0 /\ ~(b < 0)
    BY <1>1, <1>3, <1>4, <2>2
  <2>3. CASE ~(a < 0) /\ b < 0
    BY <1>1, <1>3, <1>4, <2>3
  <2>4. CASE ~(a < 0) /\ ~(b < 0)
    BY <1>1, <1>3, <1>4, <2>4
  <2> QED BY <2>1, <2>2, <2>3, <2>4
<1>6. p \in Nat
  BY <1>2, <1>3
<1> HIDE DEF p
<1>7. CASE a < 0
  BY <1>1, <1>3, <1>5, <1>6, <1>7
<1>8. CASE ~(a < 0)
  BY <1>1, <1>3, <1>5, <1>6, <1>8
<1> QED BY <1>7, <1>8
=================================================================================
