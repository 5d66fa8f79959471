------------------------------ MODULE ListProofs ------------------------------
(***************************************************************************)
(* Lists of any length.  The library's theorem of induction takes an       *)
(* operator; here it is stated about a set of numbers, so that it can be   *)
(* cited, and with it what a recursive function computes for every list.   *)
(***************************************************************************)
EXTENDS Lists, WellFoundedInduction, TLAPS

(* A set of numbers has a smallest one.                                    *)
LEMMA SmallestOf ==
  ASSUME NEW S \in SUBSET Nat, S # {}
  PROVE  \E n \in S : \A m \in S : n <= m
<1>1. PICK n \in S : \A m \in S : ~(<<m, n>> \in OpToRel(<, Nat))
  BY NatLessThanWellFounded, WFMin
<1>2. \A m \in S : ~(m < n)
  BY <1>1, Zenon DEF OpToRel
<1> QED
  BY <1>2

(* Induction up to m: a set of numbers that holds 0, and n + 1 whenever it *)
(* holds an n below m, holds them all.                                     *)
LEMMA UpTo ==
  ASSUME NEW m \in Nat, NEW S, 0 \in S, \A n \in 0..m - 1 : n \in S => n + 1 \in S
  PROVE  0..m \subseteq S
<1> DEFINE missing == {n \in 0..m : n \notin S}
<1>1. SUFFICES missing = {}
  OBVIOUS
<1>2. SUFFICES ASSUME missing # {} PROVE FALSE
  OBVIOUS
<1>3. missing \in SUBSET Nat
  OBVIOUS
<1> HIDE DEF missing
<1>4. PICK n \in missing : \A k \in missing : n <= k
  BY <1>2, <1>3, SmallestOf
<1>5. n \in 0..m /\ n \notin S
  BY <1>4 DEF missing
<1>6. n # 0 /\ n - 1 \in 0..m - 1 /\ n - 1 \in 0..m /\ ~(n <= n - 1)
  BY <1>5
<1>7. n - 1 \notin missing
  BY <1>4, <1>6
<1>8. n - 1 \in S
  BY <1>6, <1>7 DEF missing
<1>9. (n - 1) + 1 \in S
  BY <1>6, <1>8
<1> QED
  BY <1>5, <1>9

(* Whatever is computed over a list of m elements from the left, each step *)
(* from the one before and the next place, has a value for every list.     *)
IsStep(step, A, m) == step \in [A \X (1..m) -> A]

Folds(f, A, a, m, step) ==
  f \in [0..m -> A] /\ f[0] = a /\ \A n \in 1..m : f[n] = step[<<f[n - 1], n>>]

(* There is such a function, for any step.                                 *)
LEMMA FoldExists ==
  ASSUME NEW A, NEW a \in A, NEW m \in Nat, NEW step, IsStep(step, A, m)
  PROVE  \E f : Folds(f, A, a, m, step)
<1>0. step \in [A \X (1..m) -> A]
  BY DEF IsStep
<1> DEFINE Good(f, k) == f[0] = a /\ \A n \in 1..k : f[n] = step[<<f[n - 1], n>>]
           reached == {k \in 0..m : \E f \in [0..m -> A] : Good(f, k)}
<1>1. 0 \in reached
  <2> DEFINE f == [n \in 0..m |-> a]
  <2>1. f \in [0..m -> A] /\ f[0] = a /\ 0 \in 0..m
    OBVIOUS
  <2>2. \A n \in 1..0 : f[n] = step[<<f[n - 1], n>>]
    OBVIOUS
  <2> HIDE DEF f
  <2> QED
    BY <2>1, <2>2
<1>2. ASSUME NEW k \in 0..m - 1, k \in reached PROVE k + 1 \in reached
  <2>1. PICK f \in [0..m -> A] : Good(f, k)
    BY <1>2
  <2>2. k \in 0..m /\ k + 1 \in 0..m /\ k + 1 \in 1..m /\ k + 1 # 0 /\ k + 1 # k /\ (k + 1) - 1 = k
    OBVIOUS
  <2> DEFINE next == step[<<f[k], k + 1>>]
             g == [f EXCEPT ![k + 1] = next]
  <2>3. f[k] \in A
    BY <2>2
  <2>3a. next \in A
    BY <1>0, <2>2, <2>3
  <2> HIDE DEF next
  <2>4. g \in [0..m -> A] /\ g[k + 1] = next /\ g[0] = f[0] /\ \A n \in 0..k : g[n] = f[n]
    BY <2>2, <2>3a
  <2> HIDE DEF g
  <2>5. ASSUME NEW n \in 1..k + 1 PROVE g[n] = step[<<g[n - 1], n>>]
    <3>1. CASE n = k + 1
      <4>1. g[n - 1] = f[k]
        BY <2>2, <2>4, <3>1
      <4> QED
        BY <2>4, <3>1, <4>1 DEF next
    <3>2. CASE n # k + 1
      <4>1. n \in 1..k /\ n \in 0..k /\ n - 1 \in 0..k
        BY <3>2
      <4>2. g[n] = f[n] /\ g[n - 1] = f[n - 1]
        BY <2>4, <4>1
      <4> QED
        BY <2>1, <4>1, <4>2
    <3> QED
      BY <3>1, <3>2
  <2>6. Good(g, k + 1)
    BY <2>1, <2>4, <2>5
  <2> QED
    BY <2>2, <2>4, <2>6
<1> HIDE DEF reached
<1>3. 0..m \subseteq reached
  BY <1>1, <1>2, UpTo
<1>4. m \in reached
  BY <1>3
<1> QED
  BY <1>4 DEF reached, Folds
(* Induction over lists: a set that holds the empty list, and every list   *)
(* of it with one more element, holds them all.                            *)
LEMMA ByAppending ==
  ASSUME NEW T, NEW P, << >> \in P,
         \A s \in Seq(T) : \A x \in T : s \in P => Append(s, x) \in P
  PROVE  Seq(T) \subseteq P
<1> SUFFICES ASSUME NEW s \in Seq(T) PROVE s \in P
  OBVIOUS
<1>1. PICK m : m = Len(s)
  OBVIOUS
<1>2. m \in Nat /\ \A n \in 1..m : s[n] \in T
  BY <1>1
<1> DEFINE good == {n \in 0..m : SubSeq(s, 1, n) \in P}
<1>3. 0 \in good
  <2>1. SubSeq(s, 1, 0) = << >> /\ 0 \in 0..m
    BY <1>2
  <2> QED
    BY <2>1
<1>4. ASSUME NEW n \in 0..m - 1, n \in good PROVE n + 1 \in good
  <2>1. n + 1 \in 1..m /\ n + 1 \in 0..m /\ n \in Nat /\ n < m
    BY <1>2
  <2>2. SubSeq(s, 1, n) \in Seq(T) /\ s[n + 1] \in T /\ SubSeq(s, 1, n) \in P
    BY <1>1, <1>2, <1>4, <2>1
  <2>3. SubSeq(s, 1, n + 1) = Append(SubSeq(s, 1, n), s[n + 1])
    BY <1>1, <2>1
  <2>4. SubSeq(s, 1, n + 1) \in P
    BY <2>2, <2>3
  <2> QED
    BY <2>1, <2>4
<1> HIDE DEF good
<1>5. m \in good
  <2>1. 0..m \subseteq good
    BY <1>2, <1>3, <1>4, UpTo
  <2> QED
    BY <1>2, <2>1
<1>6. SubSeq(s, 1, m) = s
  BY <1>1
<1> QED
  BY <1>5, <1>6 DEF good

-----------------------------------------------------------------------------
(* An element that is appended is one more.                                *)
LEMMA AppendElements ==
  ASSUME NEW T, NEW s \in Seq(T), NEW x
  PROVE  Elements(Append(s, x)) = Elements(s) \cup {x}
<1>1. Len(s) \in Nat /\ DOMAIN s = 1..Len(s) /\ DOMAIN Append(s, x) = 1..(Len(s) + 1)
      /\ Append(s, x)[Len(s) + 1] = x /\ \A i \in 1..Len(s) : Append(s, x)[i] = s[i]
  OBVIOUS
<1>2. 1..(Len(s) + 1) = (1..Len(s)) \cup {Len(s) + 1}
  BY <1>1
<1> QED
  BY <1>1, <1>2 DEF Elements

(* What retain keeps.                                                      *)

(* Going through a list.                                                   *)
Keeping(kept, s, S, T) ==
  /\ kept \in [0..Len(s) -> Seq(T)]
  /\ kept[0] = << >> /\ Only(s, S) = kept[Len(s)]
  /\ \A n \in 1..Len(s) :
       kept[n] = IF s[n] \in S THEN Append(kept[n - 1], s[n]) ELSE kept[n - 1]

(* What retain keeps is what its loop has kept at the end of the list.     *)
LEMMA OnlyUnfolds ==
  ASSUME NEW T, NEW s \in Seq(T), NEW S
  PROVE  \E kept : Keeping(kept, s, S, T)
<1>0. PICK m : m = Len(s)
  OBVIOUS
<1>1. m \in Nat /\ << >> \in Seq(T) /\ \A n \in 1..m : s[n] \in T
  BY <1>0
<1> DEFINE step == [x \in Seq(T) \X (1..m) |->
                      IF s[x[2]] \in S THEN Append(x[1], s[x[2]]) ELSE x[1]]
           Body(f) == [n \in 0..m |->
                         IF n = 0 THEN << >>
                         ELSE IF s[n] \in S THEN Append(f[n - 1], s[n]) ELSE f[n - 1]]
           kept == CHOOSE f : f = Body(f)
<1>2. step \in [Seq(T) \X (1..m) -> Seq(T)]
  BY <1>1
<1>3. PICK f : Folds(f, Seq(T), << >>, m, step)
  <2>1. IsStep(step, Seq(T), m)
    BY <1>2 DEF IsStep
  <2> HIDE DEF step
  <2> QED
    BY <1>1, <2>1, FoldExists
<1>4. f \in [0..m -> Seq(T)] /\ f[0] = << >> /\ \A n \in 1..m : f[n] = step[<<f[n - 1], n>>]
  BY <1>3 DEF Folds
<1>5. ASSUME NEW n \in 0..m
      PROVE  f[n] = IF n = 0 THEN << >>
                    ELSE IF s[n] \in S THEN Append(f[n - 1], s[n]) ELSE f[n - 1]
  <2>1. CASE n = 0
    BY <1>4, <2>1
  <2>2. CASE n # 0
    <3>1. n \in 1..m /\ n - 1 \in 0..m
      BY <1>1, <2>2
    <3>2. <<f[n - 1], n>> \in Seq(T) \X (1..m)
      BY <1>4, <3>1
    <3>3. f[n] = step[<<f[n - 1], n>>]
      BY <1>4, <3>1
    <3> QED
      BY <2>2, <3>2, <3>3
  <2> QED
    BY <2>1, <2>2
<1> HIDE DEF step
<1>6. f = Body(f)
  BY <1>4, <1>5
<1> HIDE DEF Body
<1>7. kept = Body(kept)
  BY <1>6
<1>8. Only(s, S) = kept[m]
  BY <1>0 DEF Only, Body
<1> HIDE DEF kept
<1>9. DOMAIN kept = 0..m /\ kept = [n \in 0..m |-> kept[n]]
  BY <1>7 DEF Body
<1>10. ASSUME NEW n \in 0..m
       PROVE  kept[n] = IF n = 0 THEN << >>
                        ELSE IF s[n] \in S THEN Append(kept[n - 1], s[n]) ELSE kept[n - 1]
  BY <1>7 DEF Body
<1>11. kept \in [0..m -> Seq(T)]
  <2> DEFINE typed == {n \in 0..m : kept[n] \in Seq(T)}
  <2>1. 0 \in typed
    <3>1. 0 \in 0..m
      BY <1>1
    <3>2. kept[0] = << >>
      BY <1>10, <3>1
    <3> QED
      BY <1>1, <3>1, <3>2
  <2>2. ASSUME NEW n \in 0..m - 1, n \in typed PROVE n + 1 \in typed
    <3>1. n + 1 \in 1..m /\ (n + 1) - 1 = n /\ n + 1 \in 0..m /\ n + 1 # 0
      BY <1>1
    <3>2. kept[n] \in Seq(T) /\ s[n + 1] \in T
      BY <1>1, <2>2, <3>1
    <3>3. kept[n + 1] = IF s[n + 1] \in S THEN Append(kept[n], s[n + 1]) ELSE kept[n]
      BY <1>10, <3>1
    <3>4. kept[n + 1] \in Seq(T)
      BY <3>2, <3>3
    <3> QED
      BY <3>1, <3>4
  <2> HIDE DEF typed
  <2>3. 0..m \subseteq typed
    BY <1>1, <2>1, <2>2, UpTo
  <2> QED
    BY <1>9, <2>3 DEF typed
<1>12. ASSUME NEW n \in 1..m
       PROVE  kept[n] = IF s[n] \in S THEN Append(kept[n - 1], s[n]) ELSE kept[n - 1]
  <2>1. n \in 0..m /\ n # 0
    OBVIOUS
  <2> QED
    BY <1>10, <2>1
<1>13. kept[0] = << >>
  BY <1>1, <1>10
<1> QED
  BY <1>0, <1>8, <1>11, <1>12, <1>13 DEF Keeping

(* Nothing is kept that was not there, and nothing of S is dropped.        *)
LEMMA OnlyKeeps ==
  ASSUME NEW T, NEW s \in Seq(T), NEW S
  PROVE  Only(s, S) \in Seq(T) /\ Elements(Only(s, S)) = Elements(s) \cap S
<1>0. PICK kept : Keeping(kept, s, S, T)
  BY OnlyUnfolds
<1>1. /\ kept \in [0..Len(s) -> Seq(T)]
      /\ kept[0] = << >> /\ Only(s, S) = kept[Len(s)]
      /\ \A n \in 1..Len(s) :
           kept[n] = IF s[n] \in S THEN Append(kept[n - 1], s[n]) ELSE kept[n - 1]
  BY <1>0 DEF Keeping
<1>2. PICK m : m = Len(s)
  OBVIOUS
<1>3. m \in Nat /\ DOMAIN s = 1..m /\ \A n \in 1..m : s[n] \in T
  BY <1>2
<1> DEFINE good == {n \in 0..m : Elements(kept[n]) = {s[i] : i \in 1..n} \cap S}
<1>4. 0 \in good
  <2>1. kept[0] = << >> /\ DOMAIN << >> = {} /\ 1..0 = {} /\ 0 \in 0..m
    BY <1>1, <1>3
  <2> QED
    BY <2>1 DEF Elements
<1>5. ASSUME NEW n \in 0..m - 1, n \in good PROVE n + 1 \in good
  <2>1. n + 1 \in 1..m /\ (n + 1) - 1 = n /\ n + 1 \in 0..m /\ n \in 0..m
    BY <1>3
  <2>2. kept[n] \in Seq(T) /\ s[n + 1] \in T
    BY <1>1, <1>2, <1>3, <2>1
  <2>3. Elements(kept[n]) = {s[i] : i \in 1..n} \cap S
    BY <1>5
  <2> HIDE DEF good
  <2>4. kept[n + 1] = IF s[n + 1] \in S THEN Append(kept[n], s[n + 1]) ELSE kept[n]
    BY <1>1, <1>2, <2>1
  <2>5. {s[i] : i \in 1..n + 1} = {s[i] : i \in 1..n} \cup {s[n + 1]}
    <3>1. 1..n + 1 = (1..n) \cup {n + 1}
      BY <2>1
    <3> QED
      BY <3>1
  <2>6. Elements(Append(kept[n], s[n + 1])) = Elements(kept[n]) \cup {s[n + 1]}
    BY <2>2, AppendElements
  <2>7. Elements(kept[n + 1]) = {s[i] : i \in 1..n + 1} \cap S
    <3>1. CASE s[n + 1] \in S
      BY <2>3, <2>4, <2>5, <2>6, <3>1
    <3>2. CASE s[n + 1] \notin S
      BY <2>3, <2>4, <2>5, <3>2
    <3> QED
      BY <3>1, <3>2
  <2> QED
    BY <2>1, <2>7 DEF good
<1> HIDE DEF good
<1>6. m \in good
  <2>1. 0..m \subseteq good
    BY <1>3, <1>4, <1>5, UpTo
  <2> QED
    BY <1>3, <2>1
<1>7. Elements(kept[m]) = {s[i] : i \in 1..m} \cap S
  BY <1>6 DEF good
<1>8. Elements(s) = {s[i] : i \in 1..m}
  BY <1>3 DEF Elements
<1>9. m \in 0..m
  BY <1>3
<1> QED
  BY <1>1, <1>2, <1>7, <1>8, <1>9

(* Nothing is kept of nothing.                                             *)
LEMMA OnlyEmpty ==
  ASSUME NEW S
  PROVE  Only(<< >>, S) = << >>
<1>1. PICK e, T : e = << >> /\ T = {}
  OBVIOUS
<1>2. e \in Seq(T) /\ Len(e) = 0
  BY <1>1
<1>3. PICK kept : Keeping(kept, e, S, T)
  BY <1>2, OnlyUnfolds
<1>4. kept[0] = << >> /\ Only(e, S) = kept[Len(e)]
  BY <1>3 DEF Keeping
<1> QED
  BY <1>1, <1>2, <1>4

(* The last element is kept, or not, after what is kept of the others.     *)
LEMMA OnlyAppend ==
  ASSUME NEW T, NEW s \in Seq(T), NEW x \in T, NEW S
  PROVE  Only(Append(s, x), S) = IF x \in S THEN Append(Only(s, S), x) ELSE Only(s, S)
<1>1. PICK m : m = Len(s)
  OBVIOUS
<1>2. PICK longer : longer = Append(s, x)
  OBVIOUS
<1>3. /\ m \in Nat /\ longer \in Seq(T) /\ Len(longer) = m + 1 /\ longer[m + 1] = x
      /\ \A n \in 1..m : longer[n] = s[n]
  BY <1>1, <1>2
<1>3a. PICK kept, keeps : Keeping(kept, s, S, T) /\ Keeping(keeps, longer, S, T)
  BY <1>3, OnlyUnfolds
<1>4. /\ kept[0] = << >> /\ Only(s, S) = kept[m]
      /\ \A n \in 1..m :
           kept[n] = IF s[n] \in S THEN Append(kept[n - 1], s[n]) ELSE kept[n - 1]
  BY <1>1, <1>3a DEF Keeping
<1>5. /\ keeps[0] = << >> /\ Only(longer, S) = keeps[m + 1]
      /\ \A n \in 1..m + 1 :
           keeps[n] = IF longer[n] \in S THEN Append(keeps[n - 1], longer[n]) ELSE keeps[n - 1]
  BY <1>3, <1>3a DEF Keeping
<1> DEFINE same == {n \in 0..m : keeps[n] = kept[n]}
<1>6. 0 \in same
  BY <1>3, <1>4, <1>5
<1>7. ASSUME NEW n \in 0..m - 1, n \in same PROVE n + 1 \in same
  <2>1. n + 1 \in 1..m /\ n + 1 \in 1..m + 1 /\ n + 1 \in 0..m /\ (n + 1) - 1 = n
    BY <1>3
  <2>2. kept[n + 1] = IF s[n + 1] \in S THEN Append(kept[n], s[n + 1]) ELSE kept[n]
    BY <1>1, <1>4, <2>1
  <2>3. keeps[n + 1] = IF longer[n + 1] \in S THEN Append(keeps[n], longer[n + 1]) ELSE keeps[n]
    BY <1>3, <1>5, <2>1
  <2>4. longer[n + 1] = s[n + 1] /\ keeps[n] = kept[n]
    BY <1>3, <1>7, <2>1
  <2>5. keeps[n + 1] = kept[n + 1]
    BY <2>2, <2>3, <2>4
  <2> QED
    BY <2>1, <2>5
<1> HIDE DEF same
<1>8. keeps[m] = kept[m]
  <2>1. 0..m \subseteq same
    BY <1>3, <1>6, <1>7, UpTo
  <2>2. m \in same
    BY <1>3, <2>1
  <2> QED
    BY <2>2 DEF same
<1>9. keeps[m + 1] = IF x \in S THEN Append(keeps[m], x) ELSE keeps[m]
  <2>1. m + 1 \in 1..m + 1 /\ (m + 1) - 1 = m
    BY <1>3
  <2> QED
    BY <1>3, <1>5, <2>1
<1> QED
  BY <1>1, <1>2, <1>3, <1>4, <1>5, <1>8, <1>9

(* What is kept of a list of one.                                          *)
LEMMA OnlyOne ==
  ASSUME NEW x, NEW S
  PROVE  Only(<<x>>, S) = IF x \in S THEN <<x>> ELSE << >>
<1>1. PICK T : T = {x}
  OBVIOUS
<1>2. << >> \in Seq(T) /\ x \in T
  BY <1>1
<1>3. \A s \in Seq(T) : Only(Append(s, x), S) = IF x \in S THEN Append(Only(s, S), x) ELSE Only(s, S)
  BY <1>2, OnlyAppend
<1>4. PICK nil \in Seq(T) : nil = << >>
  BY <1>2
<1>5. Only(Append(nil, x), S) = IF x \in S THEN Append(Only(nil, S), x) ELSE Only(nil, S)
  BY <1>3
<1>6. Only(nil, S) = nil
  BY <1>4, OnlyEmpty
<1>7. Append(nil, x) = <<x>>
  BY <1>4
<1> QED
  BY <1>4, <1>5, <1>6, <1>7

(* What is in neither list of keepers, or in both, makes no difference.    *)
LEMMA OnlySame ==
  ASSUME NEW T, NEW s \in Seq(T), NEW S, NEW R, Elements(s) \cap S = Elements(s) \cap R
  PROVE  Only(s, S) = Only(s, R)
<1> DEFINE P == {t \in Seq(T) : Elements(t) \cap S = Elements(t) \cap R => Only(t, S) = Only(t, R)}
<1>1. << >> \in P
  BY OnlyEmpty
<1>2. ASSUME NEW t \in Seq(T), NEW x \in T, t \in P PROVE Append(t, x) \in P
  <2>1. Append(t, x) \in Seq(T)
    OBVIOUS
  <2>2. SUFFICES ASSUME Elements(Append(t, x)) \cap S = Elements(Append(t, x)) \cap R
                 PROVE  Only(Append(t, x), S) = Only(Append(t, x), R)
    BY <2>1
  <2>3. Elements(Append(t, x)) = Elements(t) \cup {x}
    BY AppendElements
  <2>4. Elements(t) \cap S = Elements(t) \cap R /\ (x \in S <=> x \in R)
    BY <2>2, <2>3
  <2>5. Only(t, S) = Only(t, R)
    BY <1>2, <2>4
  <2>6. /\ Only(Append(t, x), S) = IF x \in S THEN Append(Only(t, S), x) ELSE Only(t, S)
        /\ Only(Append(t, x), R) = IF x \in R THEN Append(Only(t, R), x) ELSE Only(t, R)
    BY OnlyAppend
  <2> QED
    BY <2>4, <2>5, <2>6
<1> HIDE DEF P
<1>3. Seq(T) \subseteq P
  BY <1>1, <1>2, ByAppending
<1> QED
  BY <1>3 DEF P

(* Nothing goes when everything may stay.                                  *)
LEMMA OnlyAll ==
  ASSUME NEW T, NEW s \in Seq(T), NEW S, Elements(s) \subseteq S
  PROVE  Only(s, S) = s
<1> DEFINE P == {t \in Seq(T) : Elements(t) \subseteq S => Only(t, S) = t}
<1>1. << >> \in P
  BY OnlyEmpty
<1>2. ASSUME NEW t \in Seq(T), NEW x \in T, t \in P PROVE Append(t, x) \in P
  <2>1. Append(t, x) \in Seq(T)
    OBVIOUS
  <2>2. SUFFICES ASSUME Elements(Append(t, x)) \subseteq S PROVE Only(Append(t, x), S) = Append(t, x)
    BY <2>1
  <2>3. Elements(t) \subseteq S /\ x \in S
    BY <2>2, AppendElements
  <2>4. Only(Append(t, x), S) = Append(Only(t, S), x)
    BY <2>3, OnlyAppend
  <2> QED
    BY <1>2, <2>3, <2>4
<1> HIDE DEF P
<1>3. Seq(T) \subseteq P
  BY <1>1, <1>2, ByAppending
<1> QED
  BY <1>3 DEF P

(* Keeping twice is keeping what both sets have.                           *)
LEMMA OnlyTwice ==
  ASSUME NEW T, NEW s \in Seq(T), NEW S, NEW R
  PROVE  Only(Only(s, S), R) = Only(s, S \cap R)
<1> DEFINE P == {t \in Seq(T) : Only(Only(t, S), R) = Only(t, S \cap R)}
<1>1. << >> \in P
  BY OnlyEmpty
<1>2. ASSUME NEW t \in Seq(T), NEW x \in T, t \in P PROVE Append(t, x) \in P
  <2>1. Append(t, x) \in Seq(T) /\ Only(t, S) \in Seq(T)
    BY OnlyKeeps
  <2>2. /\ Only(Append(t, x), S) = IF x \in S THEN Append(Only(t, S), x) ELSE Only(t, S)
        /\ Only(Append(t, x), S \cap R) =
             IF x \in S \cap R THEN Append(Only(t, S \cap R), x) ELSE Only(t, S \cap R)
        /\ Only(Append(Only(t, S), x), R) =
             IF x \in R THEN Append(Only(Only(t, S), R), x) ELSE Only(Only(t, S), R)
    BY <2>1, OnlyAppend
  <2>3. Only(Only(t, S), R) = Only(t, S \cap R)
    BY <1>2
  <2>4. Only(Only(Append(t, x), S), R) = Only(Append(t, x), S \cap R)
    <3>1. CASE x \in S
      <4>1. Only(Append(t, x), S) = Append(Only(t, S), x)
        BY <2>2, <3>1
      <4>2. CASE x \in R
        BY <2>2, <2>3, <3>1, <4>1, <4>2
      <4>3. CASE x \notin R
        BY <2>2, <2>3, <4>1, <4>3
      <4> QED
        BY <4>2, <4>3
    <3>2. CASE x \notin S
      <4>1. Only(Append(t, x), S) = Only(t, S)
        BY <2>2, <3>2
      <4>2. Only(Append(t, x), S \cap R) = Only(t, S \cap R)
        BY <2>2, <3>2
      <4> QED
        BY <2>3, <4>1, <4>2
    <3> QED
      BY <3>1, <3>2
  <2> QED
    BY <2>1, <2>4
<1> HIDE DEF P
<1>3. Seq(T) \subseteq P
  BY <1>1, <1>2, ByAppending
<1> QED
  BY <1>3 DEF P

(* One more element is at no second place if it was not there.             *)
LEMMA AppendDistinct ==
  ASSUME NEW T, NEW s \in Seq(T), NEW x
  PROVE  Distinct(Append(s, x)) <=> Distinct(s) /\ x \notin Elements(s)
<1>1. Len(s) \in Nat /\ DOMAIN s = 1..Len(s) /\ DOMAIN Append(s, x) = 1..(Len(s) + 1)
      /\ Append(s, x)[Len(s) + 1] = x /\ \A i \in 1..Len(s) : Append(s, x)[i] = s[i]
  OBVIOUS
<1>2. \A i \in 1..(Len(s) + 1) : i \in 1..Len(s) \/ i = Len(s) + 1
  BY <1>1
<1>3. Len(s) + 1 \in 1..(Len(s) + 1) /\ Len(s) + 1 \notin 1..Len(s)
      /\ 1..Len(s) \subseteq 1..(Len(s) + 1)
  BY <1>1
<1>4. ASSUME Distinct(Append(s, x)) PROVE Distinct(s) /\ x \notin Elements(s)
  BY <1>1, <1>3, <1>4 DEF Distinct, Elements
<1>5. ASSUME Distinct(s), x \notin Elements(s) PROVE Distinct(Append(s, x))
  BY <1>1, <1>2, <1>5 DEF Distinct, Elements
<1> QED
  BY <1>4, <1>5

(* What is kept of distinct elements is distinct.                          *)
LEMMA OnlyDistinct ==
  ASSUME NEW T, NEW s \in Seq(T), NEW S, Distinct(s)
  PROVE  Distinct(Only(s, S))
<1> DEFINE P == {t \in Seq(T) : Distinct(t) => Distinct(Only(t, S))}
<1>1. << >> \in P
  BY OnlyEmpty
<1>2. ASSUME NEW t \in Seq(T), NEW x \in T, t \in P PROVE Append(t, x) \in P
  <2>1. Append(t, x) \in Seq(T)
    OBVIOUS
  <2>2. SUFFICES ASSUME Distinct(Append(t, x)) PROVE Distinct(Only(Append(t, x), S))
    BY <2>1
  <2>3. Distinct(t) /\ x \notin Elements(t)
    BY <2>2, AppendDistinct
  <2>4. Distinct(Only(t, S))
    BY <1>2, <2>3
  <2>5. Only(t, S) \in Seq(T) /\ x \notin Elements(Only(t, S))
    BY <2>3, OnlyKeeps
  <2>6. Distinct(Append(Only(t, S), x))
    BY <2>4, <2>5, AppendDistinct
  <2>7. Only(Append(t, x), S) = IF x \in S THEN Append(Only(t, S), x) ELSE Only(t, S)
    BY OnlyAppend
  <2> QED
    BY <2>4, <2>6, <2>7
<1> HIDE DEF P
<1>3. Seq(T) \subseteq P
  BY <1>1, <1>2, ByAppending
<1> QED
  BY <1>3 DEF P

(* Lists one behind the other.                                             *)
LEMMA ConcatAppend ==
  ASSUME NEW T, NEW s \in Seq(T), NEW t \in Seq(T), NEW x \in T
  PROVE  s \o Append(t, x) = Append(s \o t, x)
  OBVIOUS

(* One list after another holds what either holds.                         *)
LEMMA ElementsOfConcat ==
  ASSUME NEW T, NEW s \in Seq(T), NEW t \in Seq(T)
  PROVE  Elements(s \o t) = Elements(s) \cup Elements(t)
<1> DEFINE P == {r \in Seq(T) : Elements(s \o r) = Elements(s) \cup Elements(r)}
<1>1. << >> \in P
  <2>1. s \o << >> = s /\ Elements(<< >>) = {}
    BY DEF Elements
  <2> QED
    BY <2>1
<1>2. ASSUME NEW r \in Seq(T), NEW x \in T, r \in P PROVE Append(r, x) \in P
  <2>1. Append(r, x) \in Seq(T) /\ s \o r \in Seq(T) /\ s \o Append(r, x) = Append(s \o r, x)
    BY ConcatAppend
  <2>2. /\ Elements(Append(r, x)) = Elements(r) \cup {x}
        /\ Elements(Append(s \o r, x)) = Elements(s \o r) \cup {x}
    BY <2>1, AppendElements
  <2> QED
    BY <1>2, <2>1, <2>2
<1> HIDE DEF P
<1>3. Seq(T) \subseteq P
  BY <1>1, <1>2, ByAppending
<1> QED
  BY <1>3 DEF P

(* One after another they are distinct when they share nothing.            *)
LEMMA ConcatDistinct ==
  ASSUME NEW T, NEW s \in Seq(T), NEW t \in Seq(T)
  PROVE  Distinct(s \o t) <=>
           Distinct(s) /\ Distinct(t) /\ Elements(s) \cap Elements(t) = {}
<1> DEFINE P == {r \in Seq(T) : Distinct(s \o r) <=>
                   Distinct(s) /\ Distinct(r) /\ Elements(s) \cap Elements(r) = {}}
<1>1. << >> \in P
  <2>1. s \o << >> = s /\ Elements(<< >>) = {} /\ Distinct(<< >>)
    BY DEF Elements, Distinct
  <2> QED
    BY <2>1
<1>2. ASSUME NEW r \in Seq(T), NEW x \in T, r \in P PROVE Append(r, x) \in P
  <2>1. Append(r, x) \in Seq(T) /\ s \o r \in Seq(T) /\ s \o Append(r, x) = Append(s \o r, x)
    BY ConcatAppend
  <2>2. /\ Elements(Append(r, x)) = Elements(r) \cup {x}
        /\ Elements(s \o r) = Elements(s) \cup Elements(r)
    BY AppendElements, ElementsOfConcat
  <2>3. /\ Distinct(Append(r, x)) <=> Distinct(r) /\ x \notin Elements(r)
        /\ Distinct(Append(s \o r, x)) <=> Distinct(s \o r) /\ x \notin Elements(s \o r)
    BY <2>1, AppendDistinct
  <2> QED
    BY <1>2, <2>1, <2>2, <2>3
<1> HIDE DEF P
<1>3. Seq(T) \subseteq P
  BY <1>1, <1>2, ByAppending
<1> QED
  BY <1>3 DEF P

(* What is kept of two lists is what is kept of each.                      *)
LEMMA OnlyConcat ==
  ASSUME NEW T, NEW s \in Seq(T), NEW t \in Seq(T), NEW S
  PROVE  Only(s \o t, S) = Only(s, S) \o Only(t, S)
<1> DEFINE P == {r \in Seq(T) : Only(s \o r, S) = Only(s, S) \o Only(r, S)}
<1>1. << >> \in P
  <2>1. s \o << >> = s /\ Only(s, S) \in Seq(T) /\ Only(<< >>, S) = << >>
    BY OnlyKeeps, OnlyEmpty
  <2>2. Only(s, S) \o << >> = Only(s, S)
    BY <2>1
  <2> QED
    BY <2>1, <2>2
<1>2. ASSUME NEW r \in Seq(T), NEW x \in T, r \in P PROVE Append(r, x) \in P
  <2>1. /\ Append(r, x) \in Seq(T) /\ s \o r \in Seq(T) /\ s \o Append(r, x) = Append(s \o r, x)
        /\ Only(s, S) \in Seq(T) /\ Only(r, S) \in Seq(T)
    BY ConcatAppend, OnlyKeeps
  <2>2. /\ Only(Append(r, x), S) = IF x \in S THEN Append(Only(r, S), x) ELSE Only(r, S)
        /\ Only(Append(s \o r, x), S) = IF x \in S THEN Append(Only(s \o r, S), x) ELSE Only(s \o r, S)
    BY <2>1, OnlyAppend
  <2>3. Only(s, S) \o Append(Only(r, S), x) = Append(Only(s, S) \o Only(r, S), x)
    BY <2>1, ConcatAppend
  <2> QED
    BY <1>2, <2>1, <2>2, <2>3
<1> HIDE DEF P
<1>3. Seq(T) \subseteq P
  BY <1>1, <1>2, ByAppending
<1> QED
  BY <1>3 DEF P
-----------------------------------------------------------------------------
(* What becomes of a value that is taken along a list.                     *)

(* A step from any value of A and element of B.                            *)
Takes(step, A, B) == step \in [A \X B -> A]

(* One place after another.                                                *)
Going(after, step, a, s) ==
  after[0] = a /\ \A n \in 1..Len(s) : after[n] = step[<<after[n - 1], s[n]>>]

(* Along is the last of the values that one place after another gives.     *)
LEMMA AlongUnfolds ==
  ASSUME NEW A, NEW B, NEW step, Takes(step, A, B), NEW a \in A, NEW s \in Seq(B)
  PROVE  \E after \in [0..Len(s) -> A] : Going(after, step, a, s) /\ Along(step, a, s) = after[Len(s)]
<1>0. step \in [A \X B -> A]
  BY DEF Takes
<1>1. PICK m : m = Len(s)
  OBVIOUS
<1>2. m \in Nat /\ \A n \in 1..m : s[n] \in B
  BY <1>1
<1> DEFINE next == [x \in A \X (1..m) |-> step[<<x[1], s[x[2]]>>]]
<1>3. IsStep(next, A, m)
  <2>1. ASSUME NEW x \in A \X (1..m) PROVE step[<<x[1], s[x[2]]>>] \in A
    <3>1. x[1] \in A /\ x[2] \in 1..m
      OBVIOUS
    <3>2. s[x[2]] \in B
      BY <1>2, <3>1
    <3> QED
      BY <1>0, <3>1, <3>2
  <2>2. next \in [A \X (1..m) -> A]
    BY <2>1
  <2> QED
    BY <2>2 DEF IsStep
<1>4. \A x \in A, n \in 1..m : next[<<x, n>>] = step[<<x, s[n]>>]
  OBVIOUS
<1> HIDE DEF next
<1>5. PICK f : Folds(f, A, a, m, next)
  BY <1>2, <1>3, FoldExists
<1>6. f \in [0..m -> A] /\ f[0] = a /\ \A n \in 1..m : f[n] = next[<<f[n - 1], n>>]
  BY <1>5 DEF Folds
<1>7. ASSUME NEW n \in 1..m PROVE f[n] = step[<<f[n - 1], s[n]>>]
  <2>1. n - 1 \in 0..m
    BY <1>2
  <2>2. f[n - 1] \in A
    BY <1>6, <2>1
  <2> QED
    BY <1>4, <1>6, <2>2
<1>8. DEFINE body(g) == [n \in 0..m |-> IF n = 0 THEN a ELSE step[<<g[n - 1], s[n]>>]]
             after == CHOOSE g : g = body(g)
<1>9. f = body(f)
  <2>1. ASSUME NEW n \in 0..m PROVE f[n] = IF n = 0 THEN a ELSE step[<<f[n - 1], s[n]>>]
    <3>1. CASE n = 0
      BY <1>6, <3>1
    <3>2. CASE n # 0
      <4>1. n \in 1..m
        BY <1>2, <3>2
      <4> QED
        BY <1>7, <3>2, <4>1
    <3> QED
      BY <3>1, <3>2
  <2> QED
    BY <1>6, <2>1
<1>10. after = body(after)
  BY <1>9
<1>11. Along(step, a, s) = after[m]
  BY <1>1 DEF Along
<1> HIDE DEF after
<1>12. after[0] = a /\ \A n \in 1..m : after[n] = step[<<after[n - 1], s[n]>>]
  <2>1. 0 \in 0..m /\ \A n \in 1..m : n \in 0..m /\ n # 0
    BY <1>2
  <2> QED
    BY <1>10, <2>1
<1>13. \A n \in 0..m : after[n] = f[n]
  <2> DEFINE same == {n \in 0..m : after[n] = f[n]}
  <2>1. 0 \in same
    BY <1>2, <1>6, <1>12
  <2>2. ASSUME NEW n \in 0..m - 1, n \in same PROVE n + 1 \in same
    <3>1. n + 1 \in 1..m /\ n + 1 \in 0..m /\ (n + 1) - 1 = n
      BY <1>2
    <3>2. after[n + 1] = step[<<after[n], s[n + 1]>>] /\ f[n + 1] = step[<<f[n], s[n + 1]>>]
      BY <1>7, <1>12, <3>1
    <3> QED
      BY <2>2, <3>1, <3>2
  <2> HIDE DEF same
  <2>3. 0..m \subseteq same
    BY <1>2, <2>1, <2>2, UpTo
  <2> QED
    BY <2>3 DEF same
<1>14. m \in 0..m
  BY <1>2
<1> QED
  BY <1>1, <1>6, <1>7, <1>11, <1>13, <1>14 DEF Going

(* It stays what it can be.                                                *)
LEMMA AlongType ==
  ASSUME NEW A, NEW B, NEW step, Takes(step, A, B), NEW a \in A, NEW s \in Seq(B)
  PROVE  Along(step, a, s) \in A
<1>1. PICK m \in Nat : m = Len(s)
  OBVIOUS
<1>2. \E after \in [0..m -> A] : Going(after, step, a, s) /\ Along(step, a, s) = after[m]
  BY <1>1, AlongUnfolds
<1>3. PICK after \in [0..m -> A] : Along(step, a, s) = after[m]
  BY <1>2
<1>4. m \in 0..m
  BY <1>1
<1> QED
  BY <1>3, <1>4

(* The empty list leaves it as it is.                                      *)
LEMMA AlongEmpty ==
  ASSUME NEW A, NEW B, NEW step, Takes(step, A, B), NEW a \in A
  PROVE  Along(step, a, << >>) = a
<1>1. << >> \in Seq(B) /\ Len(<< >>) = 0
  OBVIOUS
<1>2. PICK e \in Seq(B) : e = << >> /\ Len(e) = 0
  BY <1>1
<1>3. PICK after \in [0..Len(e) -> A] : Going(after, step, a, e) /\ Along(step, a, e) = after[Len(e)]
  BY AlongUnfolds
<1>4. after[0] = a /\ Along(step, a, e) = after[0]
  BY <1>2, <1>3 DEF Going
<1> QED
  BY <1>2, <1>4

(* One element more is one step more.                                      *)
LEMMA AlongAppend ==
  ASSUME NEW A, NEW B, NEW step, Takes(step, A, B), NEW a \in A, NEW s \in Seq(B), NEW x \in B
  PROVE  Along(step, a, Append(s, x)) = step[<<Along(step, a, s), x>>]
<1>1. PICK m : m = Len(s)
  OBVIOUS
<1>2. Append(s, x) \in Seq(B)
  BY SMT
<1>3. PICK t : t = Append(s, x)
  OBVIOUS
<1>4. m \in Nat /\ Len(t) = m + 1 /\ t[m + 1] = x /\ \A n \in 1..m : t[n] = s[n]
  BY <1>1, <1>3
<1>5. PICK f \in [0..Len(s) -> A] : Going(f, step, a, s) /\ Along(step, a, s) = f[Len(s)]
  BY AlongUnfolds
<1>6. t \in Seq(B)
  BY <1>2, <1>3
<1>7. PICK g \in [0..Len(t) -> A] : Going(g, step, a, t) /\ Along(step, a, t) = g[Len(t)]
  BY <1>6, AlongUnfolds
<1>8. f[0] = a /\ \A n \in 1..m : f[n] = step[<<f[n - 1], s[n]>>]
  BY <1>1, <1>5 DEF Going
<1>9. g[0] = a /\ \A n \in 1..(m + 1) : g[n] = step[<<g[n - 1], t[n]>>]
  BY <1>4, <1>7 DEF Going
<1> DEFINE same == {n \in 0..m : f[n] = g[n]}
<1>10. 0 \in same
  BY <1>4, <1>8, <1>9
<1>11. ASSUME NEW n \in 0..m - 1, n \in same PROVE n + 1 \in same
  <2>1. n + 1 \in 1..m /\ n + 1 \in 1..(m + 1) /\ n + 1 \in 0..m /\ (n + 1) - 1 = n
    BY <1>4
  <2>2. f[n + 1] = step[<<f[n], s[n + 1]>>] /\ g[n + 1] = step[<<g[n], t[n + 1]>>]
    BY <1>8, <1>9, <2>1
  <2>3. t[n + 1] = s[n + 1]
    BY <1>4, <2>1
  <2> QED
    BY <1>11, <2>1, <2>2, <2>3
<1> HIDE DEF same
<1>12. 0..m \subseteq same
  BY <1>4, <1>10, <1>11, UpTo
<1>13. m \in 0..m /\ m + 1 \in 1..(m + 1) /\ (m + 1) - 1 = m
  <2>1. m \in Nat
    BY <1>4
  <2> QED
    BY <2>1
<1>14. g[m + 1] = step[<<g[m], t[m + 1]>>]
  BY <1>9, <1>13
<1>15. f[m] = g[m]
  BY <1>12, <1>13 DEF same
<1> QED
  BY <1>1, <1>3, <1>4, <1>5, <1>7, <1>14, <1>15

(* Two lists behind one another are taken one behind the other.            *)
LEMMA AlongConcat ==
  ASSUME NEW A, NEW B, NEW step, Takes(step, A, B), NEW a \in A, NEW s \in Seq(B), NEW t \in Seq(B)
  PROVE  Along(step, a, s \o t) = Along(step, Along(step, a, s), t)
<1>1. Along(step, a, s) \in A
  BY AlongType
<1>2. PICK b \in A : b = Along(step, a, s)
  BY <1>1
<1> DEFINE P == {u \in Seq(B) : Along(step, a, s \o u) = Along(step, b, u)}
<1>3. << >> \in P
  <2>1. << >> \in Seq(B) /\ s \o << >> = s
    OBVIOUS
  <2>2. Along(step, b, << >>) = b
    BY AlongEmpty
  <2> QED
    BY <1>2, <2>1, <2>2
<1>4. ASSUME NEW u \in Seq(B), NEW x \in B, u \in P PROVE Append(u, x) \in P
  <2>1. s \o u \in Seq(B) /\ Append(u, x) \in Seq(B)
    OBVIOUS
  <2>2. s \o Append(u, x) = Append(s \o u, x)
    BY ConcatAppend
  <2>3. PICK w \in Seq(B) : w = s \o u
    BY <2>1
  <2>3a. Along(step, a, Append(w, x)) = step[<<Along(step, a, w), x>>]
    BY AlongAppend
  <2>4. Along(step, b, Append(u, x)) = step[<<Along(step, b, u), x>>]
    BY AlongAppend
  <2>5. Along(step, a, s \o u) = Along(step, b, u)
    BY <1>4
  <2> QED
    BY <2>1, <2>2, <2>3, <2>3a, <2>4, <2>5
<1> HIDE DEF P
<1>5. Seq(B) \subseteq P
  BY <1>3, <1>4, ByAppending
<1>6. t \in P
  BY <1>5
<1> QED
  BY <1>2, <1>6 DEF P

=============================================================================
