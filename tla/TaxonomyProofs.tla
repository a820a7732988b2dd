-------------------------- MODULE TaxonomyProofs --------------------------
(***************************************************************************)
(* What a candidate's name rests on, for any candidates, logs of any        *)
(* length, numbers of attempts and runs.  Four parts:                       *)
(*   - positions: how adding a line to a log moves the others;              *)
(*   - the rules of the two schemes: the first that applies decides;        *)
(*   - noise: a line of chatter or a summary changes the answer of few      *)
(*     rules (Matching), so that the rule that decides is the same one, or  *)
(*     an earlier one of those few (MoreFirst), whence NoiseIgnored;        *)
(*   - TypeOK and RowsTellOwnLog, by one induction: the invariant Inv       *)
(*     follows a log line by line from the attempt that writes it to the    *)
(*     row.  As long as a candidate is the only one to have written to its  *)
(*     first log, the file is what its own attempt has printed so far, and  *)
(*     once it is over, what it printed, before the row is written and      *)
(*     after; and a test writes inside what it prints.                      *)
(***************************************************************************)
EXTENDS Taxonomy, SequenceTheorems, FiniteSetTheorems, WellFoundedInduction, TLAPS

(***************************************************************************)
(* Least and greatest positions.                                           *)
(***************************************************************************)
LEMMA LeastOf ==
  ASSUME NEW T, T \subseteq Nat, T # {}
  PROVE  \E x \in T : \A y \in T : x <= y
<1>. DEFINE R == {ss \in Nat \X Nat : ss[1] < ss[2]}
<1>1. IsWellFoundedOn(R, Nat) BY NatLessThanWellFounded DEF OpToRel
<1>2. PICK x \in T : \A y \in T : ~(<<y, x>> \in R)
  <2>. HIDE DEF R
  <2>. QED BY <1>1, WFMin
<1>3. ASSUME NEW y \in T PROVE x <= y
  <2>1. x \in Nat /\ y \in Nat /\ ~(<<y, x>> \in R) BY <1>2
  <2>2. ~(y < x) BY <2>1
  <2>. QED BY <2>1, <2>2
<1>. QED BY <1>3

LEMMA GreatestOf ==
  ASSUME NEW n \in Nat, NEW T, T \subseteq 1..n, T # {}
  PROVE  \E x \in T : \A y \in T : y <= x
<1>. DEFINE U == {n - t : t \in T}
<1>0. \A t \in T : t \in 1..n /\ n - t \in Nat OBVIOUS
<1>1. U \subseteq Nat /\ U # {} BY <1>0
<1>2. PICK u \in U : \A v \in U : u <= v BY <1>1, LeastOf
<1>3. PICK x \in T : u = n - x BY <1>2
<1>4. ASSUME NEW y \in T PROVE y <= x
  <2>0. n - y \in U OBVIOUS
  <2>1. n - x <= n - y BY <1>2, <1>3, <2>0
  <2>2. n \in Int /\ x \in Int /\ y \in Int BY <1>0
  <2>. QED BY <2>1, <2>2
<1>. QED BY <1>4

(***************************************************************************)
(* A log with one more line, its lines in their order.                     *)
(***************************************************************************)
OneMore(log, long, x) ==
  /\ log \in Seq(LogLines) /\ long \in Seq(LogLines)
  /\ \E e \in [DOMAIN log -> DOMAIN long], p \in DOMAIN long :
       /\ \A i \in DOMAIN log : e[i] # p /\ long[e[i]] = log[i]
       /\ \A i, j \in DOMAIN log : e[i] <= e[j] <=> i <= j
       /\ \A m \in DOMAIN long : m = p \/ \E i \in DOMAIN log : m = e[i]
       /\ long[p] = x

LEMMA Before ==
  ASSUME NEW log \in Seq(LogLines), NEW x \in LogLines
  PROVE  OneMore(log, <<x>> \o log, x)
<1>. DEFINE n == Len(log)
            one == <<x>>
            long == one \o log
            e == [i \in DOMAIN log |-> i + 1]
<1>1. n \in Nat /\ DOMAIN log = 1..n BY LenProperties
<1>2. one \in Seq(LogLines) /\ Len(one) = 1 /\ one[1] = x OBVIOUS
<1>. HIDE DEF one
<1>3. /\ long \in Seq(LogLines) /\ Len(long) = 1 + n
      /\ \A i \in 1..1+n : long[i] = IF i <= 1 THEN one[i] ELSE log[i - 1]
  <2>1. /\ long \in Seq(LogLines) /\ Len(long) = Len(one) + Len(log)
        /\ \A i \in 1..Len(one)+Len(log) :
             long[i] = IF i <= Len(one) THEN one[i] ELSE log[i - Len(one)]
    BY <1>2, ConcatProperties
  <2>. HIDE DEF long
  <2>. QED BY <1>2, <2>1
<1>4. DOMAIN long = 1..1+n BY <1>3, LenProperties
<1>. HIDE DEF long
<1>5. e \in [DOMAIN log -> DOMAIN long] /\ 1 \in DOMAIN long BY <1>1, <1>4
<1>6. \A i \in DOMAIN log : e[i] # 1 /\ long[e[i]] = log[i] BY <1>1, <1>3
<1>7. \A i, j \in DOMAIN log : e[i] <= e[j] <=> i <= j BY <1>1
<1>8. ASSUME NEW m \in DOMAIN long, m # 1 PROVE \E i \in DOMAIN log : m = e[i]
  <2>1. m - 1 \in DOMAIN log /\ m = e[m - 1] BY <1>1, <1>4, <1>8
  <2>. QED BY <2>1
<1>9. long[1] = x BY <1>2, <1>3, <1>1
<1>. HIDE DEF e
<1>10. OneMore(log, long, x) BY <1>3, <1>5, <1>6, <1>7, <1>8, <1>9 DEF OneMore
<1>. QED BY <1>10 DEF long, one

LEMMA After ==
  ASSUME NEW log \in Seq(LogLines), NEW x \in LogLines
  PROVE  OneMore(log, Append(log, x), x)
<1>. DEFINE n == Len(log)
            long == Append(log, x)
            e == [i \in DOMAIN log |-> i]
<1>1. n \in Nat /\ DOMAIN log = 1..n BY LenProperties
<1>2. /\ long \in Seq(LogLines) /\ DOMAIN long = 1..n+1
      /\ \A i \in 1..n : long[i] = log[i]
      /\ long[n + 1] = x
  BY <1>1, AppendProperties, LenProperties
<1>. HIDE DEF long
<1>3. e \in [DOMAIN log -> DOMAIN long] /\ n + 1 \in DOMAIN long BY <1>1, <1>2
<1>4. \A i \in DOMAIN log : e[i] # n + 1 /\ long[e[i]] = log[i] BY <1>1, <1>2
<1>5. \A i, j \in DOMAIN log : e[i] <= e[j] <=> i <= j OBVIOUS
<1>6. \A m \in DOMAIN long : m = n + 1 \/ \E i \in DOMAIN log : m = e[i] BY <1>1, <1>2
<1>. HIDE DEF e
<1>7. OneMore(log, long, x) BY <1>2, <1>3, <1>4, <1>5, <1>6 DEF OneMore
<1>. QED BY <1>7 DEF long

LEMMA MoreHas ==
  ASSUME NEW log, NEW long, NEW x, OneMore(log, long, x), NEW K, x \notin K
  PROVE  Has(long, K) = Has(log, K)
<1>1. PICK e \in [DOMAIN log -> DOMAIN long], p \in DOMAIN long :
        /\ \A i \in DOMAIN log : e[i] # p /\ long[e[i]] = log[i]
        /\ \A m \in DOMAIN long : m = p \/ \E i \in DOMAIN log : m = e[i]
        /\ long[p] = x
  BY DEF OneMore
<1>2. Has(long, K) => Has(log, K) BY <1>1 DEF Has
<1>3. Has(log, K) => Has(long, K) BY <1>1 DEF Has
<1>4. Has(log, K) \in BOOLEAN /\ Has(long, K) \in BOOLEAN BY DEF Has
<1>. QED BY <1>2, <1>3, <1>4

Ats(log, K) == {i \in DOMAIN log : log[i] \in K}

Highest(T) == CHOOSE i \in T : \A j \in T : j <= i
Lowest(T) == CHOOSE i \in T : \A j \in T : i <= j

\* The last line of those of K, and the first.
LEMMA MoreLast ==
  ASSUME NEW log, NEW long, NEW x, OneMore(log, long, x), NEW K, x \notin K
  PROVE  /\ Ats(long, K) = {} <=> Ats(log, K) = {}
         /\ Ats(log, K) # {} =>
              long[Highest(Ats(long, K))]
                = log[Highest(Ats(log, K))]
         /\ Ats(log, K) # {} =>
              long[Lowest(Ats(long, K))]
                = log[Lowest(Ats(log, K))]
<1>1. PICK e \in [DOMAIN log -> DOMAIN long], p \in DOMAIN long :
        /\ \A i \in DOMAIN log : e[i] # p /\ long[e[i]] = log[i]
        /\ \A i, j \in DOMAIN log : e[i] <= e[j] <=> i <= j
        /\ \A m \in DOMAIN long : m = p \/ \E i \in DOMAIN log : m = e[i]
        /\ long[p] = x
  BY DEF OneMore
<1>2. /\ Len(log) \in Nat /\ DOMAIN log = 1..Len(log)
      /\ Len(long) \in Nat /\ DOMAIN long = 1..Len(long)
  BY LenProperties DEF OneMore
<1>. DEFINE A == Ats(log, K)
            B == Ats(long, K)
<1>3. /\ A \subseteq 1..Len(log) /\ B \subseteq 1..Len(long)
      /\ \A i \in A : e[i] \in B
      /\ \A m \in B : \E i \in A : m = e[i]
  BY <1>1, <1>2 DEF Ats
<1>4. \A i, j \in A : e[i] <= e[j] <=> i <= j BY <1>1 DEF Ats
<1>5. \A i \in A : long[e[i]] = log[i] BY <1>1 DEF Ats
<1>. HIDE DEF A, B
<1>6. B = {} <=> A = {} BY <1>3
<1>7. ASSUME A # {}
      PROVE  long[Highest(B)] = log[Highest(A)]
  <2>1. PICK a \in A : \A j \in A : j <= a BY <1>2, <1>3, <1>7, GreatestOf
  <2>2. e[a] \in B /\ \A m \in B : m <= e[a] BY <1>3, <1>4, <2>1
  <2>3. Highest(A) = a
    <3>1. ASSUME NEW i \in A, \A j \in A : j <= i PROVE i = a
      <4>1. i <= a /\ a <= i /\ i \in Nat /\ a \in Nat BY <1>3, <2>1, <3>1
      <4>. QED BY <4>1
    <3>. QED BY <2>1, <3>1 DEF Highest, Lowest
  <2>4. Highest(B) = e[a]
    <3>1. ASSUME NEW i \in B, \A j \in B : j <= i PROVE i = e[a]
      <4>1. i <= e[a] /\ e[a] <= i /\ i \in Nat /\ e[a] \in Nat BY <1>3, <2>2, <3>1
      <4>. QED BY <4>1
    <3>. QED BY <2>2, <3>1 DEF Highest, Lowest
  <2>. QED BY <1>5, <2>1, <2>3, <2>4
<1>8. ASSUME A # {}
      PROVE  long[Lowest(B)] = log[Lowest(A)]
  <2>0. A \subseteq Nat BY <1>3
  <2>1. PICK a \in A : \A j \in A : a <= j BY <2>0, <1>8, LeastOf
  <2>2. e[a] \in B /\ \A m \in B : e[a] <= m BY <1>3, <1>4, <2>1
  <2>3. Lowest(A) = a
    <3>1. ASSUME NEW i \in A, \A j \in A : i <= j PROVE i = a
      <4>1. i <= a /\ a <= i /\ i \in Nat /\ a \in Nat BY <1>3, <2>1, <3>1
      <4>. QED BY <4>1
    <3>. QED BY <2>1, <3>1 DEF Highest, Lowest
  <2>4. Lowest(B) = e[a]
    <3>1. ASSUME NEW i \in B, \A j \in B : i <= j PROVE i = e[a]
      <4>1. i <= e[a] /\ e[a] <= i /\ i \in Nat /\ e[a] \in Nat BY <1>3, <2>2, <3>1
      <4>. QED BY <4>1
    <3>. QED BY <2>2, <3>1 DEF Highest, Lowest
  <2>. QED BY <1>5, <2>1, <2>3, <2>4
<1>. QED BY <1>6, <1>7, <1>8 DEF A, B

\* As many lines are of a kind.
LEMMA MoreCount ==
  ASSUME NEW log, NEW long, NEW x, OneMore(log, long, x), NEW K, x \notin K
  PROVE  Cardinality(Ats(long, K)) = Cardinality(Ats(log, K))
<1>1. PICK e \in [DOMAIN log -> DOMAIN long], p \in DOMAIN long :
        /\ \A i \in DOMAIN log : e[i] # p /\ long[e[i]] = log[i]
        /\ \A i, j \in DOMAIN log : e[i] <= e[j] <=> i <= j
        /\ \A m \in DOMAIN long : m = p \/ \E i \in DOMAIN log : m = e[i]
        /\ long[p] = x
  BY DEF OneMore
<1>2. Len(log) \in Nat /\ DOMAIN log = 1..Len(log) BY LenProperties DEF OneMore
<1>. DEFINE A == Ats(log, K)
            B == Ats(long, K)
            f == [i \in A |-> e[i]]
<1>3. /\ A \subseteq 1..Len(log)
      /\ \A i \in A : e[i] \in B
      /\ \A m \in B : \E i \in A : m = e[i]
  BY <1>1, <1>2 DEF Ats
<1>4. \A i, j \in A : e[i] = e[j] => i = j
  <2>1. ASSUME NEW i \in A, NEW j \in A, e[i] = e[j] PROVE i = j
    <3>1. i \in DOMAIN log /\ j \in DOMAIN log BY DEF Ats
    <3>2. e[i] \in DOMAIN long /\ e[j] \in DOMAIN long BY <3>1
    <3>3. e[i] \in Int BY <3>2, LenProperties DEF OneMore
    <3>4. e[i] <= e[j] /\ e[j] <= e[i] BY <2>1, <3>3
    <3>5. i <= j /\ j <= i /\ i \in Int /\ j \in Int BY <1>1, <1>2, <3>1, <3>4
    <3>. QED BY <3>5
  <2>. QED BY <2>1
<1>. HIDE DEF A, B
<1>5. f \in Bijection(A, B) BY <1>3, <1>4 DEF Bijection, Injection, Surjection, IsInjective
<1>6. ExistsBijection(A, B) BY <1>5 DEF ExistsBijection
<1>7. IsFiniteSet(A)
  <2>1. IsFiniteSet(1..Len(log)) BY <1>2, FS_Interval
  <2>. QED BY <1>3, <2>1, FS_Subset
<1>8. Cardinality(B) = Cardinality(A) BY <1>6, <1>7, FS_Bijection
<1>. QED BY <1>8 DEF A, B

(***************************************************************************)
(* The rules of Scheme 2.                                                  *)
(***************************************************************************)
Says(rule, category, sub) == \E when : rule = Rule(when, category, sub)

LEMMA SaysParts ==
  ASSUME NEW rule, NEW category, NEW sub, Says(rule, category, sub)
  PROVE  rule.category = category /\ rule.sub = sub
BY DEF Says, Rule

Lawful(rule, categories) == \E category \in categories, sub \in Kinds : Says(rule, category, sub)

LEMMA LawfulParts ==
  ASSUME NEW rule, NEW categories, Lawful(rule, categories)
  PROVE  rule.category \in categories /\ rule.sub \in Kinds
BY SaysParts DEF Lawful

LEMMA TupleIsSeq ==
  ASSUME NEW n \in Nat, NEW f, f = [i \in 1..n |-> f[i]], NEW S, \A i \in 1..n : f[i] \in S
  PROVE  f \in Seq(S) /\ Len(f) = n /\ DOMAIN f = 1..n
<1>1. f \in [1..n -> S] OBVIOUS
<1>2. f \in Seq(S) BY <1>1
<1>3. DOMAIN f = 1..n BY <1>1
<1>4. Len(f) \in Nat /\ 1..Len(f) = 1..n BY <1>2, <1>3, LenProperties
<1>5. Len(f) = n BY <1>4
<1>. QED BY <1>2, <1>3, <1>5

LEMMA LeastFired ==
  ASSUME NEW counts, \A c \in 1..3 : counts[c] \in Nat
  PROVE  MostFired(counts) \in 0..3
<1>. DEFINE fired == {c \in 1..3 : counts[c] > 0}
            Best(c) == \A d \in fired :
                         counts[d] < counts[c] \/ (counts[d] = counts[c] /\ c <= d)
<1>1. DOMAIN Codes = 1..3 BY DEF Codes
<1>2. CASE fired = {} BY <1>1, <1>2 DEF MostFired
<1>3. CASE fired # {}
  <2>1. \E c \in fired : Best(c)
    <3>1. counts[1] \in Nat /\ counts[2] \in Nat /\ counts[3] \in Nat OBVIOUS
    <3>2. CASE counts[2] <= counts[1] /\ counts[3] <= counts[1]
      <4>1. 1 \in fired /\ Best(1) BY <1>3, <3>1, <3>2
      <4>. QED BY <4>1
    <3>3. CASE counts[1] < counts[2] /\ counts[3] <= counts[2]
      <4>1. 2 \in fired /\ Best(2) BY <1>3, <3>1, <3>3
      <4>. QED BY <4>1
    <3>4. CASE counts[1] < counts[3] /\ counts[2] < counts[3]
      <4>1. 3 \in fired /\ Best(3) BY <1>3, <3>1, <3>4
      <4>. QED BY <4>1
    <3>. QED BY <3>1, <3>2, <3>3, <3>4
  <2>2. MostFired(counts) = CHOOSE c \in fired : Best(c) BY <1>1, <1>3 DEF MostFired
  <2>3. (CHOOSE c \in fired : Best(c)) \in fired
    <3>. HIDE DEF Best, fired
    <3>. QED BY <2>1
  <2>. QED BY <2>2, <2>3
<1>. QED BY <1>2, <1>3

LEMMA CountsTyped ==
  ASSUME NEW log \in Seq(LogLines)
  PROVE  \A c \in 1..3 : CodeCounts(log)[c] \in Nat
<1>1. DOMAIN Codes = 1..3 BY DEF Codes
<1>2. ASSUME NEW codeOf, NEW c \in 1..3 PROVE CountsBy(log, codeOf)[c] \in Nat
  <2>. DEFINE S == {i \in DOMAIN log : log[i] \in DOMAIN codeOf /\ codeOf[log[i]] = c}
  <2>1. IsFiniteSet(DOMAIN log)
    <3>1. Len(log) \in Nat /\ DOMAIN log = 1..Len(log) BY LenProperties
    <3>. QED BY <3>1, FS_Interval
  <2>2. IsFiniteSet(S) BY <2>1, FS_Subset
  <2>3. Cardinality(S) \in Nat BY <2>2, FS_CardinalityType
  <2>. QED BY <1>1, <2>3 DEF CountsBy
<1>. QED BY <1>2 DEF CodeCounts

LEMMA EarlyLawful ==
  ASSUME NEW log
  PROVE  \A i \in 1..13 : Lawful(EarlyRules(log)[i], Categories)
<1>. DEFINE e == EarlyRules(log)
<1>. USE DEF Lawful, Says, Categories, Kinds
<1>1. Lawful(e[1], Categories) /\ Lawful(e[2], Categories) BY Zenon DEF EarlyRules
<1>3. Lawful(e[3], Categories) /\ Lawful(e[4], Categories) BY Zenon DEF EarlyRules
<1>5. Lawful(e[5], Categories) /\ Lawful(e[6], Categories) BY Zenon DEF EarlyRules
<1>7. Lawful(e[7], Categories) /\ Lawful(e[8], Categories) BY Zenon DEF EarlyRules
<1>9. Lawful(e[9], Categories) /\ Lawful(e[10], Categories) BY Zenon DEF EarlyRules
<1>11. Lawful(e[11], Categories) /\ Lawful(e[12], Categories) BY Zenon DEF EarlyRules
<1>13. Lawful(e[13], Categories) BY Zenon DEF EarlyRules
<1>. HIDE DEF e, Lawful, Says, Categories, Kinds
<1>. DEFINE lawful(i) == Lawful(e[i], Categories)
<1>14. /\ lawful(1) /\ lawful(2) /\ lawful(3) /\ lawful(4) /\ lawful(5) /\ lawful(6)
       /\ lawful(7) /\ lawful(8) /\ lawful(9) /\ lawful(10) /\ lawful(11) /\ lawful(12)
       /\ lawful(13)
  BY <1>1, <1>3, <1>5, <1>7, <1>9, <1>11, <1>13
<1>. HIDE DEF lawful
<1>15. \A i \in 1..13 : lawful(i) BY <1>14
<1>. QED BY <1>15 DEF e, lawful

LEMMA LateLawful ==
  ASSUME NEW log \in Seq(LogLines)
  PROVE  \A i \in 1..10 : Lawful(LateRules(log)[i], Categories)
<1>. DEFINE e == LateRules(log)
            code == MostFired(CodeCounts(log))
            name == IF code = 0 THEN None ELSE Codes[code]
<1>1. code \in 0..3 BY CountsTyped, LeastFired
<1>. HIDE DEF code
<1>2. name \in {None, Codes[1], Codes[2], Codes[3]}
  <2>1. code \in {0, 1, 2, 3} BY <1>1
  <2>. QED BY <2>1
<1>3. name \in Kinds
  <2>. HIDE DEF name
  <2>. QED BY <1>2 DEF Kinds
<1>. HIDE DEF name
<1>4. LinkerKind(log) \in {None, "-l", "sym"} BY DEF LinkerKind
<1>5. LinkerKind(log) \in Kinds BY <1>4 DEF Kinds
<1>6. Says(e[1], "NIGHTLY_REQUIRED", name) /\ Says(e[2], "RUSTC_BITROT", name)
  BY DEF Says, LateRules, name, code
<1>7. Says(e[7], "NATIVE_DEP_MISSING", LinkerKind(log)) BY DEF Says, LateRules
<1>8. /\ Lawful(e[1], Categories) /\ Lawful(e[2], Categories) /\ Lawful(e[7], Categories)
  BY <1>3, <1>5, <1>6, <1>7 DEF Lawful, Categories
<1>. USE DEF Lawful, Says, Categories, Kinds
<1>9. Lawful(e[3], Categories) /\ Lawful(e[4], Categories) BY Zenon DEF LateRules
<1>10. Lawful(e[5], Categories) /\ Lawful(e[6], Categories) BY Zenon DEF LateRules
<1>11. Lawful(e[8], Categories) /\ Lawful(e[9], Categories) BY Zenon DEF LateRules
<1>12. Lawful(e[10], Categories) BY Zenon DEF LateRules
<1>. HIDE DEF e, Lawful, Says, Categories, Kinds
<1>. DEFINE lawful(i) == Lawful(e[i], Categories)
<1>13. /\ lawful(1) /\ lawful(2) /\ lawful(3) /\ lawful(4) /\ lawful(5)
       /\ lawful(6) /\ lawful(7) /\ lawful(8) /\ lawful(9) /\ lawful(10)
  BY <1>8, <1>9, <1>10, <1>11, <1>12
<1>. HIDE DEF lawful
<1>14. \A i \in 1..10 : lawful(i) BY <1>13
<1>. QED BY <1>14 DEF e, lawful

Rules(log) == EarlyRules(log) \o LateRules(log)

LEMMA RulesAre ==
  ASSUME NEW log
  PROVE  /\ DOMAIN Rules(log) = 1..23
         /\ \A i \in 1..13 : Rules(log)[i] = EarlyRules(log)[i]
         /\ \A i \in 14..23 : Rules(log)[i] = LateRules(log)[i - 13]
<1>. DEFINE early == EarlyRules(log)
            late == LateRules(log)
            S == {early[i] : i \in 1..13} \cup {late[i] : i \in 1..10}
            all == early \o late
<1>1. early = [i \in 1..13 |-> early[i]] BY DEF EarlyRules
<1>2. late = [i \in 1..10 |-> late[i]] BY DEF LateRules
<1>. HIDE DEF early, late
<1>3. (\A i \in 1..13 : early[i] \in S) /\ (\A i \in 1..10 : late[i] \in S) OBVIOUS
<1>. HIDE DEF S
<1>4. early \in Seq(S) /\ Len(early) = 13 BY <1>1, <1>3, TupleIsSeq
<1>5. late \in Seq(S) /\ Len(late) = 10 BY <1>2, <1>3, TupleIsSeq
<1>6. /\ all \in Seq(S) /\ Len(all) = Len(early) + Len(late)
      /\ \A i \in 1..Len(early)+Len(late) :
           all[i] = IF i <= Len(early) THEN early[i] ELSE late[i - Len(early)]
  BY <1>4, <1>5, ConcatProperties
<1>. HIDE DEF all
<1>7. Len(all) = 23 BY <1>4, <1>5, <1>6
<1>8. DOMAIN all = 1..23 BY <1>6, <1>7, LenProperties
<1>9. \A i \in 1..23 : all[i] = IF i <= 13 THEN early[i] ELSE late[i - 13]
  BY <1>4, <1>5, <1>6
<1>10. /\ \A i \in 1..13 : all[i] = early[i]
       /\ \A i \in 14..23 : all[i] = late[i - 13]
  BY <1>9
<1>11. Rules(log) = all BY DEF Rules, all, early, late
<1>. QED BY <1>8, <1>10, <1>11 DEF early, late

LEMMA LastRule ==
  ASSUME NEW log
  PROVE  /\ Rules(log)[22].category = "NO_LOG"
         /\ Rules(log)[23].category = "OTHER" /\ Rules(log)[23].when
<1>1. /\ Rules(log)[21] = LateRules(log)[8] /\ Rules(log)[22] = LateRules(log)[9]
      /\ Rules(log)[23] = LateRules(log)[10]
  <2>1. \A i \in 14..23 : Rules(log)[i] = LateRules(log)[i - 13] BY RulesAre
  <2>. QED BY <2>1
<1>2. Says(LateRules(log)[9], "NO_LOG", None) BY DEF Says, LateRules
<1>3. LateRules(log)[10] = Rule(TRUE, "OTHER", None) BY DEF LateRules
<1>4. LateRules(log)[10].category = "OTHER" /\ LateRules(log)[10].when BY <1>3 DEF Rule
<1>5. LateRules(log)[9].category = "NO_LOG" BY <1>2, SaysParts
<1>. QED BY <1>1, <1>4, <1>5

\* The first rule that applies is the one decided by.
First(rules, i) ==
  i \in DOMAIN rules /\ rules[i].when /\ \A j \in DOMAIN rules : rules[j].when => i <= j

LEMMA FirstDecides ==
  ASSUME NEW n \in Nat, NEW rules, DOMAIN rules = 1..n, NEW i, First(rules, i)
  PROVE  Decide(rules) = [category |-> rules[i].category, sub |-> rules[i].sub]
<1>. DEFINE P(k) == rules[k].when /\ \A j \in DOMAIN rules : rules[j].when => k <= j
<1>1. i \in 1..n /\ P(i) BY DEF First
<1>2. ASSUME NEW k \in 1..n, P(k) PROVE k = i
  <2>1. k <= i /\ i <= k BY <1>1, <1>2
  <2>. QED BY <1>1, <1>2, <2>1
<1>3. (CHOOSE k \in DOMAIN rules : P(k)) = i
  <2>. HIDE DEF P
  <2>. QED BY <1>1, <1>2
<1>. QED BY <1>3 DEF Decide

LEMMA FirstExists ==
  ASSUME NEW n \in Nat \ {0}, NEW rules, DOMAIN rules = 1..n, rules[n].when
  PROVE  \E i : First(rules, i)
<1>. DEFINE on == {i \in 1..n : rules[i].when}
<1>1. on \subseteq Nat /\ on # {}
  <2>1. n \in on OBVIOUS
  <2>. QED BY <2>1
<1>2. PICK i \in on : \A j \in on : i <= j BY <1>1, LeastOf
<1>. QED BY <1>2 DEF First

\* If the rules are lawful and the last one always applies, the decision is lawful.
LEMMA DecideTyped ==
  ASSUME NEW n \in Nat \ {0}, NEW rules, DOMAIN rules = 1..n, rules[n].when, NEW categories,
         \A i \in 1..n : Lawful(rules[i], categories)
  PROVE  Decide(rules) \in [category : categories, sub : Kinds]
<1>1. PICK i : First(rules, i) BY FirstExists
<1>2. Decide(rules) = [category |-> rules[i].category, sub |-> rules[i].sub]
  BY <1>1, FirstDecides
<1>3. i \in 1..n BY <1>1 DEF First
<1>. QED BY <1>2, <1>3, LawfulParts

LEMMA FullTyped ==
  ASSUME NEW log \in Seq(LogLines)
  PROVE  ClassifyFull(log) \in [category : Categories, sub : Kinds]
<1>. DEFINE rules == Rules(log)
<1>1. /\ DOMAIN rules = 1..23
      /\ \A i \in 1..13 : rules[i] = EarlyRules(log)[i]
      /\ \A i \in 14..23 : rules[i] = LateRules(log)[i - 13]
  BY RulesAre
<1>2. rules[23].when BY LastRule
<1>. HIDE DEF rules
<1>3. ASSUME NEW i \in 1..23 PROVE Lawful(rules[i], Categories)
  <2>1. CASE i \in 1..13 BY <1>1, <2>1, EarlyLawful
  <2>2. CASE i \in 14..23
    <3>1. i - 13 \in 1..10 BY <2>2
    <3>. QED BY <1>1, <2>2, <3>1, LateLawful
  <2>. QED BY <2>1, <2>2
<1>4. Decide(rules) \in [category : Categories, sub : Kinds]
  <2>. DEFINE n == 23
  <2>1. /\ n \in Nat \ {0} /\ DOMAIN rules = 1..n /\ rules[n].when
        /\ \A i \in 1..n : Lawful(rules[i], Categories)
    BY <1>1, <1>2, <1>3
  <2>. HIDE DEF n
  <2>. QED BY <2>1, DecideTyped
<1>. QED BY <1>4 DEF ClassifyFull, rules, Rules

LEMMA CompileKinds ==
  ASSUME NEW log
  PROVE  CompileSub(log) \in Kinds
<1>1. CompileSub(log) \in {"", "TRAIT_BOUND_NOT_SATISFIED", "TYPE_MISMATCH", "OTHER_COMPILE_ERROR"}
  BY DEF CompileSub
<1>. QED BY <1>1 DEF Kinds

LEMMA UpdateTyped ==
  ASSUME NEW log
  PROVE  Classify(log) \in [category : TopCategories, sub : Kinds]
<1>. DEFINE e == UpdateRules(log)
<1>1. Says(e[1], "COMPILATION_FAILURE", CompileSub(log)) BY DEF Says, UpdateRules
<1>2. Lawful(e[1], TopCategories) BY <1>1, CompileKinds DEF Lawful, TopCategories
<1>. USE DEF Lawful, Says, TopCategories, Kinds
<1>3. Lawful(e[2], TopCategories) /\ Lawful(e[3], TopCategories) BY Zenon DEF UpdateRules
<1>4. Lawful(e[4], TopCategories) /\ Lawful(e[5], TopCategories) BY Zenon DEF UpdateRules
<1>5. Lawful(e[6], TopCategories) /\ Lawful(e[7], TopCategories) BY Zenon DEF UpdateRules
<1>6. Lawful(e[8], TopCategories) /\ Lawful(e[9], TopCategories) BY Zenon DEF UpdateRules
<1>. HIDE DEF Lawful, Says, TopCategories, Kinds
<1>7. e[9] = Rule(TRUE, "OTHER", None) BY DEF UpdateRules
<1>8. e[9].when BY <1>7 DEF Rule
<1>9. e = [i \in 1..9 |-> e[i]] BY DEF UpdateRules
<1>. HIDE DEF e
<1>10. DOMAIN e = 1..9 BY <1>9
<1>. DEFINE lawful(i) == Lawful(e[i], TopCategories)
<1>11. /\ lawful(1) /\ lawful(2) /\ lawful(3) /\ lawful(4) /\ lawful(5)
       /\ lawful(6) /\ lawful(7) /\ lawful(8) /\ lawful(9)
  BY <1>2, <1>3, <1>4, <1>5, <1>6
<1>. HIDE DEF lawful
<1>12. \A i \in 1..9 : lawful(i) BY <1>11
<1>13. \A i \in 1..9 : Lawful(e[i], TopCategories) BY <1>12 DEF lawful
<1>14. Decide(e) \in [category : TopCategories, sub : Kinds]
  <2>. DEFINE n == 9
  <2>1. /\ n \in Nat \ {0} /\ DOMAIN e = 1..n /\ e[n].when
        /\ \A i \in 1..n : Lawful(e[i], TopCategories)
    BY <1>8, <1>10, <1>13
  <2>. HIDE DEF n
  <2>. QED BY <2>1, DecideTyped
<1>. QED BY <1>14 DEF Classify, e

(***************************************************************************)
(* Noise.                                                                  *)
(***************************************************************************)
LEMMA MoreTerminal ==
  ASSUME NEW log, NEW long, NEW x, OneMore(log, long, x), x \notin ErrorLines \ Generic
  PROVE  Terminal(long) = Terminal(log)
<1>. DEFINE K == ErrorLines \ Generic
<1>. HIDE DEF K
<1>1. x \notin K BY DEF K
<1>2. /\ Ats(long, K) = {} <=> Ats(log, K) = {}
      /\ Ats(log, K) # {} =>
           long[Highest(Ats(long, K))]
             = log[Highest(Ats(log, K))]
  BY <1>1, MoreLast
<1>3. \A l : Terminal(l) = IF Ats(l, K) = {} THEN ""
                           ELSE l[Highest(Ats(l, K))]
  BY DEF Terminal, TerminalOf, Ats, K, Highest
<1>. QED BY <1>2, <1>3

LEMMA MoreLinker ==
  ASSUME NEW log, NEW long, NEW x, OneMore(log, long, x), x \notin JsonLinker
  PROVE  LinkerKind(long) = LinkerKind(log)
<1>. DEFINE K == JsonLinker
<1>. HIDE DEF K
<1>1. x \notin K BY DEF K
<1>2. /\ Ats(long, K) = {} <=> Ats(log, K) = {}
      /\ Ats(log, K) # {} =>
           long[Lowest(Ats(long, K))]
             = log[Lowest(Ats(log, K))]
  BY <1>1, MoreLast
<1>3. \A l : LinkerKind(l) =
        IF Ats(l, K) = {} THEN None
        ELSE IF l[Lowest(Ats(l, K))] = "json lib"
             THEN "-l" ELSE "sym"
  BY DEF LinkerKind, Ats, K, Lowest
<1>. QED BY <1>2, <1>3

LEMMA MoreCounts ==
  ASSUME NEW log, NEW long, NEW x, OneMore(log, long, x),
         x \notin DOMAIN JsonCode, x \notin DOMAIN TextCode
  PROVE  CodeCounts(long) = CodeCounts(log)
<1>1. ASSUME NEW codeOf, x \notin DOMAIN codeOf PROVE CountsBy(long, codeOf) = CountsBy(log, codeOf)
  <2>1. ASSUME NEW c PROVE
          Cardinality({i \in DOMAIN long : long[i] \in DOMAIN codeOf /\ codeOf[long[i]] = c})
            = Cardinality({i \in DOMAIN log : log[i] \in DOMAIN codeOf /\ codeOf[log[i]] = c})
    <3>. DEFINE K == {l \in DOMAIN codeOf : codeOf[l] = c}
    <3>1. x \notin K BY <1>1
    <3>2. Cardinality(Ats(long, K)) = Cardinality(Ats(log, K)) BY <3>1, MoreCount
    <3>3. \A t : Ats(t, K) = {i \in DOMAIN t : t[i] \in DOMAIN codeOf /\ codeOf[t[i]] = c}
      BY DEF Ats
    <3>. QED BY <3>2, <3>3
  <2>. QED BY <2>1 DEF CountsBy
<1>2. Has(long, DOMAIN JsonCode) = Has(log, DOMAIN JsonCode) BY MoreHas
<1>. QED BY <1>1, <1>2 DEF CodeCounts

LEMMA HasGrows ==
  ASSUME NEW log, NEW long, NEW x, OneMore(log, long, x), NEW K, Has(log, K)
  PROVE  Has(long, K)
BY DEF OneMore, Has

\* A rule of one log and the same rule of another: it has the name, and what made
\* it apply still does.
Kept(a, b) == b.category = a.category /\ b.sub = a.sub /\ (a.when => b.when)

LEMMA KeptRule ==
  ASSUME NEW v \in BOOLEAN, NEW w \in BOOLEAN, v => w, NEW category, NEW sub
  PROVE  Kept(Rule(v, category, sub), Rule(w, category, sub))
<1>1. \A u \in BOOLEAN : /\ Rule(u, category, sub).when = u
                         /\ Rule(u, category, sub).category = category
                         /\ Rule(u, category, sub).sub = sub
  BY DEF Rule
<1>. QED BY <1>1 DEF Kept

LEMMA KeptSelf == \A a : Kept(a, a)
BY DEF Kept

\* The rules that a line of chatter or a summary may make apply.
Matching(x) ==
  {i \in 1..23 : \/ i = 4 /\ x = "incompatible compiler"
                 \/ i = 7 /\ x = "Package fuse was not found"
                 \/ i \in 16..18 /\ x \in Chatter
                 \/ i = 21 /\ x \in Generic}

LEMMA MoreEarly ==
  ASSUME NEW log, NEW long, NEW x \in Chatter \cup Generic, OneMore(log, long, x)
  PROVE  \A i \in 1..13 : \/ EarlyRules(long)[i] = EarlyRules(log)[i]
                          \/ /\ Kept(EarlyRules(log)[i], EarlyRules(long)[i])
                             /\ i \in Matching(x)
<1>. DEFINE r == EarlyRules(log)
            q == EarlyRules(long)
<1>1. \A K : x \notin K => Has(long, K) = Has(log, K) BY MoreHas
<1>2. x \notin ErrorLines \ Generic
  BY DEF Chatter, ChatterLines, JsonWarning, Gap, Generic, ErrorLines, TextCode
<1>3. Terminal(long) = Terminal(log) BY <1>2, MoreTerminal
<1>4. /\ Has(long, {"error: reproducer timeout"}) = Has(log, {"error: reproducer timeout"})
      /\ Has(long, {"error: no Cargo.toml"}) = Has(log, {"error: no Cargo.toml"})
      /\ Has(long, {"error: lock file stale", "error: cannot update lock file"})
           = Has(log, {"error: lock file stale", "error: cannot update lock file"})
      /\ Has(long, {"error: json-target-spec"}) = Has(log, {"error: json-target-spec"})
  BY <1>1 DEF Chatter, ChatterLines, JsonWarning, Gap, Generic
<1>5. /\ Has(long, {"error: requires newer rustc"}) = Has(log, {"error: requires newer rustc"})
      /\ Has(long, {"error: failed to get"}) = Has(log, {"error: failed to get"})
      /\ Has(long, {"error: resolve patches"}) = Has(log, {"error: resolve patches"})
      /\ Has(long, {"error: select a version"}) = Has(log, {"error: select a version"})
  BY <1>1 DEF Chatter, ChatterLines, JsonWarning, Gap, Generic
<1>6. ScriptPanics(long) = ScriptPanics(log) BY <1>3 DEF ScriptPanics
<1>7. q[1] = r[1] /\ q[2] = r[2] /\ q[3] = r[3] /\ q[5] = r[5] BY <1>4 DEF EarlyRules
<1>8. q[6] = r[6] /\ q[12] = r[12] /\ q[13] = r[13] BY <1>3, <1>6 DEF EarlyRules
<1>9. q[8] = r[8] /\ q[9] = r[9] /\ q[10] = r[10] /\ q[11] = r[11] BY <1>5 DEF EarlyRules
<1>10. q[4] = r[4] \/ (Kept(r[4], q[4]) /\ 4 \in Matching(x))
  <2>. DEFINE K == {"incompatible compiler"}
  <2>1. \A l : EarlyRules(l)[4] = Rule(Has(l, K), "NIGHTLY_REQUIRED", None)
    BY Zenon DEF EarlyRules
  <2>2. \A l : Has(l, K) \in BOOLEAN BY DEF Has
  <2>3. Has(log, K) => Has(long, K) BY HasGrows
  <2>4. x \notin K => Has(long, K) = Has(log, K) BY <1>1
  <2>5. x \in K => 4 \in Matching(x) BY 4 \in 1..23 DEF Matching
  <2>. HIDE DEF K
  <2>6. Kept(r[4], q[4]) BY <2>1, <2>2, <2>3, KeptRule
  <2>. QED BY <2>1, <2>4, <2>5, <2>6
<1>11. q[7] = r[7] \/ (Kept(r[7], q[7]) /\ 7 \in Matching(x))
  <2>. DEFINE K == {"Package fuse was not found"}
              Ends(l) == Terminal(l) = "error: fuse build"
              when(l) == Has(l, K) /\ Ends(l)
  <2>1. \A l : EarlyRules(l)[7] = Rule(when(l), "NATIVE_DEP_MISSING", "fuse")
    BY Zenon DEF EarlyRules
  <2>2. \A l : when(l) \in BOOLEAN BY DEF Has
  <2>3. when(log) => when(long) BY <1>3, HasGrows
  <2>4. x \notin K => when(long) = when(log) BY <1>1, <1>3
  <2>5. x \in K => 7 \in Matching(x) BY 7 \in 1..23 DEF Matching
  <2>. HIDE DEF K, when
  <2>6. Kept(r[7], q[7]) BY <2>1, <2>2, <2>3, KeptRule
  <2>. QED BY <2>1, <2>4, <2>5, <2>6
<1>. HIDE DEF r, q
<1>12. ASSUME NEW i \in 1..13
       PROVE  q[i] = r[i] \/ (Kept(r[i], q[i]) /\ i \in Matching(x))
  <2>1. \/ i = 1 \/ i = 2 \/ i = 3 \/ i = 4 \/ i = 5 \/ i = 6 \/ i = 7 \/ i = 8 \/ i = 9
        \/ i = 10 \/ i = 11 \/ i = 12 \/ i = 13
    OBVIOUS
  <2>. QED BY <2>1, <1>7, <1>8, <1>9, <1>10, <1>11
<1>. QED BY <1>12 DEF r, q

LEMMA MoreLate ==
  ASSUME NEW log, NEW long, NEW x \in Chatter \cup Generic, OneMore(log, long, x)
  PROVE  \A i \in 1..10 : \/ LateRules(long)[i] = LateRules(log)[i]
                          \/ /\ Kept(LateRules(log)[i], LateRules(long)[i])
                             /\ i + 13 \in Matching(x)
<1>. DEFINE r == LateRules(log)
            q == LateRules(long)
            tests == {"test result: FAILED", "error: test failed"}
            uninit == {"failures: mem uninitialized"}
            fetch == {"failed to fetch"}
            format == {"error: message format"}
            final == {"error: could not compile", "error: could not compile, N errors"}
<1>1. \A K : x \notin K => Has(long, K) = Has(log, K) BY MoreHas
<1>2. x \notin ErrorLines \ Generic
  BY DEF Chatter, ChatterLines, JsonWarning, Gap, Generic, ErrorLines, TextCode
<1>3. Terminal(long) = Terminal(log) BY <1>2, MoreTerminal
<1>4. x \notin DOMAIN JsonCode /\ x \notin DOMAIN TextCode /\ x \notin JsonLinker
  BY DEF Chatter, ChatterLines, JsonWarning, Gap, Generic, JsonCode, TextCode, JsonLinker
<1>5. CodeCounts(long) = CodeCounts(log) BY <1>4, MoreCounts
<1>6. LinkerKind(long) = LinkerKind(log) BY <1>4, MoreLinker
<1>7. Has(long, format) = Has(log, format)
  BY <1>1 DEF Chatter, ChatterLines, JsonWarning, Gap, Generic
<1>8. \A l, K : Has(l, K) \in BOOLEAN BY DEF Has
<1>9. \A K : Has(log, K) => Has(long, K) BY HasGrows
<1>10. x \in tests \cup uninit \cup fetch => x \in Chatter
  BY <1>2 DEF ErrorLines, Generic, Chatter
<1>11. x \in final => x \in Generic BY <1>2 DEF ErrorLines, Generic
<1>12. q[1] = r[1] /\ q[2] = r[2] BY <1>5 DEF LateRules
<1>13. q[6] = r[6] /\ q[7] = r[7] BY <1>6, <1>7 DEF LateRules
<1>14. q[9] = r[9] /\ q[10] = r[10] BY <1>3 DEF LateRules
<1>. HIDE DEF tests, uninit, fetch, final, format
<1>15. q[3] = r[3] \/ (Kept(r[3], q[3]) /\ 16 \in Matching(x))
  <2>. DEFINE when(l) == Has(l, tests) /\ Has(l, uninit)
  <2>1. \A l : LateRules(l)[3] = Rule(when(l), "RUSTC_BITROT", "RUNTIME_MEM_UNINIT")
    BY Zenon DEF LateRules, tests, uninit
  <2>2. \A l : when(l) \in BOOLEAN OBVIOUS
  <2>3. when(log) => when(long) BY <1>9
  <2>4. x \notin Chatter => when(long) = when(log) BY <1>1, <1>10
  <2>5. x \in Chatter => 16 \in Matching(x) BY DEF Matching
  <2>. HIDE DEF when
  <2>6. Kept(r[3], q[3]) BY <2>1, <2>2, <2>3, KeptRule
  <2>. QED BY <2>1, <2>4, <2>5, <2>6
<1>16. q[4] = r[4] \/ (Kept(r[4], q[4]) /\ 17 \in Matching(x))
  <2>1. \A l : LateRules(l)[4] = Rule(Has(l, tests), "TEST_FAILURE", None)
    BY Zenon DEF LateRules, tests
  <2>2. x \notin Chatter => Has(long, tests) = Has(log, tests) BY <1>1, <1>10
  <2>3. x \in Chatter => 17 \in Matching(x) BY DEF Matching
  <2>4. Kept(r[4], q[4]) BY <1>8, <1>9, <2>1, KeptRule
  <2>. QED BY <2>1, <2>2, <2>3, <2>4
<1>17. q[5] = r[5] \/ (Kept(r[5], q[5]) /\ 18 \in Matching(x))
  <2>1. \A l : LateRules(l)[5] = Rule(Has(l, fetch), "NETWORK_ERROR", None)
    BY Zenon DEF LateRules, fetch
  <2>2. x \notin Chatter => Has(long, fetch) = Has(log, fetch) BY <1>1, <1>10
  <2>3. x \in Chatter => 18 \in Matching(x) BY DEF Matching
  <2>4. Kept(r[5], q[5]) BY <1>8, <1>9, <2>1, KeptRule
  <2>. QED BY <2>1, <2>2, <2>3, <2>4
<1>18. q[8] = r[8] \/ (Kept(r[8], q[8]) /\ 21 \in Matching(x))
  <2>1. \A l : LateRules(l)[8] = Rule(Has(l, final), "RUSTC_BITROT", None)
    BY Zenon DEF LateRules, final
  <2>2. x \notin Generic => Has(long, final) = Has(log, final) BY <1>1, <1>11
  <2>3. x \in Generic => 21 \in Matching(x) BY DEF Matching
  <2>4. Kept(r[8], q[8]) BY <1>8, <1>9, <2>1, KeptRule
  <2>. QED BY <2>1, <2>2, <2>3, <2>4
<1>. HIDE DEF r, q
<1>19. ASSUME NEW i \in 1..10
       PROVE  q[i] = r[i] \/ (Kept(r[i], q[i]) /\ i + 13 \in Matching(x))
  <2>1. \/ i = 1 \/ i = 2 \/ i = 3 \/ i = 4 \/ i = 5 \/ i = 6 \/ i = 7 \/ i = 8 \/ i = 9
        \/ i = 10
    OBVIOUS
  <2>. QED BY <2>1, <1>12, <1>13, <1>14, <1>15, <1>16, <1>17, <1>18
<1>. QED BY <1>19 DEF r, q

LEMMA MoreRules ==
  ASSUME NEW log, NEW long, NEW x \in Chatter \cup Generic, OneMore(log, long, x)
  PROVE  \A i \in 1..23 : \/ Rules(long)[i] = Rules(log)[i]
                          \/ Kept(Rules(log)[i], Rules(long)[i]) /\ i \in Matching(x)
<1>1. ASSUME NEW i \in 1..23
      PROVE  \/ Rules(long)[i] = Rules(log)[i]
             \/ Kept(Rules(log)[i], Rules(long)[i]) /\ i \in Matching(x)
  <2>1. CASE i \in 1..13
    <3>1. Rules(log)[i] = EarlyRules(log)[i] /\ Rules(long)[i] = EarlyRules(long)[i]
      BY <2>1, RulesAre
    <3>. QED BY <2>1, <3>1, MoreEarly
  <2>2. CASE i \in 14..23
    <3>. DEFINE m == i - 13
    <3>1. m \in 1..10 /\ m + 13 = i BY <2>2
    <3>2. Rules(log)[i] = LateRules(log)[m] /\ Rules(long)[i] = LateRules(long)[m]
      BY <2>2, RulesAre
    <3>. HIDE DEF m
    <3>. QED BY <3>1, <3>2, MoreLate
  <2>. QED BY <2>1, <2>2
<1>. QED BY <1>1

\* So the first rule that applies is the same, or an earlier one that the line
\* made apply.
LEMMA MoreFirst ==
  ASSUME NEW log, NEW long, NEW x \in Chatter \cup Generic, OneMore(log, long, x)
  PROVE  \E i \in 1..23, j \in 1..23 :
           /\ First(Rules(log), i) /\ First(Rules(long), j)
           /\ ClassifyFull(log)
                = [category |-> Rules(log)[i].category, sub |-> Rules(log)[i].sub]
           /\ ClassifyFull(long)
                = [category |-> Rules(long)[j].category, sub |-> Rules(long)[j].sub]
           /\ ClassifyFull(long) = ClassifyFull(log) \/ (j < i /\ j \in Matching(x))
<1>. DEFINE r == Rules(log)
            q == Rules(long)
            n == 23
<1>1. DOMAIN r = 1..n /\ DOMAIN q = 1..n BY RulesAre
<1>2. r[n].when /\ q[n].when BY LastRule
<1>3. \A i \in 1..n : q[i] = r[i] \/ (Kept(r[i], q[i]) /\ i \in Matching(x)) BY MoreRules
<1>4. ClassifyFull(log) = Decide(r) /\ ClassifyFull(long) = Decide(q)
  BY DEF ClassifyFull, Rules
<1>5. n \in Nat \ {0} OBVIOUS
<1>. HIDE DEF r, q, n
<1>6. PICK i : First(r, i) BY <1>1, <1>2, <1>5, FirstExists
<1>7. PICK j : First(q, j) BY <1>1, <1>2, <1>5, FirstExists
<1>8. /\ Decide(r) = [category |-> r[i].category, sub |-> r[i].sub]
      /\ Decide(q) = [category |-> q[j].category, sub |-> q[j].sub]
  BY <1>1, <1>5, <1>6, <1>7, FirstDecides
<1>9. i \in 1..n /\ j \in 1..n /\ r[i].when /\ q[j].when BY <1>1, <1>6, <1>7 DEF First
<1>10. q[i].when BY <1>3, <1>9 DEF Kept
<1>11. j <= i BY <1>1, <1>7, <1>9, <1>10 DEF First
<1>12. Decide(q) = Decide(r) \/ (j < i /\ j \in Matching(x))
  <2>1. CASE j = i BY <1>3, <1>8, <1>9, <2>1 DEF Kept
  <2>2. CASE j < i
    <3>1. ~r[j].when BY <1>1, <1>5, <1>6, <1>9, <2>2 DEF First
    <3>2. q[j] # r[j] BY <1>9, <3>1
    <3>. QED BY <1>3, <1>9, <2>2, <3>2
  <2>. QED BY <1>5, <1>9, <1>11, <2>1, <2>2
<1>. QED BY <1>4, <1>6, <1>7, <1>8, <1>9, <1>12 DEF r, q, n

\* Which rules those are that a line of chatter may make apply.
LEMMA NamesOfMatching ==
  ASSUME NEW log
  PROVE  /\ Rules(log)[4].category = "NIGHTLY_REQUIRED"
         /\ Rules(log)[7].category = "NATIVE_DEP_MISSING"
         /\ Rules(log)[7].when => Terminal(log) = "error: fuse build"
<1>1. Rules(log)[4] = EarlyRules(log)[4] /\ Rules(log)[7] = EarlyRules(log)[7] BY RulesAre
<1>. DEFINE Ends == Terminal(log) = "error: fuse build"
            when == Has(log, {"Package fuse was not found"}) /\ Ends
<1>2. EarlyRules(log)[7] = Rule(when, "NATIVE_DEP_MISSING", "fuse")
  BY Zenon DEF EarlyRules
<1>3. Says(EarlyRules(log)[4], "NIGHTLY_REQUIRED", None) BY Zenon DEF EarlyRules, Says
<1>4. EarlyRules(log)[7].when = when /\ EarlyRules(log)[7].category = "NATIVE_DEP_MISSING"
  <2>. HIDE DEF when
  <2>. QED BY <1>2 DEF Rule
<1>. QED BY <1>1, <1>3, <1>4, SaysParts

\* The rules behind those all give a weak name.
LEMMA WeakRules ==
  ASSUME NEW log, NEW i \in 17..23, Rules(log)[i].when
  PROVE  [category |-> Rules(log)[i].category, sub |-> Rules(log)[i].sub] \in Weak
<1>. DEFINE e == LateRules(log)
            m == i - 13
            linker == LinkerKind(log)
            weak(rule) == [category |-> rule.category, sub |-> rule.sub] \in Weak
<1>1. m \in 4..10 /\ Rules(log)[i] = e[m] BY RulesAre
<1>2. ASSUME NEW rule, NEW category, NEW sub, Says(rule, category, sub),
             [category |-> category, sub |-> sub] \in Weak
      PROVE  weak(rule)
  BY <1>2, SaysParts
<1>3. /\ Says(e[4], "TEST_FAILURE", None) /\ Says(e[5], "NETWORK_ERROR", None)
      /\ Says(e[6], "OLD_MESSAGE_FORMAT", None) /\ Says(e[8], "RUSTC_BITROT", None)
  BY Zenon DEF LateRules, Says
<1>4. Says(e[9], "NO_LOG", None) /\ Says(e[10], "OTHER", None) BY Zenon DEF LateRules, Says
<1>5. Says(e[7], "NATIVE_DEP_MISSING", linker) BY Zenon DEF LateRules, Says
<1>6. e[7].when => linker # None
  <2>. DEFINE when == LinkerKind(log) # None
  <2>1. e[7] = Rule(when, "NATIVE_DEP_MISSING", linker) BY Zenon DEF LateRules
  <2>2. e[7].when = when
    <3>. HIDE DEF when, linker, e
    <3>. QED BY <2>1 DEF Rule
  <2>. QED BY <2>2
<1>7. linker \in {None, "-l", "sym"} BY DEF LinkerKind
<1>. HIDE DEF e, m, linker
<1>8. weak(e[4]) /\ weak(e[5]) /\ weak(e[6]) /\ weak(e[8]) /\ weak(e[9]) /\ weak(e[10])
  <2>. DEFINE names == {"TEST_FAILURE", "NETWORK_ERROR", "OLD_MESSAGE_FORMAT", "RUSTC_BITROT",
                        "NO_LOG", "OTHER"}
  <2>1. \A c \in names : [category |-> c, sub |-> None] \in Weak BY DEF Weak
  <2>. HIDE DEF weak
  <2>. QED BY <1>2, <1>3, <1>4, <2>1
<1>9. e[7].when => weak(e[7])
  <2>1. \A s \in {"-l", "sym"} : [category |-> "NATIVE_DEP_MISSING", sub |-> s] \in Weak
    BY DEF Weak
  <2>. HIDE DEF weak
  <2>. QED BY <1>2, <1>5, <1>6, <1>7, <2>1
<1>. HIDE DEF weak
<1>10. m = 4 \/ m = 5 \/ m = 6 \/ m = 7 \/ m = 8 \/ m = 9 \/ m = 10 BY <1>1
<1>11. weak(Rules(log)[i]) BY <1>1, <1>8, <1>9, <1>10
<1>. QED BY <1>11 DEF weak

\* Whatever a build printed: a line of chatter before it hides no cause.
LEMMA ChatterBefore ==
  ASSUME NEW log \in Seq(LogLines), NEW x \in Chatter
  PROVE  LET was == ClassifyFull(log)
             now == ClassifyFull(<<x>> \o log) IN
         \/ now = was
         \/ was \in Weak
         \/ x = "incompatible compiler" /\ now.category = "NIGHTLY_REQUIRED"
         \/ /\ x = "Package fuse was not found" /\ Terminal(log) = "error: fuse build"
            /\ now.category = "NATIVE_DEP_MISSING"
<1>. DEFINE long == <<x>> \o log
<1>1. x \in LogLines BY DEF Chatter, LogLines
<1>2. OneMore(log, long, x) BY <1>1, Before
<1>3. x \notin ErrorLines \ Generic
  BY DEF Chatter, ChatterLines, JsonWarning, Gap, Generic, ErrorLines, TextCode
<1>4. x \notin Generic BY DEF Chatter, ChatterLines, JsonWarning, Gap, Generic
<1>. HIDE DEF long
<1>5. Terminal(long) = Terminal(log) BY <1>2, <1>3, MoreTerminal
<1>6. PICK i \in 1..23, j \in 1..23 :
        /\ First(Rules(log), i) /\ First(Rules(long), j)
        /\ ClassifyFull(log)
             = [category |-> Rules(log)[i].category, sub |-> Rules(log)[i].sub]
        /\ ClassifyFull(long)
             = [category |-> Rules(long)[j].category, sub |-> Rules(long)[j].sub]
        /\ ClassifyFull(long) = ClassifyFull(log) \/ (j < i /\ j \in Matching(x))
  BY <1>2, MoreFirst
<1>7. Rules(log)[i].when /\ Rules(long)[j].when BY <1>6 DEF First
<1>name. ClassifyFull(long).category = Rules(long)[j].category BY <1>6
<1>8. CASE j = 4 /\ x = "incompatible compiler"
  <2>1. ClassifyFull(long).category = "NIGHTLY_REQUIRED" BY <1>8, <1>name, NamesOfMatching
  <2>. QED BY <1>8, <2>1 DEF long
<1>9. CASE j = 7 /\ x = "Package fuse was not found"
  <2>1. /\ ClassifyFull(long).category = "NATIVE_DEP_MISSING"
        /\ Terminal(log) = "error: fuse build"
    BY <1>5, <1>7, <1>9, <1>name, NamesOfMatching
  <2>2. ClassifyFull(<<x>> \o log).category = "NATIVE_DEP_MISSING" BY <2>1 DEF long
  <2>. QED BY <1>9, <2>1, <2>2
<1>10. CASE j \in 16..18 /\ j < i
  <2>1. i \in 17..23 BY <1>10
  <2>2. ClassifyFull(log) \in Weak BY <1>6, <1>7, <2>1, WeakRules
  <2>. QED BY <2>2
<1>11. CASE ClassifyFull(long) = ClassifyFull(log) BY <1>11 DEF long
<1>12. ClassifyFull(long) # ClassifyFull(log) =>
         \/ j = 4 /\ x = "incompatible compiler"
         \/ j = 7 /\ x = "Package fuse was not found"
         \/ j \in 16..18 /\ j < i
  BY <1>4, <1>6 DEF Matching
<1>. HIDE DEF Matching
<1>. QED BY <1>8, <1>9, <1>10, <1>11, <1>12

\* And a summary after it may only name a log that no rule could.
LEMMA SummaryAfter ==
  ASSUME NEW log \in Seq(LogLines), NEW g \in Generic
  PROVE  \/ ClassifyFull(Append(log, g)) = ClassifyFull(log)
         \/ ClassifyFull(log).category \in {"NO_LOG", "OTHER"}
<1>. DEFINE long == Append(log, g)
<1>1. g \in LogLines BY DEF LogLines, ErrorLines
<1>2. OneMore(log, long, g) BY <1>1, After
<1>. HIDE DEF long
<1>3. PICK i \in 1..23, j \in 1..23 :
        /\ ClassifyFull(log)
             = [category |-> Rules(log)[i].category, sub |-> Rules(log)[i].sub]
        /\ ClassifyFull(long) = ClassifyFull(log) \/ (j < i /\ j \in Matching(g))
  BY <1>2, MoreFirst
<1>4. g # "incompatible compiler" /\ g # "Package fuse was not found" /\ g \notin Chatter
  BY DEF Chatter, ChatterLines, JsonWarning, Gap, Generic
<1>5. CASE ClassifyFull(long) = ClassifyFull(log) BY <1>5 DEF long
<1>6. CASE j < i /\ j \in Matching(g)
  <2>1. j = 21 BY <1>4, <1>6 DEF Matching
  <2>2. i = 22 \/ i = 23 BY <1>6, <2>1
  <2>. QED BY <1>3, <2>2, LastRule
<1>. QED BY <1>3, <1>5, <1>6

LEMMA NothingHidden ==
  ASSUME NEW log \in Seq(LogLines)
  PROVE  HidesNothing(log)
BY ChatterBefore, SummaryAfter DEF HidesNothing

(***************************************************************************)
(* The invariant.                                                          *)
(***************************************************************************)
\* Where the first attempt of k's run writes.
FirstLog(k) == AttemptLog(k, own[k].n, 1)

\* A candidate under way: its place, its attempts, and no row yet.
Under(k) ==
  /\ work[k].at <= Len(work[k].log)
  /\ work[k].pc = "todo" => work[k].i = 0
  /\ work[k].pc \in {"post", "stale"} => work[k].at = 0
  /\ work[k].pc \notin {"todo", "idle"} =>
       own[k].n = attempts /\ own[k].run = runs /\ work[k].i >= 1 /\ attempts >= work[k].i
  /\ work[k].pc # "idle" => rows[k].status = "none" /\ runs >= 1
  /\ k \in touched => rows[k].status # "none"

\* The first attempt is printing.
Printing(k) == work[k].pc = "pre" /\ work[k].i = 1

\* The file holds the first m lines of the log, and nothing else.
Starts(file, log, m) == Len(file) = m /\ \A j \in 1 .. m : file[j] = log[j]

\* While nobody else writes to it, the file has what the attempt has printed so far.
LogIsOwn(k) ==
  /\ Printing(k) => work[k].log = own[k].log
  /\ work[k].pc \notin {"todo", "idle"} /\ OwnLogStands(k) =>
       Starts(logs[FirstLog(k)], own[k].log,
              IF Printing(k) THEN work[k].at ELSE Len(own[k].log))

\* The class that a relaxed retry falls back to.
StaleClass(k) ==
  work[k].pc \in {"stale", "retry"} =>
    work[k].class = ReadClass(own[k].log) \/ ~OwnLogStands(k)

\* What the first attempt printed outlives the run, if its row is told from it.
RowLog(k) ==
  rows[k].status = "not_reproducible" =>
    /\ rows[k].reason \in {"failed", "timed out", "thin image"}
    /\ rows[k].reason = "failed" =>
         /\ own[k].n >= 1 /\ own[k].run >= 1
         /\ OwnLogStands(k) => logs[FirstLog(k)] = own[k].log

RowTells(k) ==
  rows[k].status = "not_reproducible" =>
    /\ rows[k].reason = "timed out" => rows[k].class.category = "TIMEOUT"
    /\ rows[k].reason = "thin image" =>
         IF k \in touched THEN rows[k].class.sub = "REGENERATE_FAIL" ELSE rows[k].class = NoClass
    /\ rows[k].reason = "failed" =>
         \/ rows[k].class = ReadClass(own[k].log)
         \/ ~OwnLogStands(k)
         \/ k \in touched /\ (own[k].n > 1 \/ k \notin Listed)

KeyInv(k) == Under(k) /\ LogIsOwn(k) /\ StaleClass(k) /\ RowLog(k) /\ RowTells(k)
Inv == \A k \in Keys : KeyInv(k)

(***************************************************************************)
(* Types.                                                                  *)
(***************************************************************************)
ExitCodes == {"ok", "fail", "timeout"}
WorkType ==
  [pc : {"idle", "todo", "pre", "post", "stale", "retry"},
   i : 0 .. MaxAttempts, log : Seq(LogLines), at : Nat,
   pre : ExitCodes, post : ExitCodes, text : Seq(LogLines), class : Class]
RowType ==
  [status : {"none", "not_reproducible", "ok_after_relock", "breaking", "non-breaking",
             "regenerated"},
   reason : {None, "failed", "timed out", "thin image"}, class : Class]
OwnType == [log : Seq(LogLines), n : 0 .. MaxAttempts, run : 0 .. MaxRuns]
AuthorType == [key : Keys \cup {None}, run : 0 .. MaxRuns]

LEMMA ClassesTyped ==
  /\ NoClass \in Class /\ NoLog \in Class
  /\ \A reason : ReasonClass(reason) \in Class
  /\ [category |-> "OTHER", sub |-> None] \in Class
<1>1. \A c \in {"TIMEOUT", "OTHER", None, "NO_LOG"}, s \in {None, "REGENERATE_FAIL"} :
        [category |-> c, sub |-> s] \in Class
  BY DEF Class, Categories, Kinds
<1>. QED BY <1>1 DEF NoClass, ReasonClass, NoLog

LEMMA ReadTyped ==
  ASSUME NEW log \in Seq(LogLines)
  PROVE  ReadClass(log) \in Class /\ Classify(log) \in Class
<1>1. ClassifyFull(log) \in Class BY FullTyped DEF Class
<1>2. Classify(log) \in Class BY UpdateTyped DEF Class
<1>. QED BY <1>1, <1>2, ClassesTyped DEF ReadClass

LEMMA MissingTyped == Missing \in Seq(LogLines) /\ Len(Missing) = 0
BY DEF Missing

LEMMA OutcomesTyped ==
  ASSUME NEW texts, texts \subseteq Seq(LogLines), NEW out \in Outcomes(texts)
  PROVE  out.rc \in ExitCodes /\ out.log \in Seq(LogLines)
<1>1. CASE out \in {[rc |-> "ok", log |-> <<"json warning">>]}
  <2>. DEFINE line == "json warning"
              log == <<line>>
  <2>1. line \in LogLines BY DEF LogLines, JsonWarning
  <2>2. log \in Seq(LogLines)
    <3>. HIDE DEF line
    <3>. QED BY <2>1
  <2>3. out = [rc |-> "ok", log |-> log] BY <1>1
  <2>. HIDE DEF log
  <2>. QED BY <2>2, <2>3 DEF ExitCodes
<1>2. CASE out \in {[rc |-> "fail", log |-> l] : l \in texts} BY <1>2 DEF ExitCodes
<1>3. CASE out \in {[rc |-> "timeout", log |-> Append(l, TimeoutMarker)] : l \in RetryLogs}
  <2>1. TimeoutMarker \in LogLines BY DEF TimeoutMarker, LogLines, ErrorLines
  <2>2. PICK l \in RetryLogs : out = [rc |-> "timeout", log |-> Append(l, TimeoutMarker)]
    BY <1>3
  <2>3. l \in Seq(LogLines) BY TaxonomyAssumption DEF TaxonomyAssumption
  <2>4. Append(l, TimeoutMarker) \in Seq(LogLines) BY <2>1, <2>3, AppendProperties
  <2>. QED BY <2>2, <2>4 DEF ExitCodes
<1>. QED BY <1>1, <1>2, <1>3 DEF Outcomes

LEMMA TypesAre ==
  TypeOK <=> /\ attempts \in 0 .. MaxAttempts /\ runs \in 0 .. MaxRuns
             /\ logs \in [Paths -> Seq(LogLines)]
             /\ work \in [Keys -> WorkType] /\ rows \in [Keys -> RowType]
             /\ own \in [Keys -> OwnType] /\ author \in [Paths -> AuthorType]
             /\ touched \subseteq Keys
BY DEF TypeOK, WorkType, RowType, OwnType, AuthorType, ExitCodes

LEMMA TypesNext ==
  ASSUME attempts' \in 0 .. MaxAttempts, runs' \in 0 .. MaxRuns,
         logs' \in [Paths -> Seq(LogLines)],
         work' \in [Keys -> WorkType], rows' \in [Keys -> RowType],
         own' \in [Keys -> OwnType], author' \in [Paths -> AuthorType],
         touched' \subseteq Keys
  PROVE  TypeOK'
BY DEF TypeOK, WorkType, RowType, OwnType, AuthorType, ExitCodes

LEMMA NothingTyped == NoWork \in WorkType /\ NoRow \in RowType /\ NoOwn \in OwnType
<1>1. NoWork \in WorkType
  BY ClassesTyped, MissingTyped, TaxonomyAssumption
     DEF NoWork, WorkType, ExitCodes, TaxonomyAssumption
<1>2. NoRow \in RowType BY ClassesTyped DEF NoRow, RowType
<1>3. NoOwn \in OwnType BY MissingTyped, TaxonomyAssumption DEF NoOwn, OwnType, TaxonomyAssumption
<1>. QED BY <1>1, <1>2, <1>3

LEMMA WorkMoves ==
  ASSUME TypeOK, NEW k \in Keys, NEW w \in WorkType, work' = [work EXCEPT ![k] = w]
  PROVE  /\ work' \in [Keys -> WorkType] /\ work'[k] = w
         /\ \A j \in Keys \ {k} : work'[j] = work[j]
BY TypesAre

LEMMA PathsTyped ==
  ASSUME NEW k \in Keys, NEW n, NEW i \in 0 .. MaxAttempts
  PROVE  AttemptLog(k, n, i) \in Paths /\ RelockLog(k) \in Paths
BY TaxonomyAssumption DEF TaxonomyAssumption, AttemptLog, RelockLog, Paths, Plain, Relocked

LEMMA FirstTyped ==
  ASSUME NEW k \in Keys, NEW n
  PROVE  AttemptLog(k, n, 1) \in Paths /\ AttemptLog(k, n, 1) # RelockLog(k)
BY TaxonomyAssumption DEF TaxonomyAssumption, AttemptLog, RelockLog, Paths, Plain, Relocked

\* A file that k opens or writes to, and the rest.
LEMMA OpenTyped ==
  ASSUME TypeOK, NEW k \in Keys, NEW p \in Paths, Open(k, p)
  PROVE  /\ logs' \in [Paths -> Seq(LogLines)] /\ author' \in [Paths -> AuthorType]
         /\ logs'[p] = Missing /\ author'[p] = Me(k)
         /\ \A q \in Paths \ {p} : logs'[q] = logs[q] /\ author'[q] = author[q]
<1>1. Me(k) \in AuthorType BY TypesAre DEF Me, AuthorType
<1>. QED BY <1>1, TypesAre, MissingTyped DEF Open

\* A line at the end of a file is appended; anywhere, the file stays one of lines.
LEMMA PutTyped ==
  ASSUME NEW log \in Seq(LogLines), NEW i \in Nat \ {0}, NEW line \in LogLines
  PROVE  /\ Put(log, i, line) \in Seq(LogLines)
         /\ i = Len(log) + 1 =>
              /\ Len(Put(log, i, line)) = i
              /\ Put(log, i, line)[i] = line
              /\ \A j \in 1 .. Len(log) : Put(log, i, line)[j] = log[j]
<1>. DEFINE n == IF i > Len(log) THEN i ELSE Len(log)
            f == Put(log, i, line)
<1>1. Len(log) \in Nat /\ \A j \in 1 .. Len(log) : log[j] \in LogLines BY LenProperties
<1>2. n \in Nat /\ i \in 1 .. n BY <1>1
<1>3. Gap \in LogLines BY DEF LogLines, ChatterLines
<1>4. f = [j \in 1 .. n |-> IF j = i THEN line ELSE IF j <= Len(log) THEN log[j] ELSE Gap]
  BY DEF Put
<1>. HIDE DEF f, n
<1>5. \A j \in 1 .. n : f[j] = IF j = i THEN line ELSE IF j <= Len(log) THEN log[j] ELSE Gap
  BY <1>4
<1>6. ASSUME NEW j \in 1 .. n PROVE f[j] \in LogLines
  <2>1. j \in 1 .. Len(log) \/ ~(j <= Len(log)) BY <1>1, <1>2
  <2>. QED BY <1>1, <1>3, <1>5, <2>1
<1>7. f = [j \in 1 .. n |-> f[j]] BY <1>4
<1>8. f \in Seq(LogLines) /\ Len(f) = n BY <1>2, <1>6, <1>7, TupleIsSeq
<1>9. ASSUME i = Len(log) + 1
      PROVE  /\ Len(f) = i /\ f[i] = line
             /\ \A j \in 1 .. Len(log) : f[j] = log[j]
  <2>1. n = i BY <1>1, <1>9 DEF n
  <2>. QED BY <1>1, <1>2, <1>5, <1>8, <1>9, <2>1
<1>. QED BY <1>8, <1>9 DEF f

LEMMA RecordTyped ==
  ASSUME TypeOK, NEW k \in Keys, NEW status, NEW reason, NEW class \in Class,
         status \in {"not_reproducible", "ok_after_relock", "breaking", "non-breaking",
                     "regenerated"},
         reason \in {None, "failed", "timed out", "thin image"},
         Record(k, status, reason, class)
  PROVE  /\ work' \in [Keys -> WorkType] /\ rows' \in [Keys -> RowType]
         /\ own' \in [Keys -> OwnType]
         /\ work'[k] = NoWork
         /\ rows'[k].status = status /\ rows'[k].reason = reason /\ rows'[k].class = class
         /\ reason = "failed" => own' = own
         /\ \A j \in Keys \ {k} : work'[j] = work[j] /\ rows'[j] = rows[j] /\ own'[j] = own[j]
<1>1. work' = [work EXCEPT ![k] = NoWork] BY DEF Record
<1>. DEFINE row == [status |-> status, reason |-> reason, class |-> class]
<1>2. row \in RowType BY DEF RowType
<1>3. rows' = [rows EXCEPT ![k] = row] BY DEF Record
<1>row. row.status = status /\ row.reason = reason /\ row.class = class OBVIOUS
<1>4. own' = IF reason = "failed" THEN own ELSE [own EXCEPT ![k] = NoOwn] BY DEF Record
<1>5. rows' \in [Keys -> RowType] /\ rows'[k] = row /\ \A j \in Keys \ {k} : rows'[j] = rows[j]
  <2>. HIDE DEF row
  <2>. QED BY <1>2, <1>3, TypesAre
<1>6. own' \in [Keys -> OwnType] /\ \A j \in Keys \ {k} : own'[j] = own[j]
  BY <1>4, TypesAre, NothingTyped
<1>. HIDE DEF row
<1>. QED BY <1>1, <1>4, <1>5, <1>6, <1>row, WorkMoves, NothingTyped

(***************************************************************************)
(* A step on one candidate.                                                *)
(***************************************************************************)
\* What a step on candidate k leaves alone.
FrameOf(k) ==
  /\ attempts' = attempts /\ runs' = runs
  /\ \A j \in Keys \ {k} : /\ work'[j] = work[j] /\ rows'[j] = rows[j] /\ own'[j] = own[j]
                           /\ j \in touched' <=> j \in touched
  /\ \A p \in Paths : \/ author'[p] = author[p] /\ logs'[p] = logs[p]
                      \/ author'[p] \in {Me(k), NoAuthor}

\* A step on one candidate keeps what holds of every other.
LEMMA OthersKeep ==
  ASSUME NEW k \in Keys, NEW j \in Keys, j # k, FrameOf(k), KeyInv(j)
  PROVE  KeyInv(j)'
<1>1. /\ work'[j] = work[j] /\ rows'[j] = rows[j] /\ own'[j] = own[j]
      /\ attempts' = attempts /\ runs' = runs
      /\ j \in touched' <=> j \in touched
  BY DEF FrameOf
<1>2. FirstLog(j)' = FirstLog(j) /\ FirstLog(j) \in Paths
  BY <1>1, FirstTyped DEF FirstLog, AttemptLog
<1>3. ASSUME OwnLogStands(j)', own[j].run >= 1
      PROVE  OwnLogStands(j) /\ logs'[FirstLog(j)] = logs[FirstLog(j)]
  <2>1. author'[FirstLog(j)] = [key |-> j, run |-> own[j].run]
    BY <1>1, <1>3 DEF OwnLogStands, FirstLog, AttemptLog
  <2>2. author'[FirstLog(j)] \notin {Me(k), NoAuthor}
    BY <1>3, <2>1 DEF Me, NoAuthor
  <2>3. author'[FirstLog(j)] = author[FirstLog(j)] /\ logs'[FirstLog(j)] = logs[FirstLog(j)]
    BY <1>2, <2>2 DEF FrameOf
  <2>. QED BY <2>1, <2>3 DEF OwnLogStands, FirstLog
<1>4. Under(j)' BY <1>1 DEF KeyInv, Under
<1>5. work[j].pc \notin {"todo", "idle"} => own[j].run >= 1
  BY DEF KeyInv, Under
<1>6. LogIsOwn(j)'
  BY <1>1, <1>2, <1>3, <1>5 DEF KeyInv, LogIsOwn, Printing, Starts
<1>7. StaleClass(j)'
  BY <1>1, <1>3, <1>5 DEF KeyInv, StaleClass
<1>8. RowLog(j)' BY <1>1, <1>2, <1>3 DEF KeyInv, RowLog
<1>9. RowTells(j)' BY <1>1, <1>3 DEF KeyInv, RowTells, RowLog
<1>. QED BY <1>4, <1>6, <1>7, <1>8, <1>9 DEF KeyInv

\* Enough for a step on candidate k: what it does to k, and that it leaves the rest.
LEMMA OneKeepsAll ==
  ASSUME Inv, NEW k \in Keys, FrameOf(k), KeyInv(k)'
  PROVE  Inv'
<1>1. ASSUME NEW j \in Keys PROVE KeyInv(j)' BY OthersKeep DEF Inv
<1>. QED BY <1>1 DEF Inv

\* A candidate that is left, its row as it was or new.
LEMMA Left ==
  ASSUME NEW k \in Keys, work'[k] = NoWork, RowLog(k)', RowTells(k)',
         k \in touched' => rows'[k].status # "none"
  PROVE  KeyInv(k)'
<1>1. /\ work'[k].pc = "idle" /\ work'[k].at = 0 /\ Len(work'[k].log) = 0
  BY MissingTyped DEF NoWork
<1>2. Under(k)' BY <1>1 DEF Under
<1>3. LogIsOwn(k)' /\ StaleClass(k)' BY <1>1 DEF LogIsOwn, StaleClass, Printing
<1>. QED BY <1>2, <1>3 DEF KeyInv

\* A row that is not told from a log.
LEMMA LeftWithRow ==
  ASSUME NEW k \in Keys, work'[k] = NoWork, k \notin touched',
         \/ rows'[k].status # "not_reproducible"
         \/ rows'[k].reason = "thin image" /\ rows'[k].class = NoClass
         \/ rows'[k].reason = "timed out" /\ rows'[k].class.category = "TIMEOUT"
  PROVE  KeyInv(k)'
<1>1. RowLog(k)' BY DEF RowLog
<1>2. RowTells(k)' BY DEF RowTells
<1>. QED BY <1>1, <1>2, Left

LEMMA TypeInit == Init => TypeOK
<1>. SUFFICES ASSUME Init PROVE TypeOK OBVIOUS
<1>1. NoAuthor \in AuthorType BY TaxonomyAssumption DEF NoAuthor, AuthorType, TaxonomyAssumption
<1>. QED BY <1>1, NothingTyped, MissingTyped, TypesAre, TaxonomyAssumption
         DEF Init, TaxonomyAssumption

LEMMA InvInit == Init => Inv
<1>. SUFFICES ASSUME Init, NEW k \in Keys PROVE KeyInv(k) BY DEF Inv
<1>1. work[k] = NoWork /\ rows[k] = NoRow /\ touched = {} BY DEF Init
<1>2. work[k].pc = "idle" /\ work[k].at = 0 /\ Len(work[k].log) = 0 /\ rows[k].status = "none"
  BY <1>1, MissingTyped DEF NoWork, NoRow
<1>. QED BY <1>1, <1>2 DEF KeyInv, Under, LogIsOwn, Printing, StaleClass, RowLog, RowTells

LEMMA StepStartRun ==
  ASSUME TypeOK, Inv, NEW n \in 1 .. MaxAttempts, StartRun(n)
  PROVE  TypeOK' /\ Inv'
<1>1. UNCHANGED <<logs, rows, own, author, touched>> /\ attempts' = n /\ runs' = runs + 1
  BY DEF StartRun
<1>2. \A pc \in {"todo", "idle"} : [NoWork EXCEPT !.pc = pc] \in WorkType
  BY NothingTyped DEF WorkType
<1>3. work' \in [Keys -> WorkType] BY <1>2 DEF StartRun
<1>4. attempts' \in 0 .. MaxAttempts /\ runs' \in 1 .. MaxRuns
  BY <1>1, TypesAre, TaxonomyAssumption DEF StartRun, TaxonomyAssumption
<1>5. TypeOK' BY <1>1, <1>3, <1>4, TypesAre, TypesNext
<1>6. ASSUME NEW k \in Keys PROVE KeyInv(k)'
  <2>1. /\ work'[k].pc \in {"todo", "idle"} /\ (work'[k].pc = "todo" => rows[k].status = "none")
        /\ work'[k].i = 0 /\ work'[k].at = 0 /\ Len(work'[k].log) = 0
    BY MissingTyped DEF StartRun, NoWork
  <2>2. Under(k)'
    BY <1>1, <1>4, <2>1 DEF Inv, KeyInv, Under
  <2>3. LogIsOwn(k)' /\ StaleClass(k)' BY <2>1 DEF LogIsOwn, StaleClass, Printing
  <2>4. RowLog(k)' /\ RowTells(k)'
    BY <1>1 DEF Inv, KeyInv, RowLog, RowTells, OwnLogStands, FirstLog, AttemptLog
  <2>. QED BY <2>2, <2>3, <2>4 DEF KeyInv
<1>. QED BY <1>5, <1>6 DEF Inv

LEMMA StepDrop ==
  ASSUME TypeOK, Inv, Drop
  PROVE  TypeOK' /\ Inv'
<1>1. /\ UNCHANGED <<attempts, runs, logs, rows, author, touched>>
      /\ work' = [k \in Keys |-> NoWork]
      /\ own' = [k \in Keys |-> IF rows[k].status = "none" THEN NoOwn ELSE own[k]]
  BY DEF Drop
<1>2. own' \in [Keys -> OwnType]
  <2>1. \A k \in Keys : own[k] \in OwnType BY TypesAre
  <2>. QED BY <1>1, <2>1, NothingTyped
<1>3. work' \in [Keys -> WorkType] BY <1>1, NothingTyped
<1>4. TypeOK' BY <1>1, <1>2, <1>3, TypesAre, TypesNext
<1>5. ASSUME NEW k \in Keys PROVE KeyInv(k)'
  <2>1. work'[k] = NoWork BY <1>1
  <2>2. rows[k].status # "none" => own'[k] = own[k] BY <1>1
  <2>3. RowLog(k)' /\ RowTells(k)'
    BY <1>1, <2>2 DEF Inv, KeyInv, RowLog, RowTells, OwnLogStands, FirstLog, AttemptLog
  <2>4. k \in touched' => rows'[k].status # "none" BY <1>1 DEF Inv, KeyInv, Under
  <2>. QED BY <2>1, <2>3, <2>4, Left
<1>. QED BY <1>4, <1>5 DEF Inv

\* Attempts of one run write different logs.
LEMMA PathsDiffer ==
  ASSUME NEW k \in Keys, NEW n, NEW i \in 1 .. MaxAttempts, i > 1 => n # 1,
         AttemptLog(k, n, i) = AttemptLog(k, n, 1)
  PROVE  i = 1
BY TaxonomyAssumption DEF TaxonomyAssumption, AttemptLog, Plain

\* A line goes to the end of the first log, if that is where k still writes alone.
LEMMA StepWriteLine ==
  ASSUME TypeOK, Inv, NEW k \in Keys, WriteLine(k)
  PROVE  TypeOK' /\ Inv'
<1>. DEFINE p == LogOf(k)
            at == work[k].at + 1
            line == work[k].log[at]
            w == [work[k] EXCEPT !.at = at]
<1>1. /\ work[k].pc \in {"pre", "retry"} /\ work[k].at # Len(work[k].log)
      /\ logs' = [logs EXCEPT ![p] = Put(@, at, line)]
      /\ author' = [author EXCEPT ![p] = IF @ = Me(k) THEN @ ELSE NoAuthor]
      /\ work' = [work EXCEPT ![k] = w]
      /\ UNCHANGED <<attempts, runs, rows, own, touched>>
  BY DEF WriteLine, Printed
<1>2. Under(k) /\ LogIsOwn(k) /\ StaleClass(k) /\ RowLog(k) /\ RowTells(k) BY DEF Inv, KeyInv
<1>3. work[k] \in WorkType BY TypesAre
<1>4. /\ work[k].at \in Nat /\ work[k].log \in Seq(LogLines) /\ work[k].i \in 0 .. MaxAttempts
      /\ Len(work[k].log) \in Nat
  BY <1>3, LenProperties DEF WorkType
<1>5. at \in 1 .. Len(work[k].log) BY <1>1, <1>2, <1>4 DEF Under
<1>6. line \in LogLines BY <1>4, <1>5, LenProperties
<1>7. p \in Paths BY <1>4, PathsTyped DEF LogOf
<1>8. logs[p] \in Seq(LogLines) BY <1>7, TypesAre
<1>9. w \in WorkType BY <1>3, <1>5 DEF WorkType
<1>. DEFINE text == Put(logs[p], at, line)
<1>10. /\ text \in Seq(LogLines)
       /\ at = Len(logs[p]) + 1 =>
            /\ Len(text) = at /\ text[at] = line
            /\ \A j \in 1 .. Len(logs[p]) : text[j] = logs[p][j]
  <2>1. at \in Nat \ {0} BY <1>4
  <2>. HIDE DEF p, at, line
  <2>. QED BY <1>6, <1>8, <2>1, PutTyped
<1>11. logs'[p] = text /\ author'[p] = IF author[p] = Me(k) THEN Me(k) ELSE NoAuthor
  BY <1>1, <1>7, TypesAre
<1>12. \A q \in Paths \ {p} : logs'[q] = logs[q] /\ author'[q] = author[q]
  BY <1>1, TypesAre
<1>13. logs' \in [Paths -> Seq(LogLines)]
  <2>1. logs' = [logs EXCEPT ![p] = text] BY <1>1
  <2>. HIDE DEF text, p
  <2>. QED BY <1>7, <1>10, <2>1, TypesAre
<1>14. author' \in [Paths -> AuthorType]
  <2>1. Me(k) \in AuthorType /\ NoAuthor \in AuthorType
    BY TypesAre, TaxonomyAssumption DEF Me, NoAuthor, AuthorType, TaxonomyAssumption
  <2>. HIDE DEF p
  <2>. QED BY <1>1, <2>1, TypesAre
<1>15. work' \in [Keys -> WorkType] /\ work'[k] = w /\ \A j \in Keys \ {k} : work'[j] = work[j]
  BY <1>1, <1>9, WorkMoves
<1>16. TypeOK' BY <1>1, <1>13, <1>14, <1>15, TypesAre, TypesNext
<1>17. FrameOf(k)
  <2>1. ASSUME NEW q \in Paths
        PROVE  \/ author'[q] = author[q] /\ logs'[q] = logs[q]
               \/ author'[q] \in {Me(k), NoAuthor}
    BY <1>11, <1>12
  <2>. QED BY <1>1, <1>15, <2>1 DEF FrameOf
<1>18. /\ work'[k].pc = work[k].pc /\ work'[k].i = work[k].i /\ work'[k].log = work[k].log
       /\ work'[k].class = work[k].class /\ work'[k].at = at
  BY <1>3, <1>15 DEF WorkType
<1>. HIDE DEF w, text
<1>19. FirstLog(k)' = FirstLog(k) /\ FirstLog(k) \in Paths /\ FirstLog(k) # RelockLog(k)
  BY <1>1, FirstTyped DEF FirstLog, AttemptLog
<1>20. Under(k)'
  <2>1. work'[k].at <= Len(work'[k].log) BY <1>5, <1>18
  <2>. QED BY <1>1, <1>2, <1>18, <2>1 DEF Under
<1>21. own[k].n = attempts /\ own[k].run = runs /\ work[k].i >= 1 /\ attempts >= work[k].i
  BY <1>1, <1>2 DEF Under
<1>22. CASE Printing(k)
  <2>1. p = FirstLog(k) BY <1>21, <1>22 DEF Printing, LogOf, FirstLog
  <2>2. Printing(k)' /\ work[k].log = own[k].log
    BY <1>2, <1>18, <1>22 DEF Printing, LogIsOwn
  <2>3. ASSUME OwnLogStands(k)' PROVE OwnLogStands(k) /\ Starts(logs'[p], own[k].log, at)
    <3>1. author'[p] = [key |-> k, run |-> runs]
      BY <1>1, <1>21, <2>1, <2>3 DEF OwnLogStands, FirstLog, AttemptLog
    <3>2. author'[p] # NoAuthor
      BY <1>1, <1>2, <3>1 DEF Under, NoAuthor
    <3>3. author[p] = Me(k) BY <1>11, <3>2
    <3>4. OwnLogStands(k) BY <1>21, <2>1, <3>3 DEF OwnLogStands, FirstLog, Me
    <3>5. Starts(logs[p], own[k].log, work[k].at)
      BY <1>1, <1>2, <1>22, <2>1, <3>4 DEF LogIsOwn
    <3>6. Len(logs[p]) = work[k].at /\ \A j \in 1 .. work[k].at : logs[p][j] = own[k].log[j]
      BY <3>5 DEF Starts
    <3>. HIDE DEF p
    <3>7. Len(logs'[p]) = at /\ logs'[p][at] = line
          /\ \A j \in 1 .. work[k].at : logs'[p][j] = logs[p][j]
      BY <1>10, <1>11, <3>6
    <3>8. \A j \in 1 .. at : j = at \/ j \in 1 .. work[k].at BY <1>4
    <3>. QED BY <2>2, <3>4, <3>6, <3>7, <3>8 DEF Starts
  <2>4. LogIsOwn(k)'
    BY <1>1, <1>18, <1>19, <2>1, <2>2, <2>3 DEF LogIsOwn
  <2>5. StaleClass(k)' BY <1>18, <1>22 DEF StaleClass, Printing
  <2>6. RowLog(k)' /\ RowTells(k)'
    BY <1>1, <1>2 DEF Under, RowLog, RowTells
  <2>. QED BY <1>16, <1>17, <1>20, <2>4, <2>5, <2>6, OneKeepsAll DEF KeyInv
<1>23. CASE ~Printing(k)
  <2>1. p # FirstLog(k)
    <3>1. CASE work[k].pc = "retry" BY <1>19, <3>1 DEF LogOf
    <3>2. CASE work[k].pc = "pre"
      <4>1. work[k].i \in 1 .. MaxAttempts /\ work[k].i # 1 /\ attempts # 1
        BY <1>4, <1>21, <1>23, <3>2, TypesAre DEF Printing
      <4>2. AttemptLog(k, attempts, work[k].i) # AttemptLog(k, attempts, 1)
        BY <4>1, PathsDiffer
      <4>. QED BY <1>21, <3>2, <4>2 DEF LogOf, FirstLog
    <3>. QED BY <1>1, <3>1, <3>2
  <2>2. logs'[FirstLog(k)] = logs[FirstLog(k)] /\ author'[FirstLog(k)] = author[FirstLog(k)]
    BY <1>12, <1>19, <2>1
  <2>3. OwnLogStands(k)' = OwnLogStands(k)
    BY <1>1, <2>2 DEF OwnLogStands, FirstLog, AttemptLog
  <2>4. ~Printing(k)' BY <1>18, <1>23 DEF Printing
  <2>5. LogIsOwn(k)' BY <1>1, <1>2, <1>18, <1>19, <1>23, <2>2, <2>3, <2>4 DEF LogIsOwn
  <2>6. StaleClass(k)' BY <1>1, <1>2, <1>18, <2>3 DEF StaleClass
  <2>7. RowLog(k)' /\ RowTells(k)'
    BY <1>1, <1>2 DEF Under, RowLog, RowTells
  <2>. QED BY <1>16, <1>17, <1>20, <2>5, <2>6, <2>7, OneKeepsAll DEF KeyInv
<1>. QED BY <1>22, <1>23

\* The first attempt starts with an empty log of its own; a later one leaves it.
LEMMA StepRunPre ==
  ASSUME TypeOK, Inv, NEW k \in Keys, RunPre(k)
  PROVE  TypeOK' /\ Inv'
<1>. DEFINE i == work[k].i + 1
            texts == IF i = 1 /\ runs = 1 THEN PreLogs[k] ELSE RetryLogs
<1>1. PICK out \in Outcomes(texts) :
        /\ Open(k, AttemptLog(k, attempts, i))
        /\ own' = IF i > 1 THEN own
                  ELSE [own EXCEPT ![k] = [log |-> out.log, n |-> attempts, run |-> runs]]
        /\ work' = [work EXCEPT ![k] =
                      [work[k] EXCEPT !.pc = "pre", !.i = i, !.log = out.log, !.at = 0,
                         !.pre = IF i = 1 THEN out.rc ELSE Primary(work[k].pre, out.rc)]]
  BY Zenon DEF RunPre
<1>2. /\ work[k].pc = "todo" \/ (work[k].pc = "pre" /\ Printed(k))
      /\ i <= attempts /\ UNCHANGED <<attempts, runs, rows, touched>>
  BY DEF RunPre
<1>3. Under(k) /\ LogIsOwn(k) /\ StaleClass(k) /\ RowLog(k) /\ RowTells(k) BY DEF Inv, KeyInv
<1>4. texts \subseteq Seq(LogLines) BY TaxonomyAssumption DEF TaxonomyAssumption
<1>. HIDE DEF texts
<1>5. out.rc \in ExitCodes /\ out.log \in Seq(LogLines) /\ Len(out.log) \in Nat
  BY <1>4, OutcomesTyped, LenProperties
<1>6. work[k] \in WorkType /\ work[k].i \in 0 .. MaxAttempts BY TypesAre DEF WorkType
<1>7. i \in 1 .. MaxAttempts BY <1>2, <1>6, TypesAre, TaxonomyAssumption DEF TaxonomyAssumption
<1>. DEFINE pre == IF i = 1 THEN out.rc ELSE Primary(work[k].pre, out.rc)
            w == [work[k] EXCEPT !.pc = "pre", !.i = i, !.log = out.log, !.at = 0, !.pre = pre]
<1>8. pre \in ExitCodes
  <2>1. work[k].pre \in ExitCodes BY <1>6 DEF WorkType
  <2>. HIDE DEF i
  <2>. QED BY <1>5, <2>1 DEF Primary, ExitCodes
<1>9. work' = [work EXCEPT ![k] = w] BY <1>1
<1>. HIDE DEF pre, i
<1>. DEFINE v == [work[k] EXCEPT !.pc = "pre", !.i = i]
<1>a. v \in WorkType /\ v.pc = "pre" /\ v.i = i
  <2>. DEFINE u == [work[k] EXCEPT !.pc = "pre"]
  <2>1. u \in WorkType /\ u.pc = "pre" BY <1>6 DEF WorkType
  <2>2. v = [u EXCEPT !.i = i] OBVIOUS
  <2>. HIDE DEF u, v
  <2>. QED BY <1>7, <2>1, <2>2 DEF WorkType
<1>b. w = [v EXCEPT !.log = out.log, !.at = 0, !.pre = pre] OBVIOUS
<1>. HIDE DEF v, w
<1>10. w \in WorkType BY <1>5, <1>8, <1>a, <1>b DEF WorkType
<1>11. w.pc = "pre" /\ w.i = i /\ w.log = out.log /\ w.at = 0 BY <1>a, <1>b DEF WorkType
<1>12. work' \in [Keys -> WorkType] /\ work'[k] = w /\ \A j \in Keys \ {k} : work'[j] = work[j]
  BY <1>9, <1>10, WorkMoves
<1>. DEFINE p == AttemptLog(k, attempts, i)
<1>13. p \in Paths BY <1>7, PathsTyped
<1>14. /\ logs' \in [Paths -> Seq(LogLines)] /\ author' \in [Paths -> AuthorType]
       /\ logs'[p] = Missing /\ author'[p] = Me(k)
       /\ \A q \in Paths \ {p} : logs'[q] = logs[q] /\ author'[q] = author[q]
  BY <1>1, <1>13, OpenTyped
<1>. HIDE DEF p
<1>. DEFINE mine == [log |-> out.log, n |-> attempts, run |-> runs]
<1>15. mine \in OwnType BY <1>5, TypesAre DEF OwnType
<1>16. own' = IF i > 1 THEN own ELSE [own EXCEPT ![k] = mine] BY <1>1
<1>17. mine.log = out.log /\ mine.n = attempts /\ mine.run = runs OBVIOUS
<1>. HIDE DEF mine
<1>18. /\ own' \in [Keys -> OwnType] /\ \A j \in Keys \ {k} : own'[j] = own[j]
       /\ own'[k] = IF i > 1 THEN own[k] ELSE mine
  BY <1>15, <1>16, TypesAre
<1>19. TypeOK' BY <1>2, <1>12, <1>14, <1>18, TypesAre, TypesNext
<1>20. FrameOf(k)
  <2>1. ASSUME NEW q \in Paths
        PROVE  \/ author'[q] = author[q] /\ logs'[q] = logs[q]
               \/ author'[q] \in {Me(k), NoAuthor}
    BY <1>14
  <2>. QED BY <1>2, <1>12, <1>18, <2>1 DEF FrameOf
<1>21. i > 1 => work[k].pc = "pre" /\ own[k].n = attempts /\ own[k].run = runs
  BY <1>2, <1>3, <1>6 DEF Under, i
<1>22. own'[k].n = attempts /\ own'[k].run = runs BY <1>17, <1>18, <1>21
<1>23. runs >= 1 /\ rows[k].status = "none" /\ (k \in touched => rows[k].status # "none")
  BY <1>2, <1>3 DEF Under
<1>24. Under(k)'
  BY <1>2, <1>5, <1>7, <1>11, <1>12, <1>22, <1>23 DEF Under, i
<1>25. StaleClass(k)' BY <1>11, <1>12 DEF StaleClass
<1>26. RowLog(k)' /\ RowTells(k)' BY <1>2, <1>23 DEF RowLog, RowTells
<1>27. FirstLog(k)' = AttemptLog(k, attempts, 1) /\ FirstLog(k)' \in Paths
  BY <1>22, FirstTyped DEF FirstLog, AttemptLog
<1>28. LogIsOwn(k)'
  <2>1. CASE i = 1
    <3>1. Printing(k)' /\ work'[k].log = own'[k].log /\ work'[k].at = 0
      BY <1>11, <1>12, <1>17, <1>18, <2>1 DEF Printing
    <3>2. Starts(logs'[FirstLog(k)'], own'[k].log, 0)
      BY <1>14, <1>27, <2>1, MissingTyped DEF Starts, p
    <3>. QED BY <3>1, <3>2 DEF LogIsOwn
  <2>2. CASE i > 1
    <3>1. own'[k] = own[k] /\ FirstLog(k)' = FirstLog(k)
      BY <1>18, <1>21, <1>27, <2>2 DEF FirstLog
    <3>2. p # FirstLog(k)
      <4>1. i > 1 => attempts # 1 BY <1>2, <1>7, TypesAre DEF i
      <4>2. AttemptLog(k, attempts, i) # AttemptLog(k, attempts, 1)
        BY <1>7, <2>2, <4>1, PathsDiffer
      <4>. QED BY <1>27, <3>1, <4>2 DEF p
    <3>3. /\ logs'[FirstLog(k)] = logs[FirstLog(k)]
          /\ author'[FirstLog(k)] = author[FirstLog(k)]
      BY <1>14, <1>27, <3>1, <3>2
    <3>4. OwnLogStands(k)' => OwnLogStands(k)
      BY <1>2, <3>1, <3>3 DEF OwnLogStands, FirstLog, AttemptLog
    <3>5. OwnLogStands(k) => Starts(logs[FirstLog(k)], own[k].log, Len(own[k].log))
      BY <1>2, <1>3, <1>21, <2>2 DEF LogIsOwn, Printed
    <3>6. ~Printing(k)' BY <1>11, <1>12, <2>2 DEF Printing
    <3>. QED BY <1>12, <3>1, <3>3, <3>4, <3>5, <3>6 DEF LogIsOwn
  <2>. QED BY <1>7, <2>1, <2>2
<1>. QED BY <1>19, <1>20, <1>24, <1>25, <1>26, <1>28, OneKeepsAll DEF KeyInv

LEMMA StepRunPost ==
  ASSUME TypeOK, Inv, NEW k \in Keys, RunPost(k)
  PROVE  TypeOK' /\ Inv'
<1>1. PICK out \in Outcomes(PostLogs) :
        work' = [work EXCEPT ![k].pc = "post", ![k].log = Missing, ![k].at = 0,
                             ![k].post = out.rc,
                             ![k].text = IF out.rc = "ok" THEN Missing ELSE out.log]
  BY DEF RunPost
<1>2. work[k].pc = "pre" /\ Printed(k)
      /\ UNCHANGED <<attempts, runs, logs, rows, own, author, touched>>
  BY DEF RunPost
<1>3. out.rc \in ExitCodes /\ out.log \in Seq(LogLines)
  BY OutcomesTyped, TaxonomyAssumption DEF TaxonomyAssumption
<1>. DEFINE text == IF out.rc = "ok" THEN Missing ELSE out.log
            v == [work[k] EXCEPT !.pc = "post", !.log = Missing]
            w == [v EXCEPT !.at = 0, !.post = out.rc, !.text = text]
<1>4. text \in Seq(LogLines) BY <1>3, MissingTyped
<1>5. work' = [work EXCEPT ![k] = w] BY <1>1
<1>6. work[k] \in WorkType BY TypesAre
<1>7. v \in WorkType /\ v.pc = "post" /\ v.log = Missing /\ v.i = work[k].i
  BY <1>6, MissingTyped DEF WorkType
<1>. HIDE DEF v, text
<1>8. w \in WorkType /\ w.pc = "post" /\ w.log = Missing /\ w.i = work[k].i /\ w.at = 0
  BY <1>3, <1>4, <1>7 DEF WorkType
<1>. HIDE DEF w
<1>9. work' \in [Keys -> WorkType] /\ work'[k] = w /\ \A j \in Keys \ {k} : work'[j] = work[j]
  BY <1>5, <1>8, WorkMoves
<1>10. TypeOK' BY <1>2, <1>9, TypesAre, TypesNext
<1>11. Under(k) /\ LogIsOwn(k) BY DEF Inv, KeyInv
<1>12. FrameOf(k) BY <1>2, <1>9 DEF FrameOf
<1>13. Under(k)' BY <1>2, <1>8, <1>9, <1>11, MissingTyped DEF Under
<1>14. OwnLogStands(k)' = OwnLogStands(k) /\ FirstLog(k)' = FirstLog(k)
  BY <1>2 DEF OwnLogStands, FirstLog, AttemptLog
<1>15. OwnLogStands(k) => Starts(logs[FirstLog(k)], own[k].log, Len(own[k].log))
  BY <1>2, <1>11 DEF LogIsOwn, Printed, Printing
<1>16. LogIsOwn(k)' BY <1>2, <1>8, <1>9, <1>14, <1>15 DEF LogIsOwn, Printing, Starts
<1>17. StaleClass(k)' BY <1>8, <1>9 DEF StaleClass
<1>18. RowLog(k)' /\ RowTells(k)' BY <1>2, <1>11 DEF Under, RowLog, RowTells
<1>. QED BY <1>10, <1>12, <1>13, <1>16, <1>17, <1>18, OneKeepsAll DEF KeyInv

\* A candidate is recorded: with a reason other than "failed", its log is forgotten.
LEMMA Recorded ==
  ASSUME TypeOK, Inv, NEW k \in Keys, NEW status, NEW reason, NEW class \in Class,
         Record(k, status, reason, class),
         status \in {"not_reproducible", "ok_after_relock", "breaking", "non-breaking",
                     "regenerated"},
         reason \in {None, "failed", "timed out", "thin image"},
         work[k].pc # "idle",
         UNCHANGED <<attempts, runs, logs, author, touched>>,
         \/ status # "not_reproducible"
         \/ reason = "thin image" /\ class = NoClass
         \/ reason = "timed out" /\ class.category = "TIMEOUT"
         \/ /\ reason = "failed" /\ ~Printing(k) /\ work[k].pc # "todo"
            /\ class = ReadClass(own[k].log) \/ ~OwnLogStands(k)
  PROVE  TypeOK' /\ Inv'
<1>1. /\ work' \in [Keys -> WorkType] /\ rows' \in [Keys -> RowType]
      /\ own' \in [Keys -> OwnType]
      /\ work'[k] = NoWork
      /\ rows'[k].status = status /\ rows'[k].reason = reason /\ rows'[k].class = class
      /\ reason = "failed" => own' = own
      /\ \A j \in Keys \ {k} : work'[j] = work[j] /\ rows'[j] = rows[j] /\ own'[j] = own[j]
  BY RecordTyped
<1>2. TypeOK' BY <1>1, TypesAre, TypesNext
<1>3. FrameOf(k) BY <1>1 DEF FrameOf
<1>4. Under(k) /\ LogIsOwn(k) BY DEF Inv, KeyInv
<1>5. k \notin touched BY <1>4 DEF Under
<1>6. rows'[k].status = status /\ rows'[k].reason = reason /\ rows'[k].class = class
  BY <1>1
<1>7. CASE \/ status # "not_reproducible"
           \/ reason = "thin image" /\ class = NoClass
           \/ reason = "timed out" /\ class.category = "TIMEOUT"
  <2>1. KeyInv(k)' BY <1>1, <1>5, <1>6, <1>7, LeftWithRow
  <2>. QED BY <1>2, <1>3, <2>1, OneKeepsAll
<1>8. CASE /\ reason = "failed" /\ ~Printing(k) /\ work[k].pc # "todo"
           /\ class = ReadClass(own[k].log) \/ ~OwnLogStands(k)
  <2>1. own' = own BY <1>1, <1>8
  <2>2. OwnLogStands(k)' = OwnLogStands(k) /\ FirstLog(k)' = FirstLog(k)
    BY <2>1 DEF OwnLogStands, FirstLog, AttemptLog
  <2>3. own[k].n >= 1 /\ own[k].run >= 1
    BY <1>4, <1>8, TypesAre, TaxonomyAssumption DEF Under, WorkType, TaxonomyAssumption
  <2>4. OwnLogStands(k) => logs[FirstLog(k)] = own[k].log
    <3>1. SUFFICES ASSUME OwnLogStands(k) PROVE logs[FirstLog(k)] = own[k].log OBVIOUS
    <3>2. Starts(logs[FirstLog(k)], own[k].log, Len(own[k].log))
      BY <1>4, <1>8, <3>1 DEF LogIsOwn
    <3>3. logs[FirstLog(k)] \in Seq(LogLines) /\ own[k].log \in Seq(LogLines)
      BY FirstTyped, TypesAre DEF FirstLog, OwnType
    <3>. QED BY <3>2, <3>3, SeqEqual DEF Starts
  <2>5. RowLog(k)' BY <1>6, <1>8, <2>1, <2>2, <2>3, <2>4 DEF RowLog
  <2>6. RowTells(k)' BY <1>6, <1>8, <2>1, <2>2 DEF RowTells
  <2>7. KeyInv(k)' BY <1>1, <1>5, <2>5, <2>6, Left
  <2>. QED BY <1>2, <1>3, <2>7, OneKeepsAll
<1>. QED BY <1>7, <1>8

LEMMA StepRegenerate ==
  ASSUME TypeOK, Inv, NEW k \in Keys, Regenerate(k)
  PROVE  TypeOK' /\ Inv'
<1>1. /\ work[k].pc = "todo" /\ UNCHANGED <<attempts, runs, logs, author, touched>>
      /\ \/ Record(k, "not_reproducible", "thin image", NoClass)
         \/ Record(k, "regenerated", None, NoClass)
  BY DEF Regenerate
<1>. QED BY <1>1, ClassesTyped, Recorded

LEMMA StepNotReproduced ==
  ASSUME TypeOK, Inv, NEW k \in Keys, NotReproduced(k)
  PROVE  TypeOK' /\ Inv'
<1>1. work[k].pc = "post" /\ UNCHANGED <<attempts, runs, logs, author, touched>>
  BY DEF NotReproduced
<1>. DEFINE class == InlineClass(k)
<1>2. Under(k) /\ LogIsOwn(k) BY DEF Inv, KeyInv
<1>3. ~Printing(k) BY <1>1 DEF Printing
<1>4. own[k].n = attempts /\ FirstLog(k) = AttemptLog(k, attempts, 1)
  BY <1>1, <1>2 DEF Under, FirstLog
<1>5. logs[FirstLog(k)] \in Seq(LogLines) /\ own[k].log \in Seq(LogLines)
  BY FirstTyped, TypesAre DEF FirstLog, OwnType
<1>6. OwnLogStands(k) => logs[FirstLog(k)] = own[k].log
  <2>1. SUFFICES ASSUME OwnLogStands(k) PROVE logs[FirstLog(k)] = own[k].log OBVIOUS
  <2>2. Starts(logs[FirstLog(k)], own[k].log, Len(own[k].log))
    BY <1>1, <1>2, <1>3, <2>1 DEF LogIsOwn
  <2>. QED BY <1>5, <2>2, SeqEqual DEF Starts
<1>7. class \in Class BY <1>4, <1>5, ReadTyped, ClassesTyped DEF InlineClass
<1>8. Reason(k) \in {"timed out", "failed"} BY DEF Reason
<1>9. Reason(k) = "timed out" => class.category = "TIMEOUT"
  BY DEF InlineClass, ReasonClass, NoClass, None
<1>10. Reason(k) = "failed" => class = ReadClass(logs[FirstLog(k)])
  BY <1>4 DEF InlineClass, ReasonClass
<1>11. Reason(k) = "failed" => class = ReadClass(own[k].log) \/ ~OwnLogStands(k)
  BY <1>6, <1>10
<1>12. CASE RelaxLocked /\ class.category = "LOCK_FILE_STALE"
  <2>. DEFINE w == [work[k] EXCEPT !.pc = "stale", !.class = class]
  <2>1. work' = [work EXCEPT ![k] = w] /\ UNCHANGED <<rows, own>>
    BY <1>12 DEF NotReproduced
  <2>2. work[k] \in WorkType BY TypesAre
  <2>. HIDE DEF class
  <2>3. w \in WorkType /\ w.pc = "stale" /\ w.class = class /\ w.i = work[k].i
    BY <1>7, <2>2 DEF WorkType
  <2>. HIDE DEF w
  <2>4. Reason(k) = "failed" BY <1>8, <1>9, <1>12
  <2>5. work'[k] = w /\ work' \in [Keys -> WorkType]
        /\ \A j \in Keys \ {k} : work'[j] = work[j]
    BY <2>1, <2>3, WorkMoves
  <2>6. TypeOK' BY <1>1, <2>1, <2>5, TypesAre, TypesNext
  <2>7. FrameOf(k) BY <1>1, <2>1, <2>5 DEF FrameOf
  <2>8. w.at = work[k].at /\ w.log = work[k].log
    BY <2>1, <2>2 DEF WorkType, w
  <2>9. Under(k)' BY <1>1, <1>2, <2>1, <2>3, <2>5, <2>8 DEF Under
  <2>10. OwnLogStands(k)' = OwnLogStands(k) /\ FirstLog(k)' = FirstLog(k)
    BY <1>1, <2>1 DEF OwnLogStands, FirstLog, AttemptLog
  <2>11. LogIsOwn(k)'
    BY <1>1, <1>2, <1>3, <2>1, <2>3, <2>5, <2>10 DEF LogIsOwn, Printing, Starts
  <2>12. StaleClass(k)' BY <1>11, <2>1, <2>3, <2>4, <2>5, <2>10 DEF StaleClass
  <2>13. RowLog(k)' /\ RowTells(k)' BY <1>1, <1>2, <2>1 DEF Under, RowLog, RowTells
  <2>. QED BY <2>6, <2>7, <2>9, <2>11, <2>12, <2>13, OneKeepsAll DEF KeyInv
<1>13. CASE ~(RelaxLocked /\ class.category = "LOCK_FILE_STALE")
  <2>1. Record(k, "not_reproducible", Reason(k), class) BY <1>13 DEF NotReproduced
  <2>. HIDE DEF class
  <2>. QED BY <1>1, <1>3, <1>7, <1>8, <1>9, <1>11, <2>1, Recorded
<1>. QED BY <1>12, <1>13

LEMMA StepRetry ==
  ASSUME TypeOK, Inv, NEW k \in Keys, Retry(k)
  PROVE  TypeOK' /\ Inv'
<1>1. /\ work[k].pc = "stale" /\ Open(k, RelockLog(k))
      /\ UNCHANGED <<attempts, runs, rows, own, touched>>
  BY DEF Retry
<1>2. PICK out \in Outcomes(RetryLogs) :
        work' = [work EXCEPT ![k].pc = "retry", ![k].log = out.log, ![k].pre = out.rc]
  BY DEF Retry
<1>3. Under(k) /\ LogIsOwn(k) /\ StaleClass(k) BY DEF Inv, KeyInv
<1>4. out.rc \in ExitCodes /\ out.log \in Seq(LogLines) /\ Len(out.log) \in Nat
  BY OutcomesTyped, LenProperties, TaxonomyAssumption DEF TaxonomyAssumption
<1>. DEFINE v == [work[k] EXCEPT !.pc = "retry"]
            w == [v EXCEPT !.log = out.log, !.pre = out.rc]
<1>5. work' = [work EXCEPT ![k] = w] BY <1>2
<1>6. work[k] \in WorkType BY TypesAre
<1>7. /\ v \in WorkType /\ v.pc = "retry" /\ v.i = work[k].i /\ v.at = work[k].at
      /\ v.class = work[k].class
  BY <1>6 DEF WorkType
<1>. HIDE DEF v
<1>8. /\ w \in WorkType /\ w.pc = "retry" /\ w.i = work[k].i /\ w.at = work[k].at
      /\ w.class = work[k].class /\ w.log = out.log
  BY <1>4, <1>7 DEF WorkType
<1>. HIDE DEF w
<1>9. work' \in [Keys -> WorkType] /\ work'[k] = w /\ \A j \in Keys \ {k} : work'[j] = work[j]
  BY <1>5, <1>8, WorkMoves
<1>10. RelockLog(k) \in Paths /\ FirstLog(k) \in Paths \ {RelockLog(k)}
  BY PathsTyped, FirstTyped, TaxonomyAssumption DEF FirstLog, TaxonomyAssumption
<1>11. /\ logs' \in [Paths -> Seq(LogLines)] /\ author' \in [Paths -> AuthorType]
       /\ author'[RelockLog(k)] = Me(k)
       /\ \A q \in Paths \ {RelockLog(k)} : logs'[q] = logs[q] /\ author'[q] = author[q]
  BY <1>1, <1>10, OpenTyped
<1>12. TypeOK' BY <1>1, <1>9, <1>11, TypesAre, TypesNext
<1>13. FrameOf(k)
  <2>1. ASSUME NEW q \in Paths
        PROVE  \/ author'[q] = author[q] /\ logs'[q] = logs[q]
               \/ author'[q] \in {Me(k), NoAuthor}
    BY <1>11
  <2>. QED BY <1>1, <1>9, <2>1 DEF FrameOf
<1>14. Under(k)' BY <1>1, <1>3, <1>4, <1>8, <1>9 DEF Under
<1>15. FirstLog(k)' = FirstLog(k) BY <1>1 DEF FirstLog, AttemptLog
<1>16. OwnLogStands(k)' = OwnLogStands(k)
  BY <1>1, <1>10, <1>11, <1>15 DEF OwnLogStands, FirstLog
<1>17. LogIsOwn(k)'
  BY <1>1, <1>3, <1>8, <1>9, <1>10, <1>11, <1>15, <1>16 DEF LogIsOwn, Printing, Starts
<1>18. StaleClass(k)' BY <1>1, <1>3, <1>8, <1>9, <1>16 DEF StaleClass
<1>19. RowLog(k)' /\ RowTells(k)' BY <1>1, <1>3 DEF Under, RowLog, RowTells
<1>. QED BY <1>12, <1>13, <1>14, <1>17, <1>18, <1>19, OneKeepsAll DEF KeyInv

LEMMA StepRelock ==
  ASSUME TypeOK, Inv, NEW k \in Keys, Relock(k)
  PROVE  TypeOK' /\ Inv'
<1>1. /\ work[k].pc = "retry" /\ UNCHANGED <<attempts, runs, logs, author, touched>>
      /\ \/ Record(k, "ok_after_relock", None, NoClass)
         \/ Record(k, "not_reproducible", "failed", work[k].class)
  BY DEF Relock
<1>2. work[k].class \in Class BY TypesAre DEF WorkType
<1>3. work[k].class = ReadClass(own[k].log) \/ ~OwnLogStands(k)
  BY <1>1 DEF Inv, KeyInv, StaleClass
<1>4. ~Printing(k) BY <1>1 DEF Printing
<1>. QED BY <1>1, <1>2, <1>3, <1>4, ClassesTyped, Recorded

LEMMA StepReproduced ==
  ASSUME TypeOK, Inv, NEW k \in Keys, Reproduced(k)
  PROVE  TypeOK' /\ Inv'
<1>1. /\ work[k].pc = "post" /\ UNCHANGED <<attempts, runs, logs, author, touched>>
      /\ \/ Record(k, "non-breaking", None, NoClass)
         \/ Record(k, "breaking", None, Classify(work[k].text))
  BY DEF Reproduced
<1>2. Classify(work[k].text) \in Class BY TypesAre, ReadTyped DEF WorkType
<1>. QED BY <1>1, <1>2, ClassesTyped, Recorded

LEMMA StepReclassify ==
  ASSUME TypeOK, Inv, NEW k \in Keys, Reclassify(k)
  PROVE  TypeOK' /\ Inv'
<1>1. /\ rows[k].status = "not_reproducible"
      /\ rows' = [rows EXCEPT ![k].class = PostHocClass(k)]
      /\ touched' = touched \cup {k}
      /\ UNCHANGED <<attempts, runs, logs, work, own, author>>
  BY DEF Reclassify
<1>. DEFINE class == PostHocClass(k)
            row == [rows[k] EXCEPT !.class = class]
<1>2. <<ShortOf[k], Plain>> \in Paths
  BY TaxonomyAssumption DEF TaxonomyAssumption, Paths, Plain, Relocked
<1>3. class \in Class
  <2>1. logs[<<ShortOf[k], Plain>>] \in Seq(LogLines) BY <1>2, TypesAre
  <2>. QED BY <2>1, ReadTyped, ClassesTyped DEF PostHocClass
<1>4. rows[k] \in RowType BY TypesAre
<1>5. Under(k) /\ LogIsOwn(k) /\ StaleClass(k) /\ RowLog(k) /\ RowTells(k) BY DEF Inv, KeyInv
<1>6. rows[k].reason = "timed out" => class.category = "TIMEOUT"
  BY DEF PostHocClass, ReasonClass, NoClass, None
<1>7. rows[k].reason = "thin image" => class.sub = "REGENERATE_FAIL"
  BY DEF PostHocClass, ReasonClass, NoClass, None
<1>8. ASSUME rows[k].reason = "failed", k \in Listed, ~(own[k].n > 1), OwnLogStands(k)
      PROVE  class = ReadClass(own[k].log)
  <2>1. logs[FirstLog(k)] = own[k].log /\ own[k].n >= 1 BY <1>1, <1>5, <1>8 DEF RowLog
  <2>2. own[k].n = 1
    <3>1. own[k].n \in Nat BY TypesAre, TaxonomyAssumption DEF OwnType, TaxonomyAssumption
    <3>. QED BY <1>8, <2>1, <3>1
  <2>3. FirstLog(k) = <<ShortOf[k], Plain>> BY <2>2 DEF FirstLog, AttemptLog
  <2>. QED BY <1>8, <2>1, <2>3 DEF PostHocClass, ReasonClass
<1>9. rows' = [rows EXCEPT ![k] = row] BY <1>1
<1>. HIDE DEF class
<1>10. row \in RowType /\ row.status = rows[k].status /\ row.reason = rows[k].reason
       /\ row.class = class
  BY <1>3, <1>4 DEF RowType
<1>. HIDE DEF row
<1>11. rows' \in [Keys -> RowType] /\ rows'[k] = row /\ \A j \in Keys \ {k} : rows'[j] = rows[j]
  BY <1>9, <1>10, TypesAre
<1>12. touched' \subseteq Keys BY <1>1, TypesAre
<1>13. TypeOK' BY <1>1, <1>11, <1>12, TypesAre, TypesNext
<1>14. FrameOf(k) BY <1>1, <1>11 DEF FrameOf
<1>15. Under(k)' BY <1>1, <1>5, <1>10, <1>11 DEF Under
<1>16. OwnLogStands(k)' = OwnLogStands(k) /\ FirstLog(k)' = FirstLog(k)
  BY <1>1 DEF OwnLogStands, FirstLog, AttemptLog
<1>17. LogIsOwn(k)' /\ StaleClass(k)'
  BY <1>1, <1>5, <1>16 DEF LogIsOwn, StaleClass, Printing, Starts
<1>18. RowLog(k)' BY <1>1, <1>5, <1>10, <1>11, <1>16 DEF RowLog
<1>19. RowTells(k)'
  <2>1. k \in touched' BY <1>1
  <2>2. rows'[k].class = class /\ rows'[k].reason = rows[k].reason BY <1>10, <1>11
  <2>. QED BY <1>1, <1>6, <1>7, <1>8, <1>16, <2>1, <2>2 DEF RowTells
<1>. QED BY <1>13, <1>14, <1>15, <1>17, <1>18, <1>19, OneKeepsAll DEF KeyInv

LEMMA Step ==
  ASSUME TypeOK, Inv, [Next]_vars
  PROVE  TypeOK' /\ Inv'
<1>1. CASE \E n \in 1 .. MaxAttempts : StartRun(n) BY <1>1, StepStartRun
<1>2. CASE Drop BY <1>2, StepDrop
<1>3. ASSUME NEW k \in Keys,
             \/ RunPre(k) \/ WriteLine(k) \/ RunPost(k) \/ Regenerate(k) \/ NotReproduced(k)
             \/ Retry(k) \/ Relock(k) \/ Reproduced(k) \/ Reclassify(k)
      PROVE  TypeOK' /\ Inv'
  BY <1>3, StepRunPre, StepWriteLine, StepRunPost, StepRegenerate, StepNotReproduced,
     StepRetry, StepRelock, StepReproduced, StepReclassify
<1>4. CASE UNCHANGED vars
  <2>1. TypeOK' BY <1>4 DEF vars, TypeOK
  <2>2. ASSUME NEW k \in Keys PROVE KeyInv(k)'
    <3>1. KeyInv(k) BY DEF Inv
    <3>2. OwnLogStands(k)' = OwnLogStands(k) /\ FirstLog(k)' = FirstLog(k)
      BY <1>4 DEF vars, OwnLogStands, FirstLog, AttemptLog
    <3>3. Under(k)' BY <1>4, <3>1 DEF vars, KeyInv, Under
    <3>4. LogIsOwn(k)' BY <1>4, <3>1, <3>2 DEF vars, KeyInv, LogIsOwn, Printing, Starts
    <3>5. StaleClass(k)' BY <1>4, <3>1, <3>2 DEF vars, KeyInv, StaleClass
    <3>6. RowLog(k)' BY <1>4, <3>1, <3>2 DEF vars, KeyInv, RowLog
    <3>7. RowTells(k)' BY <1>4, <3>1, <3>2 DEF vars, KeyInv, RowTells
    <3>. QED BY <3>3, <3>4, <3>5, <3>6, <3>7 DEF KeyInv
  <2>. QED BY <2>1, <2>2 DEF Inv
<1>. QED BY <1>1, <1>2, <1>3, <1>4 DEF Next

-----------------------------------------------------------------------------
LEMMA Invariants == Spec => [](TypeOK /\ Inv)
<1>1. Init => TypeOK /\ Inv BY TypeInit, InvInit
<1>2. TypeOK /\ Inv /\ [Next]_vars => (TypeOK /\ Inv)' BY Step
<1>. QED BY <1>1, <1>2, PTL DEF Spec

\* Every variable keeps its type, and every class that is recorded is one the two
\* schemes list (CATEGORIES, TopFailureCategory).
THEOREM TypeCorrect == Spec => []TypeOK
BY Invariants, PTL

\* Whoever wrote a row of a candidate that was not reproduced last, the driver or
\* --reclassify, it tells what the first attempt of that candidate printed, but for
\* the two excuses the invariant names; a timeout and a thin image that did not
\* build are told from the reason, and nothing excuses them.
THEOREM RowsTellOwnLogHolds == Spec => []RowsTellOwnLog
<1>1. TypeOK /\ Inv => RowsTellOwnLog
  <2>1. SUFFICES ASSUME Inv PROVE RowsTellOwnLog OBVIOUS
  <2>2. \A k \in Keys : RowLog(k) /\ RowTells(k) BY <2>1 DEF Inv, KeyInv
  <2>. QED BY <2>2 DEF RowsTellOwnLog, RowLog, RowTells
<1>. QED BY <1>1, Invariants, PTL

\* Whatever a build printed, of any length, a line of chatter before it hides no
\* cause that Scheme 2 finds in it, but for the two lines the property names, and a
\* summary after it names at most a log that no rule could.
THEOREM NoiseChangesNothing == Spec => []NoiseIgnored
<1>1. NoiseIgnored
  BY NothingHidden, TaxonomyAssumption DEF NoiseIgnored, TaxonomyAssumption
<1>. QED BY <1>1, PTL
=============================================================================
