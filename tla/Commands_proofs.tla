--------------------------- MODULE Commands_proofs ---------------------------
(*****************************************************************************)
(* Proofs about the commands that need no agent system: the rules a router   *)
(* is told stay, and its verdicts follow them; a quick call that succeeds    *)
(* does not lower a tool's score; the directives a prompt is given were in a *)
(* guide, recently, and were valid there; and a context that is taken from   *)
(* memory is that of the files.  For any rules, tools, calls, shells,        *)
(* guides, terminals, consoles, commands and edits, in any order.            *)
(*****************************************************************************)
EXTENDS RoutingPolicy, CodexContext, FiniteSetTheorems, WellFoundedInduction, TLAPS

-----------------------------------------------------------------------------
(* Sorting.                                                                 *)

\* The places are numbered from one to how many there are.
LEMMA RanksAreOnto ==
    ASSUME NEW n \in Nat, NEW P, P \subseteq 1..n, NEW key \in [P -> Int]
    PROVE  /\ Cardinality(P) \in Nat
           /\ \A k \in 1..Cardinality(P) : \E i \in P : RankOf(i, key) = k
           /\ \A i \in P : RankOf(i, key) \in 1..Cardinality(P)
           /\ \A i, j \in P : RankOf(i, key) = RankOf(j, key) => i = j
<1> DEFINE UpTo(i) == {j \in P : key[j] > key[i] \/ (key[j] = key[i] /\ j <= i)}
           f == [i \in P |-> RankOf(i, key)]
           T == 1..Cardinality(P)
<1>1. IsFiniteSet(P)
  <2>1. IsFiniteSet(1..n)
    BY FS_Interval
  <2> QED BY <2>1, FS_Subset
<1>2. Cardinality(P) \in Nat
  BY <1>1, FS_CardinalityType
<1>3. \A i \in P : i \in Nat /\ key[i] \in Int
  OBVIOUS
<1>4. ASSUME NEW i \in P
      PROVE  IsFiniteSet(UpTo(i)) /\ RankOf(i, key) = Cardinality(UpTo(i)) /\ RankOf(i, key) \in T
  <2>1. UpTo(i) \subseteq P /\ i \in UpTo(i)
    BY <1>3
  <2>2. RankOf(i, key) = Cardinality(UpTo(i))
    BY DEF RankOf
  <2> HIDE DEF UpTo
  <2>3. IsFiniteSet(UpTo(i)) /\ Cardinality(UpTo(i)) <= Cardinality(P)
    BY <1>1, <2>1, FS_Subset
  <2>4. Cardinality(UpTo(i)) \in Nat /\ Cardinality(UpTo(i)) # 0
    BY <2>1, <2>3, FS_CardinalityType, FS_EmptySet
  <2> QED BY <1>2, <2>2, <2>3, <2>4
<1>5. ASSUME NEW i \in P, NEW j \in P, key[i] > key[j] \/ (key[i] = key[j] /\ i < j)
      PROVE  RankOf(i, key) < RankOf(j, key)
  <2>1. UpTo(i) \subseteq UpTo(j) /\ j \in UpTo(j) /\ j \notin UpTo(i)
    <3>1. i \in Nat /\ j \in Nat /\ key[i] \in Int /\ key[j] \in Int
      BY <1>3
    <3>2. ASSUME NEW x \in P, key[x] > key[i] \/ (key[x] = key[i] /\ x <= i)
          PROVE  key[x] > key[j] \/ (key[x] = key[j] /\ x <= j)
      <4>1. x \in Nat /\ key[x] \in Int
        BY <1>3
      <4> QED BY <1>5, <3>1, <3>2, <4>1
    <3>3. ~(key[j] > key[i] \/ (key[j] = key[i] /\ j <= i)) /\ key[j] = key[j] /\ j <= j
      BY <1>5, <3>1
    <3> QED BY <3>2, <3>3
  <2>2. IsFiniteSet(UpTo(i)) /\ IsFiniteSet(UpTo(j))
    BY <1>4
  <2>3. RankOf(i, key) = Cardinality(UpTo(i)) /\ RankOf(j, key) = Cardinality(UpTo(j))
    BY DEF RankOf
  <2> HIDE DEF UpTo
  <2>4. Cardinality(UpTo(i)) <= Cardinality(UpTo(j)) /\ Cardinality(UpTo(i)) # Cardinality(UpTo(j))
    BY <2>1, <2>2, FS_Subset
  <2>5. Cardinality(UpTo(i)) \in Nat /\ Cardinality(UpTo(j)) \in Nat
    BY <2>2, FS_CardinalityType
  <2> QED BY <2>3, <2>4, <2>5
<1>6. \A i \in P : f[i] = RankOf(i, key)
  OBVIOUS
<1>7. ASSUME NEW i \in P, NEW j \in P, RankOf(i, key) = RankOf(j, key) PROVE i = j
  <2>1. i \in Nat /\ j \in Nat /\ key[i] \in Int /\ key[j] \in Int
    BY <1>3
  <2>2. \/ key[i] > key[j] \/ (key[i] = key[j] /\ i < j)
        \/ key[j] > key[i] \/ (key[j] = key[i] /\ j < i)
        \/ i = j
    BY <2>1
  <2>3. \A a \in T : a \in Nat
    BY <1>2
  <2>4. RankOf(i, key) \in Nat /\ RankOf(j, key) \in Nat
    BY <1>4, <2>3
  <2>5. \A a, b \in Nat : a = b => ~(a < b) /\ ~(b < a)
    OBVIOUS
  <2>6. ~(RankOf(i, key) < RankOf(j, key)) /\ ~(RankOf(j, key) < RankOf(i, key))
    BY <1>7, <2>4, <2>5
  <2> QED BY <1>5, <2>2, <2>6
<1>8. f \in Injection(P, T)
  <2>1. f \in [P -> T]
    BY <1>4 DEF RankOf
  <2> HIDE DEF f
  <2> QED BY <1>6, <1>7, <2>1 DEF Injection, IsInjective
<1>9. IsFiniteSet(T) /\ Cardinality(T) = Cardinality(P)
  <2>1. 1 \in Int /\ Cardinality(P) \in Int
    BY <1>2
  <2>2. IsFiniteSet(T) /\ Cardinality(T) = IF 1 > Cardinality(P) THEN 0 ELSE Cardinality(P) - 1 + 1
    BY ONLY <2>1, FS_Interval, Zenon
  <2>3. (IF 1 > Cardinality(P) THEN 0 ELSE Cardinality(P) - 1 + 1) = Cardinality(P)
    BY <1>2
  <2> QED BY <2>2, <2>3
<1>10. \A i \in P : RankOf(i, key) \in T
  BY <1>4
<1> HIDE DEF f, T
<1>11. f \in Surjection(P, T)
  BY <1>8, <1>9, FS_Injection
<1>12. \A k \in T : \E i \in P : RankOf(i, key) = k
  BY <1>6, <1>11 DEF Surjection
<1> QED BY <1>2, <1>7, <1>10, <1>12 DEF T

\* What is ranked are the entries of those places, each at its rank.
LEMMA RankedIs ==
    ASSUME NEW S, NEW s \in Seq(S), NEW P, P \subseteq DOMAIN s, NEW key \in [P -> Int]
    PROVE  /\ Cardinality(P) \in Nat /\ DOMAIN Ranked(s, key) = 1..Cardinality(P)
           /\ Ranked(s, key) \in Seq(S)
           /\ \A k \in 1..Cardinality(P) : \E i \in P : RankOf(i, key) = k /\ Ranked(s, key)[k] = s[i]
           /\ \A i \in P : RankOf(i, key) \in 1..Cardinality(P) /\ Ranked(s, key)[RankOf(i, key)] = s[i]
<1> DEFINE at(k) == CHOOSE i \in P : RankOf(i, key) = k
<1>1. DOMAIN s = 1..Len(s) /\ Len(s) \in Nat /\ DOMAIN key = P /\ \A i \in P : s[i] \in S
  OBVIOUS
<1>2. /\ Cardinality(P) \in Nat
      /\ \A k \in 1..Cardinality(P) : \E i \in P : RankOf(i, key) = k
      /\ \A i \in P : RankOf(i, key) \in 1..Cardinality(P)
      /\ \A i, j \in P : RankOf(i, key) = RankOf(j, key) => i = j
  BY <1>1, RanksAreOnto
<1>3. \A k \in 1..Cardinality(P) : at(k) \in P /\ RankOf(at(k), key) = k
  BY <1>2
<1>4. Ranked(s, key) = [k \in 1..Cardinality(P) |-> s[at(k)]]
  BY <1>1 DEF Ranked
<1> HIDE DEF at
<1>5. Ranked(s, key) \in Seq(S)
  <2>1. Ranked(s, key) \in [1..Cardinality(P) -> S]
    BY <1>1, <1>3, <1>4
  <2>2. \A n \in Nat : \A q \in [1..n -> S] : q \in Seq(S)
    OBVIOUS
  <2> QED BY <1>2, <2>1, <2>2
<1>6. \A i \in P : Ranked(s, key)[RankOf(i, key)] = s[i]
  <2> SUFFICES ASSUME NEW i \in P PROVE Ranked(s, key)[RankOf(i, key)] = s[i]
    OBVIOUS
  <2>1. RankOf(i, key) \in 1..Cardinality(P)
    BY <1>2
  <2>2. at(RankOf(i, key)) = i
    BY <1>2, <1>3, <2>1
  <2> QED BY <1>4, <2>1, <2>2
<1>7. \A k \in 1..Cardinality(P) : \E i \in P : RankOf(i, key) = k /\ Ranked(s, key)[k] = s[i]
  BY <1>3, <1>4
<1> QED BY <1>2, <1>4, <1>5, <1>6, <1>7

\* The first one has the greatest key.
LEMMA FirstIsGreatest ==
    ASSUME NEW n \in Nat, NEW P, P \subseteq 1..n, NEW key \in [P -> Int], NEW i \in P, RankOf(i, key) = 1, NEW j \in P
    PROVE  key[j] <= key[i]
<1> DEFINE UpTo == {x \in P : key[x] > key[i] \/ (key[x] = key[i] /\ x <= i)}
<1>1. IsFiniteSet(P)
  <2>1. IsFiniteSet(1..n)
    BY FS_Interval
  <2> QED BY <2>1, FS_Subset
<1>2. i \in Nat /\ key[i] \in Int /\ key[j] \in Int
  OBVIOUS
<1>3. SUFFICES ASSUME key[j] > key[i] PROVE FALSE
  BY <1>2
<1>4. {i, j} \subseteq UpTo /\ UpTo \subseteq P /\ i # j
  BY <1>2, <1>3
<1>5. Cardinality(UpTo) = 1
  BY DEF RankOf
<1> HIDE DEF UpTo
<1>6. IsFiniteSet(UpTo) /\ IsFiniteSet({i})
  BY <1>1, <1>4, FS_Subset, FS_Singleton
<1>7. Cardinality({i}) = 1 /\ {i} \subseteq UpTo
  BY <1>4, FS_Singleton
<1>8. {i} = UpTo
  BY <1>5, <1>6, <1>7, FS_Subset
<1> QED BY <1>4, <1>8

\* Filtering keeps what is at those places, and what is different stays so.
LEMMA InOrderIs ==
    ASSUME NEW S, NEW s \in Seq(S), NEW P, P \subseteq DOMAIN s
    PROVE  /\ InOrder(s, P) \in Seq(S)
           /\ Range(InOrder(s, P)) = {s[i] : i \in P}
           /\ \A k \in DOMAIN InOrder(s, P) : \E i \in P : InOrder(s, P)[k] = s[i]
           /\ \A j, k \in DOMAIN InOrder(s, P) :
                 j # k => \E a, b \in P : a # b /\ InOrder(s, P)[j] = s[a] /\ InOrder(s, P)[k] = s[b]
<1> DEFINE key == [i \in P |-> 0]
<1>1. key \in [P -> Int] /\ InOrder(s, P) = Ranked(s, key)
  BY DEF InOrder
<1> HIDE DEF key
<1>2. /\ Cardinality(P) \in Nat /\ DOMAIN Ranked(s, key) = 1..Cardinality(P)
      /\ Ranked(s, key) \in Seq(S)
      /\ \A k \in 1..Cardinality(P) : \E i \in P : RankOf(i, key) = k /\ Ranked(s, key)[k] = s[i]
      /\ \A i \in P : RankOf(i, key) \in 1..Cardinality(P) /\ Ranked(s, key)[RankOf(i, key)] = s[i]
  BY <1>1, RankedIs
<1>3. \A x : x \in Range(Ranked(s, key)) <=> x \in {s[i] : i \in P}
  BY <1>2 DEF Range
<1>4. ASSUME NEW j \in 1..Cardinality(P), NEW k \in 1..Cardinality(P), j # k
      PROVE  \E a, b \in P : a # b /\ Ranked(s, key)[j] = s[a] /\ Ranked(s, key)[k] = s[b]
  <2>1. PICK a \in P : RankOf(a, key) = j /\ Ranked(s, key)[j] = s[a]
    BY <1>2
  <2>2. PICK b \in P : RankOf(b, key) = k /\ Ranked(s, key)[k] = s[b]
    BY <1>2
  <2> QED BY <1>4, <2>1, <2>2
<1> QED BY <1>1, <1>2, <1>3, <1>4

\* A set of naturals that has a member has a least one.
LEMMA NatHasLeast ==
    ASSUME NEW T, T \subseteq Nat, T # {} PROVE \E i \in T : \A j \in T : i <= j
<1> DEFINE R == OpToRel(<, Nat)
<1>1. \A i, j \in Nat : <<j, i>> \in R <=> j < i
  BY DEF OpToRel
<1>2. IsWellFoundedOn(R, Nat)
  BY NatLessThanWellFounded
<1> HIDE DEF R
<1>3. PICK i \in T : \A j \in T : ~(<<j, i>> \in R)
  BY <1>2, WFMin
<1>4. \A j \in T : i <= j
  <2> SUFFICES ASSUME NEW j \in T PROVE i <= j
    OBVIOUS
  <2>1. i \in Nat /\ j \in Nat /\ ~(j < i)
    BY <1>1, <1>3
  <2> QED BY <2>1
<1> QED BY <1>4

\* A set of places has a greatest one.
LEMMA GreatestIs == ASSUME NEW n \in Nat, NEW P, P \subseteq 1..n, P # {} PROVE Max(P) \in P
<1>1. \E m \in P : \A j \in P : m >= j
  <2> DEFINE above == {k \in Nat : \A j \in P : j <= k}
  <2>1. n \in above
    OBVIOUS
  <2>2. above \subseteq Nat
    OBVIOUS
  <2>3. \A k : k \in above <=> k \in Nat /\ \A j \in P : j <= k
    OBVIOUS
  <2> HIDE DEF above
  <2>4. PICK m \in above : \A k \in above : m <= k
    BY <2>1, <2>2, NatHasLeast
  <2>5. m \in Nat /\ \A j \in P : j \in Nat /\ j <= m /\ 1 <= j
    BY <2>3
  <2>6. m \in P
    <3> SUFFICES ASSUME m \notin P PROVE FALSE
      OBVIOUS
    <3>1. \A j \in P : j <= m - 1
      BY <2>5
    <3>2. m - 1 \in Nat
      <4>1. PICK j \in P : TRUE
        OBVIOUS
      <4> QED BY <2>5, <4>1
    <3>3. m - 1 \in above
      BY <2>3, <3>1, <3>2
    <3> QED BY <2>4, <2>5, <3>3
  <2> QED BY <2>5, <2>6
<1> QED BY <1>1 DEF Max

\* What is kept of a sequence is a sequence of entries that are to be kept.
LEMMA ThoseAre ==
    ASSUME NEW S, NEW s \in Seq(S), NEW kept
    PROVE  Those(s, kept) \in Seq(S) /\ \A k \in DOMAIN Those(s, kept) : Those(s, kept)[k] \in S \cap kept
<1> DEFINE P == {k \in DOMAIN s : s[k] \in kept}
<1>1. P \subseteq DOMAIN s /\ Those(s, kept) = InOrder(s, P) /\ \A i \in P : s[i] \in S \cap kept
  BY DEF Those
<1> HIDE DEF P
<1> QED BY <1>1, InOrderIs

\* The guides to read are guides.
LEMMA InPrecedenceAre ==
    ASSUME NEW guides, guides \subseteq Guides PROVE InPrecedence(guides) \in Seq(Guides)
<1> DEFINE P == {i \in DOMAIN ByPath : ByPath[i] \in guides}
           key == [k \in P |-> -DeterminePrecedence(ByPath[k])]
<1>1. ByPath \in Seq(Guides) /\ P \subseteq DOMAIN ByPath
  BY CodexAssumption DEF Guides
<1>2. \A g : -DeterminePrecedence(g) \in Int
  BY DEF DeterminePrecedence
<1>3. key \in [P -> Int] /\ InPrecedence(guides) = Ranked(ByPath, key)
  BY <1>2 DEF InPrecedence
<1> HIDE DEF P, key
<1> QED BY <1>1, <1>3, RankedIs

-----------------------------------------------------------------------------
(* Routing rules: in a service each id has one.                             *)

Switched(r, on) == [r EXCEPT !.enabled = on]
Rules == KnownRules \cup {Switched(r, on) : r \in KnownRules, on \in BOOLEAN}
Distinct(rules) == \A j, k \in DOMAIN rules : j # k => rules[j].id # rules[k].id
Books == {rules \in Seq(Rules) : Distinct(rules)}

LEMMA RulesAre ==
    /\ \A r \in Rules : r.id \in Ids /\ r.precedence \in Int
    /\ \A r \in Rules, on \in BOOLEAN : Switched(r, on) \in Rules /\ Switched(r, on).id = r.id
    /\ KnownRules \subseteq Rules
<1>1. ASSUME NEW r \in KnownRules, NEW on \in BOOLEAN
      PROVE  /\ Switched(r, on).id = r.id /\ Switched(r, on).precedence = r.precedence
             /\ \A off : Switched(Switched(r, on), off) = Switched(r, off)
  BY RoutingAssumption DEF Switched
<1>2. \A r \in KnownRules : r.id \in Ids /\ r.precedence \in Int
  BY RoutingAssumption DEF Ids
<1>3. KnownRules \subseteq Rules /\ \A r \in KnownRules, on \in BOOLEAN : Switched(r, on) \in Rules
  BY DEF Rules
<1>4. ASSUME NEW r \in Rules
      PROVE  /\ r.id \in Ids /\ r.precedence \in Int
             /\ \A on \in BOOLEAN : Switched(r, on) \in Rules /\ Switched(r, on).id = r.id
  <2>1. CASE r \in KnownRules
    BY <1>1, <1>2, <1>3, <2>1
  <2>2. CASE r \notin KnownRules
    <3>1. PICK q \in KnownRules, on \in BOOLEAN : r = Switched(q, on)
      BY <2>2 DEF Rules
    <3> QED BY <1>1, <1>2, <1>3, <3>1
  <2> QED BY <2>1, <2>2
<1> QED BY <1>3, <1>4

LEMMA BooksAre ==
    ASSUME NEW rules \in Books
    PROVE  /\ rules \in Seq(Rules) /\ DOMAIN rules = 1..Len(rules) /\ Len(rules) \in Nat
           /\ \A k \in DOMAIN rules : rules[k] \in Rules /\ rules[k].id \in Ids /\ rules[k].precedence \in Int
           /\ \A j, k \in DOMAIN rules : rules[j].id = rules[k].id => j = k
           /\ \A r \in Range(rules) : \E k \in DOMAIN rules : r = rules[k]
BY RulesAre DEF Books, Distinct, Range

\* Adding a rule, or putting it in the place of the one it updates, leaves the others.
LEMMA PutIs ==
    ASSUME NEW rules \in Books, NEW rule \in Rules
    PROVE  Put(rules, rule) \in Books /\ \A id : id # rule.id => Find(Put(rules, rule), id) = Find(rules, id)
<1>1. /\ rules \in Seq(Rules) /\ DOMAIN rules = 1..Len(rules) /\ Len(rules) \in Nat
      /\ \A k \in DOMAIN rules : rules[k] \in Rules
      /\ \A j, k \in DOMAIN rules : rules[j].id = rules[k].id => j = k
  BY BooksAre
<1>2. CASE Find(rules, rule.id) = {}
  <2> DEFINE q == Append(rules, rule)
  <2>1. /\ q \in Seq(Rules) /\ DOMAIN q = 1..(Len(rules) + 1) /\ q[Len(rules) + 1] = rule
        /\ \A k \in 1..Len(rules) : q[k] = rules[k]
    BY <1>1
  <2>2. Put(rules, rule) = q
    BY <1>2 DEF Put
  <2> HIDE DEF q
  <2>3. \A k \in DOMAIN q : k \in 1..Len(rules) \/ k = Len(rules) + 1
    BY <1>1, <2>1
  <2>4. \A k \in 1..Len(rules) : rules[k].id # rule.id
    BY <1>1, <1>2 DEF Find, Range
  <2>5. Distinct(q)
    BY <1>1, <2>1, <2>3, <2>4 DEF Distinct
  <2>6. ASSUME NEW id, id # rule.id PROVE Find(q, id) = Find(rules, id)
    <3>1. 1..Len(rules) \subseteq DOMAIN q
      BY <1>1, <2>1
    <3>2. \A r : r \in Find(q, id) <=> r \in Find(rules, id)
      BY <1>1, <2>1, <2>3, <2>6, <3>1 DEF Find, Range
    <3> QED BY <3>2
  <2> QED BY <2>1, <2>2, <2>5, <2>6 DEF Books
<1>3. CASE Find(rules, rule.id) # {}
  <2> DEFINE q == [k \in DOMAIN rules |-> IF rules[k].id = rule.id THEN rule ELSE rules[k]]
  <2>1. Put(rules, rule) = q
    BY <1>3 DEF Put
  <2>2. q \in Seq(Rules) /\ DOMAIN q = DOMAIN rules
    BY <1>1
  <2>3. \A k \in DOMAIN rules : q[k].id = rules[k].id /\ (rules[k].id # rule.id => q[k] = rules[k])
    OBVIOUS
  <2> HIDE DEF q
  <2>4. Distinct(q)
    BY <1>1, <2>2, <2>3 DEF Distinct
  <2>5. ASSUME NEW id, id # rule.id PROVE Find(q, id) = Find(rules, id)
    <3>1. \A r : r \in Find(q, id) <=> r \in Find(rules, id)
      BY <2>2, <2>3, <2>5 DEF Find, Range
    <3> QED BY <3>1
  <2> QED BY <2>1, <2>2, <2>4, <2>5 DEF Books
<1> QED BY <1>2, <1>3

\* Deleting a rule leaves the others.
LEMMA DeleteIs ==
    ASSUME NEW rules \in Books, NEW gone
    PROVE  LET left == InOrder(rules, {k \in DOMAIN rules : rules[k].id # gone})
           IN left \in Books /\ \A id : id # gone => Find(left, id) = Find(rules, id)
<1> DEFINE P == {k \in DOMAIN rules : rules[k].id # gone}
           left == InOrder(rules, P)
<1>1. /\ rules \in Seq(Rules) /\ P \subseteq DOMAIN rules
      /\ \A j, k \in DOMAIN rules : rules[j].id = rules[k].id => j = k
      /\ \A k \in P : rules[k].id # gone /\ \A j \in DOMAIN rules : rules[j].id # gone => j \in P
  BY BooksAre
<1> HIDE DEF P
<1>2. /\ left \in Seq(Rules) /\ Range(left) = {rules[i] : i \in P}
      /\ \A j, k \in DOMAIN left : j # k => \E a, b \in P : a # b /\ left[j] = rules[a] /\ left[k] = rules[b]
  BY <1>1, InOrderIs
<1> HIDE DEF left
<1>3. Distinct(left)
  BY <1>1, <1>2 DEF Distinct
<1>4. ASSUME NEW id, id # gone PROVE Find(left, id) = Find(rules, id)
  <2>1. \A r : r \in Find(left, id) <=> r \in Find(rules, id)
    <3> SUFFICES ASSUME NEW r PROVE r \in Find(left, id) <=> r \in Find(rules, id)
      OBVIOUS
    <3>1. r \in Find(left, id) => r \in Find(rules, id)
      BY <1>1, <1>2 DEF Find, Range
    <3>2. ASSUME r \in Find(rules, id) PROVE r \in Find(left, id)
      <4>1. PICK k \in DOMAIN rules : r = rules[k] /\ r.id = id
        BY <3>2 DEF Find, Range
      <4>2. k \in P
        BY <1>4, <4>1 DEF P
      <4> QED BY <1>2, <4>1, <4>2 DEF Find
    <3> QED BY <3>1, <3>2
  <2> QED BY <2>1
<1> QED BY <1>2, <1>3, <1>4 DEF Books, left, P

\* A map of rules has each id once, and rules that have are its entries.
LEMMA ByIdIs ==
    ASSUME NEW rules \in Seq(Rules)
    PROVE  ById(rules) \in Books /\ (Distinct(rules) => \A id : Find(ById(rules), id) = Find(rules, id))
<1> DEFINE of(id) == {k \in DOMAIN rules : rules[k].id = id}
           latest(id) == rules[Max(of(id))]
           s == [k \in DOMAIN rules |-> latest(rules[k].id)]
           P == {k \in DOMAIN rules : \A j \in 1..(k - 1) : rules[j].id # rules[k].id}
<1>1. DOMAIN rules = 1..Len(rules) /\ Len(rules) \in Nat /\ \A k \in DOMAIN rules : rules[k] \in Rules
  OBVIOUS
<1>2. ASSUME NEW k \in DOMAIN rules
      PROVE  Max(of(rules[k].id)) \in DOMAIN rules /\ rules[Max(of(rules[k].id))].id = rules[k].id
  <2>1. of(rules[k].id) \subseteq 1..Len(rules) /\ k \in of(rules[k].id)
    BY <1>1
  <2> HIDE DEF of
  <2>2. Max(of(rules[k].id)) \in of(rules[k].id)
    BY <1>1, <2>1, GreatestIs
  <2> QED BY <2>2 DEF of
<1>3. s \in Seq(Rules) /\ DOMAIN s = DOMAIN rules /\ \A k \in DOMAIN rules : s[k].id = rules[k].id
  BY <1>1, <1>2
<1>4. P \subseteq DOMAIN s /\ ById(rules) = InOrder(s, P)
  BY DEF ById
<1>5. ASSUME NEW a \in P, NEW b \in P, a # b PROVE s[a].id # s[b].id
  <2>1. a \in 1..Len(rules) /\ b \in 1..Len(rules)
    BY <1>1
  <2>2. a \in 1..(b - 1) \/ b \in 1..(a - 1)
    BY <1>1, <1>5, <2>1
  <2> QED BY <1>3, <2>1, <2>2
<1>6. Distinct(rules) => \A k \in DOMAIN rules : k \in P /\ s[k] = rules[k]
  <2> SUFFICES ASSUME Distinct(rules), NEW k \in DOMAIN rules PROVE k \in P /\ s[k] = rules[k]
    OBVIOUS
  <2>1. \A j \in DOMAIN rules : rules[j].id = rules[k].id => j = k
    BY DEF Distinct
  <2>2. k \in P
    BY <1>1, <2>1
  <2>3. Max(of(rules[k].id)) = k
    BY <1>2, <2>1
  <2> QED BY <2>2, <2>3
<1> HIDE DEF P, s
<1>7. /\ ById(rules) \in Seq(Rules) /\ Range(ById(rules)) = {s[i] : i \in P}
      /\ \A j, k \in DOMAIN ById(rules) :
            j # k => \E a, b \in P : a # b /\ ById(rules)[j] = s[a] /\ ById(rules)[k] = s[b]
  BY <1>3, <1>4, InOrderIs
<1>8. Distinct(ById(rules))
  BY <1>5, <1>7 DEF Distinct
<1>9. ASSUME Distinct(rules), NEW id PROVE Find(ById(rules), id) = Find(rules, id)
  <2>1. \A x : x \in {s[i] : i \in P} <=> x \in {rules[i] : i \in DOMAIN rules}
    BY <1>3, <1>4, <1>6, <1>9
  <2>2. Range(ById(rules)) = Range(rules)
    BY <1>7, <2>1 DEF Range
  <2> QED BY <2>2 DEF Find
<1> QED BY <1>7, <1>8, <1>9 DEF Books

\* A list of rules up to an entry that ends its load is a list of rules.
LEMMA LoadedIs ==
    ASSUME NEW file, file.rules \in Seq(Rules)
    PROVE  /\ Loaded(file) \in Books
           /\ Complete(file) => Loaded(file) = ById(file.rules)
<1>1. KnownRules \subseteq Rules /\ DefaultRules \in Seq(Rules)
  <2>1. KnownRules \subseteq Rules /\ DefaultRules \in Seq(KnownRules)
    BY RulesAre, RoutingAssumption
  <2> QED BY <2>1
<1>2. Readable(file.rules) \in Seq(Rules)
  <2> DEFINE P == Undated(file.rules) \cup {Len(file.rules) + 1}
  <2>1. Len(file.rules) \in Nat /\ DOMAIN file.rules = 1..Len(file.rules)
    OBVIOUS
  <2>2. P \subseteq Nat /\ P # {} /\ \A k \in P : k \in 1..(Len(file.rules) + 1)
    BY <2>1 DEF Undated
  <2> HIDE DEF P
  <2>3. Min(P) \in P
    <3>1. PICK m \in P : \A j \in P : m <= j
      BY <2>2, NatHasLeast
    <3> QED BY <3>1 DEF Min
  <2>4. Min(P) - 1 \in 0..Len(file.rules)
    <3>1. \A k \in 1..(Len(file.rules) + 1) : k - 1 \in 0..Len(file.rules)
      BY <2>1
    <3> QED BY <2>2, <2>3, <3>1
  <2>5. SubSeq(file.rules, 1, Min(P) - 1) \in Seq(Rules)
    BY <2>1, <2>4
  <2> QED BY <2>5 DEF Readable, P
<1>3. (IF file.state = "whole" THEN Readable(file.rules) ELSE <<>>) \o DefaultRules \in Seq(Rules)
  BY <1>1, <1>2
<1> QED BY <1>3, ByIdIs DEF Loaded

\* The verdict is the target of a rule that hits, with no hit of a higher precedence, if any hits.
LEMMA VerdictIs ==
    ASSUME NEW rules \in Books, NEW request
    PROVE  LET hits == {r \in Range(rules) : r.enabled /\ RuleMatches(r, request)}
               best == {r \in hits : \A q \in hits : q.precedence <= r.precedence}
           IN Evaluation(rules, request).agent \in
                 IF hits = {} THEN {DefaultAgent(request.prompt)} ELSE {r.target : r \in best}
<1> DEFINE hits == {r \in Range(rules) : r.enabled /\ RuleMatches(r, request)}
           best == {r \in hits : \A q \in hits : q.precedence <= r.precedence}
           P == {k \in DOMAIN rules : rules[k].enabled /\ RuleMatches(rules[k], request)}
           key == [k \in P |-> rules[k].precedence]
           ranked == ApplicableRules(rules, request)
<1>1. /\ rules \in Seq(Rules) /\ DOMAIN rules = 1..Len(rules) /\ Len(rules) \in Nat
      /\ \A k \in DOMAIN rules : rules[k].precedence \in Int
  BY BooksAre
<1>2. P \subseteq DOMAIN rules /\ P \subseteq 1..Len(rules)
  BY <1>1
<1>3. key \in [P -> Int]
  BY <1>1
<1>4. ranked = Ranked(rules, key)
  BY DEF ApplicableRules, ByPrecedence
<1>5. \A r : r \in hits <=> \E k \in P : r = rules[k]
  BY DEF Range
<1>6. \A k \in P : key[k] = rules[k].precedence
  OBVIOUS
<1>7. \A r : r \in best <=> r \in hits /\ \A q \in hits : q.precedence <= r.precedence
  OBVIOUS
<1> HIDE DEF P, key, hits, best, ranked
<1>8. /\ Cardinality(P) \in Nat /\ DOMAIN ranked = 1..Cardinality(P)
      /\ \A k \in 1..Cardinality(P) : \E i \in P : RankOf(i, key) = k /\ ranked[k] = rules[i]
      /\ \A i \in P : RankOf(i, key) \in 1..Cardinality(P)
      /\ ranked \in Seq(Rules)
  BY <1>1, <1>2, <1>3, <1>4, RankedIs
<1>9. CASE P = {}
  <2>1. hits = {}
    BY <1>5, <1>9
  <2>2. ranked = <<>>
    <3>1. Cardinality(P) = 0
      BY <1>9, FS_EmptySet
    <3> QED BY <1>8, <3>1
  <2>3. Evaluation(rules, request).agent = DefaultAgent(request.prompt)
    BY <2>2 DEF Evaluation, ranked
  <2> QED BY <2>1, <2>3 DEF hits, best
<1>10. CASE P # {}
  <2>1. 1 \in 1..Cardinality(P)
    <3>1. PICK i \in P : TRUE
      BY <1>10
    <3> QED BY <1>8, <3>1
  <2>2. PICK i \in P : RankOf(i, key) = 1 /\ ranked[1] = rules[i]
    BY <1>8, <2>1
  <2>3. \A j \in P : key[j] <= key[i]
    BY <1>1, <1>2, <1>3, <2>2, FirstIsGreatest
  <2>4. rules[i] \in best /\ hits # {}
    BY <1>5, <1>6, <1>7, <2>3
  <2>5. ranked # <<>>
    BY <1>8, <2>1
  <2>6. Evaluation(rules, request).agent = rules[i].target
    BY <2>2, <2>5 DEF Evaluation, ranked
  <2>7. rules[i].target \in {r.target : r \in best}
    BY <2>4
  <2> QED BY <2>4, <2>6, <2>7 DEF hits, best
<1> QED BY <1>9, <1>10

-----------------------------------------------------------------------------
(* Routing rules: the inductive invariant.  A service knows each rule as    *)
(* the acknowledged changes have made it, unless the rule was changed since *)
(* it read the file, a later command has undone the change, or it is the    *)
(* rule this service is about to save.                                      *)

Opened == [pc : {"open", "write", "act"}, then : {"act"}, command : RouterCommands, rules : Books,
           stale : SUBSET Ids]
Saving == [pc : {"open", "write", "answer"}, then : {"answer"}, command : RouterCommands, rules : Books,
           stale : SUBSET Ids, about : Ids]
Verdicts == {Evaluation(rules, c) : rules \in Books, c \in RouterCommands}
Judging == [pc : {"recommend"}, command : RouterCommands, rules : Books, stale : SUBSET Ids, answer : Verdicts]
Judged == {r \in Judging : r.answer = Evaluation(r.rules, r.command)}
Services == Opened \cup Saving \cup Judged

Bare(r) ==
    /\ "stale" \notin DOMAIN r /\ "pc" \in DOMAIN r
    /\ r.pc \in {"idle", "load", "act", "recall", "openHistory", "writeHistory", "over"}
    /\ r.pc = "act" => r.command.kind \in {"record", "score"}
    /\ r.pc \in {"load", "act"} => r.command \in RouterCommands

AboutOf(r) == IF r \in Saving THEN {r.about} ELSE {}
Knows(r, made, lost) ==
    \A id \in Ids : id \notin lost \cup r.stale \cup AboutOf(r) => Find(r.rules, id) = made[id]

RouterInv ==
    /\ policies.rules \in Seq(Rules)
    /\ menu \in Menus
    /\ DOMAIN shell = Shells
    /\ \A s \in Shells : shell[s] \in Services \/ Bare(shell[s])
    /\ \A s \in Shells : shell[s] \in Services => Knows(shell[s], settled, spoilt)
    /\ RulesStay

LEMMA ServicesAre ==
    ASSUME NEW r \in Services
    PROVE  /\ r.rules \in Books /\ r.stale \in SUBSET Ids /\ r.command \in RouterCommands
           /\ "stale" \in DOMAIN r /\ AboutOf(r) \subseteq Ids
           /\ r.pc \in {"open", "write", "act", "answer", "recommend"}
           /\ r.pc = "recommend" => r \in Judged /\ AboutOf(r) = {}
           /\ r.pc = "act" => r \in Opened
           /\ r.pc = "answer" => r \in Saving
           /\ r.pc \in {"open", "write"} => r \in Opened \/ r \in Saving
           /\ r \in Opened => r.then = "act" /\ AboutOf(r) = {}
           /\ r \in Saving => r.then = "answer" /\ AboutOf(r) = {r.about}
BY DEF Services, Opened, Saving, Judging, Judged, AboutOf

\* Moving on with a save, and learning that it is outdated, a service keeps its rules.
LEMMA ServiceMoves ==
    ASSUME NEW r \in Services, NEW pc,
           \/ r \in Opened /\ pc \in {"open", "write", "act"}
           \/ r \in Saving /\ pc \in {"open", "write", "answer"},
           NEW q, q = [r EXCEPT !.pc = pc]
    PROVE  q \in Services /\ q.rules = r.rules /\ q.stale = r.stale /\ AboutOf(q) = AboutOf(r)
<1>1. CASE r \in Opened
  <2>1. pc \in {"open", "write", "act"}
    BY <1>1 DEF Opened, Saving
  <2>2. q \in Opened /\ q.rules = r.rules /\ q.stale = r.stale /\ q.then = "act"
    BY <1>1, <2>1 DEF Opened
  <2> QED BY <1>1, <2>2, ServicesAre DEF Services
<1>2. CASE r \in Saving
  <2>1. pc \in {"open", "write", "answer"}
    BY <1>2 DEF Opened, Saving
  <2>2. q \in Saving /\ q.rules = r.rules /\ q.stale = r.stale /\ q.about = r.about
    BY <1>2, <2>1 DEF Saving
  <2> QED BY <1>2, <2>2 DEF Services, AboutOf
<1> QED BY <1>1, <1>2

LEMMA ServiceLearns ==
    ASSUME NEW r \in Services, NEW X \in SUBSET Ids, NEW q, q = [r EXCEPT !.stale = r.stale \cup X]
    PROVE  q \in Services /\ q.rules = r.rules /\ q.stale = r.stale \cup X /\ AboutOf(q) = AboutOf(r)
<1>1. r.stale \cup X \in SUBSET Ids
  BY ServicesAre
<1>2. CASE r \in Opened
  <2>1. q \in Opened /\ q.rules = r.rules /\ q.stale = r.stale \cup X
    BY <1>1, <1>2 DEF Opened
  <2> QED BY <1>2, <2>1, ServicesAre DEF Services
<1>3. CASE r \in Saving
  <2>1. q \in Saving /\ q.rules = r.rules /\ q.stale = r.stale \cup X /\ q.about = r.about
    BY <1>1, <1>3 DEF Saving
  <2> QED BY <1>3, <2>1 DEF Services, AboutOf
<1>4. CASE r \in Judged
  <2>1. q \in Judging /\ q.rules = r.rules /\ q.stale = r.stale \cup X /\ q.command = r.command /\ q.answer = r.answer
    BY <1>1, <1>4 DEF Judged, Judging
  <2>2. r.answer = Evaluation(r.rules, r.command) /\ r.pc = "recommend" /\ q.pc = "recommend"
    BY <1>4, <2>1 DEF Judged, Judging
  <2>3. q \in Judged
    BY <2>1, <2>2 DEF Judged
  <2>4. q \in Services
    BY <2>3 DEF Services
  <2> QED BY <2>1, <2>2, <2>4, ServicesAre
<1> QED BY <1>2, <1>3, <1>4 DEF Services

-----------------------------------------------------------------------------
(* Routing rules: every step keeps the invariant.                           *)

LEMMA RouterFacts ==
    ASSUME RouterInv, NEW s \in Shells
    PROVE  /\ shell[s] \in Services \/ Bare(shell[s])
           /\ shell[s].pc \in {"open", "write", "answer", "recommend"} => shell[s] \in Services
           /\ shell[s].pc \in {"idle", "load", "recall", "openHistory", "writeHistory", "over"} => Bare(shell[s])
           /\ shell[s].pc = "act" /\ shell[s].command.kind \notin {"record", "score"} => shell[s] \in Opened
           /\ shell[s] \in Services => Knows(shell[s], settled, spoilt)
           /\ "stale" \in DOMAIN shell[s] <=> shell[s] \in Services
           /\ \A r : DOMAIN [shell EXCEPT ![s] = r] = Shells /\ [shell EXCEPT ![s] = r][s] = r
           /\ \A r, t : t \in Shells /\ t # s => [shell EXCEPT ![s] = r][t] = shell[t]
BY ServicesAre DEF RouterInv, Bare

\* A step of one shell that changes no file but the history.
LEMMA OneMoves ==
    ASSUME RouterInv, NEW s \in Shells, NEW r, shell' = [shell EXCEPT ![s] = r],
           UNCHANGED <<policies, menu, settled, spoilt>>,
           Bare(r) \/ (r \in Services /\ Knows(r, settled, spoilt))
    PROVE  RouterInv'
<1>1. DOMAIN shell' = Shells
  BY RouterFacts
<1>2. ASSUME NEW t \in Shells
      PROVE  /\ shell'[t] \in Services \/ Bare(shell'[t])
             /\ shell'[t] \in Services => Knows(shell'[t], settled', spoilt')
  <2>1. CASE t = s
    <3>1. shell'[t] = r
      BY <2>1, RouterFacts
    <3> QED BY <3>1, ServicesAre DEF Bare
  <2>2. CASE t # s
    <3>1. shell'[t] = shell[t]
      BY <2>2, RouterFacts
    <3> QED BY <3>1, RouterFacts
  <2> QED BY <2>1, <2>2
<1>3. RulesStay'
  BY DEF RouterInv, RulesStay
<1> QED BY <1>1, <1>2, <1>3 DEF RouterInv

LEMMA BareMoves ==
    ASSUME RouterInv, NEW s \in Shells, NEW pc \in {"over", "writeHistory"}, Bare(shell[s]), Moves(s, pc),
           UNCHANGED <<policies, menu, settled, spoilt>>
    PROVE  RouterInv'
<1>1. Bare([shell[s] EXCEPT !.pc = pc])
  BY DEF Bare
<1>2. shell' = [shell EXCEPT ![s] = [shell[s] EXCEPT !.pc = pc]]
  BY DEF Moves
<1> QED BY <1>1, <1>2, OneMoves

LEMMA ShellTypes == ASSUME RouterInv, NEW s \in Shells, NEW c \in menu, Types(s, c) PROVE RouterInv'
<1> DEFINE r == [pc |-> IF c.kind \in {"record", "score"} THEN "act" ELSE "load", command |-> c]
<1>1. c \in RouterCommands
  BY DEF RouterInv, RouterCommands
<1>2. shell' = [shell EXCEPT ![s] = r] /\ UNCHANGED <<policies, menu, settled, spoilt>>
  BY DEF Types, files
<1>3. Bare(r)
  BY <1>1 DEF Bare
<1> HIDE DEF r
<1> QED BY <1>2, <1>3, OneMoves

LEMMA ShellLoads == ASSUME RouterInv, NEW s \in Shells, Loads(s) PROVE RouterInv'
<1> DEFINE r == [pc |-> IF Complete(policies) THEN "act" ELSE "open", then |-> "act",
                 command |-> shell[s].command, rules |-> Loaded(policies),
                 stale |-> IF Complete(policies) THEN {} ELSE Ids]
<1>1. shell' = [shell EXCEPT ![s] = r] /\ UNCHANGED <<policies, menu, settled, spoilt>>
  BY DEF Loads, files, ghosts
<1>2. shell[s].command \in RouterCommands
  BY RouterFacts DEF Loads, Bare
<1>3. Loaded(policies) \in Books /\ (Complete(policies) => Loaded(policies) = ById(policies.rules))
  BY LoadedIs DEF RouterInv
<1>4. r \in Opened
  BY <1>2, <1>3 DEF Opened
<1>5. r.rules = Loaded(policies) /\ r.stale = IF Complete(policies) THEN {} ELSE Ids
  OBVIOUS
<1> HIDE DEF r
<1>6. Knows(r, settled, spoilt)
  <2>1. CASE Complete(policies)
    <3>1. policies.state = "whole"
      BY <2>1 DEF Complete
    <3> QED BY <1>3, <1>5, <2>1, <3>1 DEF RouterInv, RulesStay, Knows
  <2>2. CASE ~Complete(policies)
    BY <1>5, <2>2 DEF Knows
  <2> QED BY <2>1, <2>2
<1> QED BY <1>1, <1>4, <1>6, OneMoves DEF Services

LEMMA ServiceMovesOn ==
    ASSUME RouterInv, NEW s \in Shells, shell[s].pc \in {"open", "write"}, NEW pc, pc \in {"write", shell[s].then}
    PROVE  LET q == [shell[s] EXCEPT !.pc = pc] IN
           /\ q \in Services /\ q.rules = shell[s].rules /\ q.stale = shell[s].stale
           /\ AboutOf(q) = AboutOf(shell[s]) /\ Knows(q, settled, spoilt)
<1> DEFINE q == [shell[s] EXCEPT !.pc = pc]
<1>1. shell[s] \in Services /\ Knows(shell[s], settled, spoilt)
  BY RouterFacts
<1>2. \/ shell[s] \in Opened /\ pc \in {"open", "write", "act"}
      \/ shell[s] \in Saving /\ pc \in {"open", "write", "answer"}
  BY <1>1, ServicesAre
<1>3. \A x : x = q => /\ x \in Services /\ x.rules = shell[s].rules /\ x.stale = shell[s].stale
                      /\ AboutOf(x) = AboutOf(shell[s])
  BY <1>1, <1>2, ServiceMoves
<1> HIDE DEF q
<1>4. q \in Services /\ q.rules = shell[s].rules /\ q.stale = shell[s].stale /\ AboutOf(q) = AboutOf(shell[s])
  BY <1>3
<1>5. Knows(q, settled, spoilt)
  BY <1>1, <1>4 DEF Knows
<1> QED BY <1>4, <1>5 DEF q

LEMMA ShellOpens == ASSUME RouterInv, NEW s \in Shells, Opens(s) PROVE RouterInv'
<1> DEFINE q == [shell[s] EXCEPT !.pc = "write"]
<1>1. q \in Services /\ Knows(q, settled, spoilt)
  BY ServiceMovesOn DEF Opens
<1>2. shell' = [shell EXCEPT ![s] = q]
  BY DEF Opens, Moves
<1> HIDE DEF q
<1>3. DOMAIN shell' = Shells
  BY <1>2, RouterFacts
<1>4. ASSUME NEW t \in Shells
      PROVE  /\ shell'[t] \in Services \/ Bare(shell'[t])
             /\ shell'[t] \in Services => Knows(shell'[t], settled', spoilt')
  <2>1. UNCHANGED <<settled, spoilt>>
    BY DEF Opens, ghosts
  <2>2. shell'[t] = q \/ shell'[t] = shell[t]
    BY <1>2, RouterFacts
  <2> QED BY <1>1, <2>1, <2>2, RouterFacts
<1>5. policies'.rules \in Seq(Rules) /\ policies'.state # "whole" /\ menu' = menu
  BY DEF Opens, ghosts
<1> QED BY <1>3, <1>4, <1>5 DEF RouterInv, RulesStay

LEMMA SettledIs ==
    ASSUME RouterInv, NEW s \in Shells, shell[s].pc \in {"open", "write"}
    PROVE  /\ About(s) = AboutOf(shell[s]) /\ About(s) \subseteq Ids
           /\ \A id \in Ids : Settled(s)[id] = IF id \in About(s) THEN Find(shell[s].rules, id) ELSE settled[id]
BY RouterFacts, ServicesAre DEF About, Settled

LEMMA ShellWrites == ASSUME RouterInv, NEW s \in Shells, Writes(s) PROVE RouterInv'
<1> DEFINE q == [shell[s] EXCEPT !.pc = shell[s].then]
           told(t) == [shell[t] EXCEPT !.stale = shell[t].stale \cup About(s)]
<1>1. shell[s].pc = "write" /\ shell[s] \in Services /\ Knows(shell[s], settled, spoilt)
  BY RouterFacts DEF Writes
<1>2. /\ About(s) = AboutOf(shell[s]) /\ About(s) \subseteq Ids
      /\ \A id \in Ids : settled'[id] = IF id \in About(s) THEN Find(shell[s].rules, id) ELSE settled[id]
  BY <1>1, SettledIs DEF Writes
<1>3. spoilt' = (spoilt \cup shell[s].stale) \ About(s) /\ menu' = menu
  BY DEF Writes
<1>4. q \in Services /\ q.stale = shell[s].stale /\ q.rules = shell[s].rules /\ AboutOf(q) = AboutOf(shell[s])
  BY <1>1, ServiceMovesOn
<1>5. /\ DOMAIN shell' = Shells /\ shell'[s] = q
      /\ \A t \in Shells : t # s => shell'[t] = IF "stale" \in DOMAIN shell[t] THEN told(t) ELSE shell[t]
  <2>1. /\ DOMAIN Outdates(s) = Shells /\ Outdates(s)[s] = shell[s]
        /\ \A t \in Shells : t # s => Outdates(s)[t] = IF "stale" \in DOMAIN shell[t] THEN told(t) ELSE shell[t]
    BY DEF Outdates
  <2>2. shell' = [Outdates(s) EXCEPT ![s] = [Outdates(s)[s] EXCEPT !.pc = shell[s].then]]
    BY DEF Writes
  <2> HIDE DEF told
  <2> QED BY <2>1, <2>2
<1>6. ASSUME NEW t \in Shells, t # s, shell[t] \in Services
      PROVE  /\ told(t) \in Services /\ told(t).rules = shell[t].rules
             /\ told(t).stale = shell[t].stale \cup About(s) /\ AboutOf(told(t)) = AboutOf(shell[t])
  <2>1. \A x : x = told(t) => /\ x \in Services /\ x.rules = shell[t].rules
                              /\ x.stale = shell[t].stale \cup About(s) /\ AboutOf(x) = AboutOf(shell[t])
    BY <1>2, <1>6, ServiceLearns
  <2> HIDE DEF told
  <2> QED BY <2>1
<1> HIDE DEF q, told
<1>7. ASSUME NEW t \in Shells
      PROVE  /\ shell'[t] \in Services \/ Bare(shell'[t])
             /\ shell'[t] \in Services => Knows(shell'[t], settled', spoilt')
  <2>1. CASE t = s
    BY <1>1, <1>2, <1>3, <1>4, <1>5, <2>1 DEF Knows
  <2>2. CASE t # s /\ shell[t] \in Services
    <3>1. Knows(shell[t], settled, spoilt)
      BY <2>2, RouterFacts
    <3>2. shell'[t] = told(t)
      BY <1>5, <2>2, RouterFacts
    <3>3. Knows(told(t), settled', spoilt')
      BY <1>2, <1>3, <1>6, <2>2, <3>1 DEF Knows
    <3> QED BY <1>6, <2>2, <3>2, <3>3
  <2>3. CASE t # s /\ shell[t] \notin Services
    BY <1>5, <2>3, RouterFacts
  <2> QED BY <2>1, <2>2, <2>3
<1>8. policies' = [state |-> "whole", rules |-> shell[s].rules] /\ shell[s].rules \in Books
  BY <1>1, ServicesAre DEF Writes
<1>9. shell[s].rules \in Seq(Rules) /\ \A id : Find(ById(shell[s].rules), id) = Find(shell[s].rules, id)
  BY <1>8, ByIdIs DEF Books
<1>10. RulesStay'
  <2>1. ASSUME NEW id \in Ids, id \notin spoilt' PROVE Find(shell[s].rules, id) = settled'[id]
    BY <1>1, <1>2, <1>3, <2>1 DEF Knows
  <2>2. policies'.rules = shell[s].rules
    BY <1>8
  <2> QED BY <1>9, <2>1, <2>2 DEF RulesStay
<1>11. policies'.rules \in Seq(Rules)
  BY <1>8, <1>9
<1> QED BY <1>3, <1>5, <1>7, <1>10, <1>11 DEF RouterInv

LEMMA ShellFails == ASSUME RouterInv, NEW s \in Shells, SaveFails(s) PROVE RouterInv'
<1> DEFINE q == [shell[s] EXCEPT !.pc = shell[s].then]
<1>1. q \in Services /\ Knows(q, settled, spoilt)
  BY ServiceMovesOn DEF SaveFails
<1>2. shell' = [shell EXCEPT ![s] = q] /\ spoilt' = spoilt \cup About(s) /\ UNCHANGED <<policies, menu>>
  BY DEF SaveFails, Moves, files
<1>3. \A id \in Ids : id \notin spoilt' => id \notin spoilt /\ settled'[id] = settled[id]
  BY <1>2, SettledIs DEF SaveFails
<1> HIDE DEF q
<1>4. DOMAIN shell' = Shells
  BY <1>2, RouterFacts
<1>5. ASSUME NEW t \in Shells
      PROVE  /\ shell'[t] \in Services \/ Bare(shell'[t])
             /\ shell'[t] \in Services => Knows(shell'[t], settled', spoilt')
  <2>1. shell'[t] = q \/ shell'[t] = shell[t]
    BY <1>2, RouterFacts
  <2>2. \A r : Knows(r, settled, spoilt) => Knows(r, settled', spoilt')
    BY <1>3 DEF Knows
  <2> QED BY <1>1, <2>1, <2>2, RouterFacts
<1>6. RulesStay'
  BY <1>2, <1>3 DEF RouterInv, RulesStay
<1> QED BY <1>2, <1>4, <1>5, <1>6 DEF RouterInv

\* The rules of a service that has just changed one of them, and is about to save it.
LEMMA ShellSaves ==
    ASSUME RouterInv, NEW s \in Shells, shell[s] \in Opened, NEW id \in Ids, NEW rules \in Books,
           \A other : other # id => Find(rules, other) = Find(shell[s].rules, other), Saves(s, rules, id)
    PROVE  RouterInv'
<1> DEFINE r == [pc |-> "open", then |-> "answer", command |-> shell[s].command, rules |-> rules,
                 stale |-> shell[s].stale, about |-> id]
<1>1. shell' = [shell EXCEPT ![s] = r] /\ UNCHANGED <<policies, menu, settled, spoilt>>
  BY DEF Saves, files, ghosts
<1>2. shell[s] \in Services /\ Knows(shell[s], settled, spoilt) /\ AboutOf(shell[s]) = {}
  BY RouterFacts, ServicesAre DEF Services
<1>3. r \in Saving /\ r.rules = rules /\ r.stale = shell[s].stale /\ r.about = id
  BY <1>2, ServicesAre DEF Saving
<1> HIDE DEF r
<1>4. Knows(r, settled, spoilt)
  BY <1>2, <1>3 DEF Knows, AboutOf
<1> QED BY <1>1, <1>3, <1>4, OneMoves DEF Services

LEMMA ShellAdds == ASSUME RouterInv, NEW s \in Shells, Adds(s) PROVE RouterInv'
<1> DEFINE rule == shell[s].command.rule
<1>1. shell[s] \in Opened /\ shell[s].command.kind = "add" /\ Saves(s, Put(shell[s].rules, rule), rule.id)
  BY RouterFacts DEF Adds
<1>2. shell[s].rules \in Books /\ shell[s].command \in RouterCommands
  BY <1>1 DEF Opened
<1> HIDE DEF rule
<1>3. rule \in KnownRules
  <2> DEFINE adding == {d \in RouterCommands : d.kind = "add"}
  <2>1. shell[s].command \in adding
    BY <1>1, <1>2
  <2> HIDE DEF adding
  <2>2. rule \in {c.rule : c \in adding}
    BY <2>1 DEF rule
  <2> QED BY <2>2 DEF KnownRules, adding
<1>4. rule \in Rules /\ rule.id \in Ids
  BY <1>3, RulesAre
<1> QED BY <1>1, <1>2, <1>4, PutIs, ShellSaves

LEMMA ShellDeletes == ASSUME RouterInv, NEW s \in Shells, Deletes(s) PROVE RouterInv'
<1> DEFINE id == shell[s].command.id
           left == InOrder(shell[s].rules, {k \in DOMAIN shell[s].rules : shell[s].rules[k].id # id})
<1>1. shell[s] \in Opened /\ Find(shell[s].rules, id) # {} /\ Saves(s, left, id)
  BY RouterFacts DEF Deletes
<1>2. shell[s].rules \in Books
  BY <1>1 DEF Opened
<1>3. id \in Ids
  BY <1>1, <1>2, BooksAre DEF Find
<1>4. left \in Books /\ \A other : other # id => Find(left, other) = Find(shell[s].rules, other)
  BY <1>2, DeleteIs
<1> HIDE DEF left, id
<1> QED BY <1>1, <1>3, <1>4, ShellSaves

LEMMA ShellEnables == ASSUME RouterInv, NEW s \in Shells, Enables(s) PROVE RouterInv'
<1>1. shell[s] \in Opened /\ shell[s].command.kind = "enable"
  BY RouterFacts DEF Enables
<1>2. shell[s].rules \in Books /\ shell[s].command \in RouterCommands
  BY <1>1 DEF Opened
<1>3. PICK rule \in Find(shell[s].rules, shell[s].command.id) :
         Saves(s, Put(shell[s].rules, Switched(rule, shell[s].command.on)), shell[s].command.id)
  BY DEF Enables, Switched
<1>4. rule \in Rules /\ rule.id = shell[s].command.id /\ shell[s].command.on \in BOOLEAN
  BY <1>1, <1>2, <1>3, BooksAre, RoutingAssumption DEF Find
<1>5. rule.id \in Ids /\ Switched(rule, shell[s].command.on) \in Rules
      /\ Switched(rule, shell[s].command.on).id = rule.id
  BY <1>4, RulesAre
<1> QED BY <1>1, <1>2, <1>3, <1>4, <1>5, PutIs, ShellSaves

LEMMA ShellEvaluates == ASSUME RouterInv, NEW s \in Shells, Evaluates(s) PROVE RouterInv'
<1> DEFINE r == [pc |-> "recommend", command |-> shell[s].command, rules |-> shell[s].rules,
                 stale |-> shell[s].stale, answer |-> Evaluation(shell[s].rules, shell[s].command)]
           b == [pc |-> "over", command |-> shell[s].command, answer |-> Fallback]
<1>1. shell[s] \in Opened /\ UNCHANGED <<policies, menu, settled, spoilt>>
  BY RouterFacts DEF Evaluates, files, ghosts
<1>2. shell[s] \in Services /\ Knows(shell[s], settled, spoilt)
  BY <1>1, RouterFacts DEF Services
<1>3. shell' = [shell EXCEPT ![s] = r] \/ shell' = [shell EXCEPT ![s] = b]
  BY DEF Evaluates, Answers
<1>4. Bare(b)
  BY DEF Bare
<1>5. Evaluation(shell[s].rules, shell[s].command) \in Verdicts
  BY <1>2, ServicesAre DEF Verdicts
<1>6. r \in Judging /\ r.rules = shell[s].rules /\ r.stale = shell[s].stale
      /\ r.answer = Evaluation(r.rules, r.command)
  BY <1>2, <1>5, ServicesAre DEF Judging
<1> HIDE DEF r, b
<1>7. r \in Services
  BY <1>6 DEF Services, Judged
<1>8. Knows(r, settled, spoilt)
  BY <1>1, <1>2, <1>6, ServicesAre DEF Knows
<1> QED BY <1>1, <1>3, <1>4, <1>7, <1>8, OneMoves

LEMMA ShellRests ==
    ASSUME RouterInv, NEW s \in Shells,
           \/ FindsNoRule(s) \/ Acknowledges(s) \/ Lists(s) \/ Recommends(s) \/ Recalls(s)
           \/ OpensHistory(s) \/ WritesHistory(s) \/ Records(s) \/ Scores(s) \/ Ends(s) \/ Dies(s)
    PROVE  RouterInv'
<1>1. UNCHANGED <<policies, menu, settled, spoilt>>
  BY DEF FindsNoRule, Acknowledges, Lists, Recommends, Recalls, OpensHistory, WritesHistory, Records, Scores,
         Ends, Dies, files, ghosts
<1>2. ASSUME NEW answer, Answers(s, answer) PROVE RouterInv'
  <2> DEFINE r == [pc |-> "over", command |-> shell[s].command, answer |-> answer]
  <2>1. Bare(r)
    BY DEF Bare
  <2>2. shell' = [shell EXCEPT ![s] = r]
    BY <1>2 DEF Answers
  <2> HIDE DEF r
  <2> QED BY <1>1, <2>1, <2>2, OneMoves
<1>3. CASE FindsNoRule(s) \/ Acknowledges(s) \/ Lists(s) \/ Records(s) \/ Scores(s)
  BY <1>2, <1>3 DEF FindsNoRule, Acknowledges, Lists, Records, Scores
<1>4. CASE Recommends(s)
  <2>1. PICK ranking : shell' = [shell EXCEPT ![s] = [pc |-> "recall", command |-> shell[s].command,
                                                      answer |-> shell[s].answer, tools |-> ranking]]
    BY <1>4 DEF Recommends
  <2> DEFINE r == [pc |-> "recall", command |-> shell[s].command, answer |-> shell[s].answer, tools |-> ranking]
  <2>2. Bare(r)
    BY DEF Bare
  <2> QED BY <1>1, <2>1, <2>2, OneMoves
<1>5. CASE Recalls(s)
  <2>1. Bare(shell[s])
    BY <1>5, RouterFacts DEF Recalls
  <2> DEFINE b == [shell[s] EXCEPT !.pc = "over"]
             r == [pc |-> "openHistory", command |-> shell[s].command, answer |-> shell[s].answer,
                   entries |-> Latest(Append(history.entries, shell[s].answer.agent), HistoryLimit)]
  <2>2. shell' = [shell EXCEPT ![s] = b] \/ shell' = [shell EXCEPT ![s] = r]
    BY <1>5 DEF Recalls
  <2>3. Bare(b) /\ Bare(r)
    BY <2>1 DEF Bare
  <2> QED BY <1>1, <2>2, <2>3, OneMoves
<1>6. CASE OpensHistory(s)
  <2>1. Bare(shell[s])
    BY <1>6, RouterFacts DEF OpensHistory
  <2> QED BY <1>1, <1>6, <2>1, BareMoves DEF OpensHistory
<1>7. CASE WritesHistory(s)
  <2>1. Bare(shell[s])
    BY <1>7, RouterFacts DEF WritesHistory
  <2> QED BY <1>1, <1>7, <2>1, BareMoves DEF WritesHistory
<1>8. CASE Ends(s) \/ Dies(s)
  <2>1. Bare(Idle)
    BY DEF Bare, Idle
  <2> QED BY <1>1, <1>8, <2>1, OneMoves DEF Ends, Dies
<1> QED BY <1>3, <1>4, <1>5, <1>6, <1>7, <1>8

LEMMA RouterInit_Inv == ASSUME RouterInit PROVE RouterInv
<1>1. PICK file \in FirstPolicies, commands \in Menus : RouterStart(file, commands)
  BY DEF RouterInit
<1>2. policies.rules \in Seq(Rules)
  <2>1. file.rules \in Seq(KnownRules)
    BY RoutingAssumption
  <2> QED BY <1>1, <2>1, RulesAre DEF RouterStart
<1>3. \A s \in Shells : Bare(shell[s])
  BY <1>1 DEF RouterStart, Bare, Idle
<1>4. \A s \in Shells : shell[s] \notin Services
  BY <1>3, ServicesAre DEF Bare
<1>5. RulesStay
  BY <1>1 DEF RouterStart, RulesStay
<1>6. menu \in Menus /\ DOMAIN shell = Shells
  BY <1>1 DEF RouterStart
<1> QED BY <1>2, <1>3, <1>4, <1>5, <1>6 DEF RouterInv

LEMMA RouterStep_Inv == ASSUME RouterInv, [\E s \in Shells : RouterStep(s)]_routerVars PROVE RouterInv'
<1>1. ASSUME NEW s \in Shells, RouterStep(s) PROVE RouterInv'
  BY <1>1, ShellTypes, ShellLoads, ShellOpens, ShellWrites, ShellFails, ShellAdds, ShellDeletes, ShellEnables,
     ShellEvaluates, ShellRests DEF RouterStep
<1>2. CASE UNCHANGED routerVars
  BY <1>2 DEF routerVars, RouterInv, RulesStay
<1> QED BY <1>1, <1>2

LEMMA VerdictSound == ASSUME RouterInv PROVE VerdictFollowsRules
<1> SUFFICES ASSUME NEW s \in Shells, shell[s].pc = "recommend", shell[s].stale = {}, spoilt = {}
             PROVE  LET hits == {r \in RulesMade : r.enabled /\ RuleMatches(r, shell[s].command)}
                        best == {r \in hits : \A q \in hits : q.precedence <= r.precedence}
                    IN shell[s].answer.agent \in IF hits = {} THEN {DefaultAgent(shell[s].command.prompt)}
                                                 ELSE {r.target : r \in best}
  BY DEF VerdictFollowsRules
<1>1. shell[s] \in Judged /\ AboutOf(shell[s]) = {} /\ Knows(shell[s], settled, spoilt) /\ shell[s].rules \in Books
  BY RouterFacts, ServicesAre
<1>2. shell[s].answer = Evaluation(shell[s].rules, shell[s].command)
  BY <1>1 DEF Judged
<1>3. \A id \in Ids : Find(shell[s].rules, id) = settled[id]
  BY <1>1 DEF Knows
<1>4. \A r \in Range(shell[s].rules) : r.id \in Ids
  BY <1>1, BooksAre
<1>5. RulesMade = Range(shell[s].rules)
  BY <1>3, <1>4 DEF RulesMade, Find
<1> QED BY <1>1, <1>2, <1>5, VerdictIs

\* Theorem: whatever commands are typed in whatever terminals, in any order, and whichever of them fail
\* to save or die while they write, the rules file holds each rule as the last acknowledged change left
\* it, until a command that had read the file before that change writes it, or a save fails; and a verdict
\* that was reached with the rules as they are is the one of the matching rule of highest precedence.
THEOREM RoutingStaysSound == RouterSpec => []RoutingIsSound
<1>1. RouterInv => RoutingIsSound
  BY VerdictSound DEF RoutingIsSound, RouterInv
<1> QED BY <1>1, RouterInit_Inv, RouterStep_Inv, PTL DEF RouterSpec

-----------------------------------------------------------------------------
(* Sums.                                                                    *)

\* The function a fold over the elements of D is made from.
Summing(iter, f, D) ==
    iter = [s \in SUBSET D |-> IF s = {} THEN 0 ELSE LET x == CHOOSE x \in s : TRUE IN f[x] + iter[s \ {x}]]

\* The sum of a function is what its fold gives for the whole domain.
LEMMA SumIsFold == ASSUME NEW f PROVE SumFunction(f) = (CHOOSE iter : Summing(iter, f, DOMAIN f))[DOMAIN f]
BY Zenon DEF SumFunction, SumFunctionOnSet, FoldFunctionOnSet, MapThenFoldSet, Summing

\* One label more: the elements that have it are added.
LEMMA PartsAdd ==
    ASSUME NEW R, IsFiniteSet(R), NEW g, NEW s, NEW x \in s
    PROVE  Cardinality({r \in R : g[r] \in s}) =
              Cardinality({r \in R : g[r] = x}) + Cardinality({r \in R : g[r] \in s \ {x}})
<1> DEFINE A == {r \in R : g[r] = x}
           B == {r \in R : g[r] \in s \ {x}}
<1>1. IsFiniteSet(A) /\ IsFiniteSet(B)
  BY FS_Subset
<1>2. {r \in R : g[r] \in s} = A \cup B /\ A \cap B = {}
  OBVIOUS
<1>3. Cardinality(A \cap B) = 0
  BY <1>2, FS_EmptySet
<1>4. Cardinality(A) \in Nat /\ Cardinality(B) \in Nat
  BY <1>1, FS_CardinalityType
<1>5. Cardinality(A \cup B) = Cardinality(A) + Cardinality(B) - Cardinality(A \cap B)
  BY <1>1, FS_Union
<1> HIDE DEF A, B
<1>6. Cardinality(A \cup B) = Cardinality(A) + Cardinality(B)
  BY <1>3, <1>4, <1>5
<1> QED BY <1>2, <1>6 DEF A, B

\* The sum of the sizes of the parts of a finite set is its size.
LEMMA SumOfParts ==
    ASSUME NEW f, IsFiniteSet(DOMAIN f), NEW R, IsFiniteSet(R), NEW g,
           \A r \in R : g[r] \in DOMAIN f,
           \A x \in DOMAIN f : f[x] = Cardinality({r \in R : g[r] = x})
    PROVE  SumFunction(f) = Cardinality(R)
<1> DEFINE D == DOMAIN f
           Size(s) == Cardinality({r \in R : g[r] \in s})
           sizes == [s \in SUBSET D |-> Size(s)]
<1>1. ASSUME NEW s \in SUBSET D, s # {} PROVE Size(s) = f[CHOOSE x \in s : TRUE] + Size(s \ {CHOOSE x \in s : TRUE})
  <2> DEFINE x == CHOOSE x \in s : TRUE
  <2>1. x \in s
    BY <1>1
  <2>2. f[x] = Cardinality({r \in R : g[r] = x})
    BY <2>1
  <2> HIDE DEF x
  <2>3. Size(s) = f[x] + Size(s \ {x})
    BY <2>1, <2>2, PartsAdd
  <2> QED BY <2>3 DEF x
<1>2. Size({}) = 0
  BY FS_EmptySet
<1>3. Summing(sizes, f, D)
  <2>1. ASSUME NEW s \in SUBSET D
        PROVE  sizes[s] = IF s = {} THEN 0 ELSE LET x == CHOOSE x \in s : TRUE IN f[x] + sizes[s \ {x}]
    <3> HIDE DEF Size
    <3>1. CASE s = {}
      BY <1>2, <3>1
    <3>2. CASE s # {}
      <4>1. (s \ {CHOOSE x \in s : TRUE}) \in SUBSET D
        OBVIOUS
      <4> QED BY <1>1, <3>2, <4>1
    <3> QED BY <3>1, <3>2
  <2> HIDE DEF Size
  <2>2. sizes = [s \in SUBSET D |-> sizes[s]]
    OBVIOUS
  <2> HIDE DEF sizes
  <2>3. sizes = [s \in SUBSET D |-> IF s = {} THEN 0 ELSE LET x == CHOOSE x \in s : TRUE IN f[x] + sizes[s \ {x}]]
    BY <2>1, <2>2, Zenon
  <2> QED BY <2>3 DEF Summing
<1> DEFINE iter == CHOOSE iter : Summing(iter, f, D)
<1>4. Summing(iter, f, D)
  BY <1>3, Zenon
<1> HIDE DEF sizes, iter
<1>5. ASSUME NEW s \in SUBSET D PROVE iter[s] = IF s = {} THEN 0 ELSE LET x == CHOOSE x \in s : TRUE IN f[x] + iter[s \ {x}]
  BY <1>4, Zenon DEF Summing
<1> DEFINE Wrong(n) == \E s \in SUBSET D : Cardinality(s) = n /\ iter[s] # Size(s)
           T == {n \in Nat : Wrong(n)}
<1>6. T = {}
  <2> SUFFICES ASSUME T # {} PROVE FALSE
    OBVIOUS
  <2>1. PICK n \in T : \A k \in T : n <= k
    BY NatHasLeast
  <2>2. PICK s \in SUBSET D : Cardinality(s) = n /\ iter[s] # Size(s)
    BY <2>1
  <2>3. s # {}
    BY <2>2, <1>2, <1>5
  <2> DEFINE x == CHOOSE x \in s : TRUE
  <2>4. x \in s
    BY <2>3
  <2>5. IsFiniteSet(s)
    BY FS_Subset
  <2>6. IsFiniteSet(s \ {x}) /\ Cardinality(s \ {x}) = Cardinality(s) - 1
    BY <2>4, <2>5, FS_RemoveElement
  <2>7. iter[s] = f[x] + iter[s \ {x}]
    BY <1>5, <2>3
  <2>8. Size(s) = f[x] + Size(s \ {x})
    BY <1>1, <2>3
  <2> HIDE DEF x, Size
  <2>9. iter[s \ {x}] # Size(s \ {x})
    BY <2>2, <2>7, <2>8
  <2>10. (s \ {x}) \in SUBSET D /\ Cardinality(s \ {x}) \in Nat
    BY <2>6, FS_CardinalityType
  <2>11. Cardinality(s \ {x}) \in T
    BY <2>9, <2>10
  <2>12. n \in Nat
    BY <2>1
  <2>13. n <= Cardinality(s \ {x})
    BY <2>1, <2>11
  <2> HIDE DEF T, D
  <2> QED BY <2>2, <2>6, <2>10, <2>12, <2>13
<1>7. Cardinality(D) \in Nat
  BY FS_CardinalityType
<1>8. iter[D] = Size(D)
  <2> HIDE DEF Size
  <2> SUFFICES ASSUME iter[D] # Size(D) PROVE FALSE
    OBVIOUS
  <2>1. D \in SUBSET D /\ Cardinality(D) \in T
    BY <1>7
  <2> QED BY <2>1, <1>6
<1>9. {r \in R : g[r] \in D} = R
  OBVIOUS
<1>10. SumFunction(f) = iter[D]
  BY SumIsFold DEF iter
<1> QED BY <1>8, <1>9, <1>10
\* What a function on a finite set takes is finite.
LEMMA ImageIsFinite == ASSUME NEW S, IsFiniteSet(S), NEW g PROVE IsFiniteSet({g[x] : x \in S})
<1> DEFINE T == {g[x] : x \in S}
           f == [x \in S |-> g[x]]
<1>1. f \in Surjection(S, T)
  BY DEF Surjection
<1> QED BY <1>1, FS_Surjection

\* A count of one thing for each unit of each entry of f.
Units(f) == UNION {{x} \X (1..f[x]) : x \in DOMAIN f}

\* The units of a function, and those of one entry.
LEMMA UnitsAre ==
    ASSUME NEW f
    PROVE  /\ \A u \in Units(f) : u[1] \in DOMAIN f /\ u[2] \in 1..f[u[1]] /\ u = <<u[1], u[2]>>
           /\ \A x \in DOMAIN f : \A i \in 1..f[x] : f[x] \in Nat => <<x, i>> \in Units(f)
           /\ \A x, n : \A u \in {x} \X (1..n) : u[1] = x /\ u[2] \in 1..n /\ u = <<x, u[2]>>
           /\ \A x, n : \A i \in 1..n : <<x, i>> \in {x} \X (1..n)
<1>3. ASSUME NEW x, NEW n, NEW u \in {x} \X (1..n) PROVE u[1] = x /\ u[2] \in 1..n /\ u = <<x, u[2]>>
  OBVIOUS
<1>1. ASSUME NEW u \in Units(f) PROVE u[1] \in DOMAIN f /\ u[2] \in 1..f[u[1]] /\ u = <<u[1], u[2]>>
  <2>1. PICK x \in DOMAIN f : u \in {x} \X (1..f[x])
    BY DEF Units
  <2> QED BY <2>1, <1>3
<1>2. ASSUME NEW x \in DOMAIN f, NEW i \in 1..f[x], f[x] \in Nat PROVE <<x, i>> \in Units(f)
  <2>1. <<x, i>> \in {x} \X (1..f[x])
    OBVIOUS
  <2> QED BY <2>1 DEF Units
<1>4. \A x, n : \A i \in 1..n : <<x, i>> \in {x} \X (1..n)
  OBVIOUS
<1> QED BY <1>1, <1>2, <1>3, <1>4

\* A finite sum of naturals is a natural: the number of units there are.
LEMMA SumIsSize ==
    ASSUME NEW f, IsFiniteSet(DOMAIN f), \A x \in DOMAIN f : f[x] \in Nat
    PROVE  IsFiniteSet(Units(f)) /\ SumFunction(f) = Cardinality(Units(f)) /\ SumFunction(f) \in Nat
<1> DEFINE U == Units(f)
           part == [x \in DOMAIN f |-> {x} \X (1..f[x])]
           label == [u \in U |-> u[1]]
<1>1. ASSUME NEW x \in DOMAIN f PROVE IsFiniteSet(part[x]) /\ Cardinality(part[x]) = f[x]
  <2>1. IsFiniteSet({x}) /\ Cardinality({x}) = 1
    BY FS_Singleton
  <2>2. f[x] \in Nat /\ 1 \in Int /\ f[x] \in Int
    OBVIOUS
  <2>3. IsFiniteSet(1..f[x]) /\ Cardinality(1..f[x]) = IF 1 > f[x] THEN 0 ELSE f[x] - 1 + 1
    BY <2>2, FS_Interval
  <2>4. Cardinality(1..f[x]) = f[x]
    BY <2>2, <2>3
  <2>5. IsFiniteSet({x} \X (1..f[x])) /\ Cardinality({x} \X (1..f[x])) = 1 * f[x]
    BY <2>1, <2>3, <2>4, FS_Product
  <2> QED BY <2>2, <2>5
<1>2. U = UNION {part[x] : x \in DOMAIN f}
  <2>1. ASSUME NEW u \in U PROVE u \in part[u[1]] /\ u[1] \in DOMAIN f
    BY UnitsAre
  <2>2. ASSUME NEW x \in DOMAIN f, NEW u \in part[x] PROVE u \in U
    <3>1. u = <<x, u[2]>> /\ u[2] \in 1..f[x]
      BY UnitsAre
    <3> QED BY <3>1, UnitsAre
  <2> QED BY <2>1, <2>2
<1>3. IsFiniteSet({part[x] : x \in DOMAIN f})
  <2> HIDE DEF part
  <2> QED BY ImageIsFinite
<1>4. IsFiniteSet(U)
  <2>1. \A T \in {part[x] : x \in DOMAIN f} : IsFiniteSet(T)
    BY <1>1
  <2> QED BY <1>2, <1>3, <2>1, FS_UNION
<1>5. ASSUME NEW x \in DOMAIN f PROVE f[x] = Cardinality({u \in U : label[u] = x})
  <2>1. ASSUME NEW u \in part[x] PROVE u \in U /\ u[1] = x
    <3>1. u = <<x, u[2]>> /\ u[2] \in 1..f[x] /\ u[1] = x
      BY UnitsAre
    <3> QED BY <3>1, UnitsAre
  <2>3. ASSUME NEW u \in U, u[1] = x PROVE u \in part[x]
    <3>1. u[2] \in 1..f[x] /\ u = <<x, u[2]>>
      BY <2>3, UnitsAre
    <3> QED BY <3>1
  <2>2. {u \in U : label[u] = x} = part[x]
    <3> HIDE DEF U, part
    <3> QED BY <2>1, <2>3
  <2> QED BY <1>1, <2>2
<1>6. \A u \in U : label[u] \in DOMAIN f
  BY UnitsAre
<1> HIDE DEF U, label
<1>7. SumFunction(f) = Cardinality(U)
  BY <1>4, <1>5, <1>6, SumOfParts
<1> QED BY <1>4, <1>7, FS_CardinalityType DEF U

\* One entry more adds what it has.
LEMMA SumGrows ==
    ASSUME NEW f, NEW g, NEW P, IsFiniteSet(P), NEW x, x \notin P, DOMAIN f = P \cup {x}, DOMAIN g = P,
           \A y \in P : f[y] = g[y] /\ f[y] \in Nat, f[x] \in Nat
    PROVE  SumFunction(f) = SumFunction(g) + f[x] /\ SumFunction(g) \in Nat
<1>1. IsFiniteSet(P \cup {x})
  BY FS_AddElement
<1>2. IsFiniteSet(Units(f)) /\ SumFunction(f) = Cardinality(Units(f))
  <2>1. \A y \in DOMAIN f : f[y] \in Nat
    OBVIOUS
  <2> QED BY <1>1, <2>1, SumIsSize
<1>3. IsFiniteSet(Units(g)) /\ SumFunction(g) = Cardinality(Units(g)) /\ SumFunction(g) \in Nat
  <2>1. \A y \in DOMAIN g : g[y] \in Nat
    OBVIOUS
  <2> QED BY <2>1, SumIsSize
<1> DEFINE D == {x} \X (1..f[x])
<1>4. IsFiniteSet(D) /\ Cardinality(D) = f[x]
  <2>1. IsFiniteSet({x}) /\ Cardinality({x}) = 1
    BY FS_Singleton
  <2>2. 1 \in Int /\ f[x] \in Int
    OBVIOUS
  <2>3. IsFiniteSet(1..f[x]) /\ Cardinality(1..f[x]) = IF 1 > f[x] THEN 0 ELSE f[x] - 1 + 1
    BY <2>2, FS_Interval
  <2>4. Cardinality(1..f[x]) = f[x]
    BY <2>2, <2>3
  <2>5. IsFiniteSet({x} \X (1..f[x])) /\ Cardinality({x} \X (1..f[x])) = 1 * f[x]
    BY <2>1, <2>3, <2>4, FS_Product
  <2> QED BY <2>2, <2>5
<1>5. Units(f) = Units(g) \cup D /\ Units(g) \cap D = {}
  <2>1. ASSUME NEW u \in Units(f) PROVE u \in Units(g) \cup D
    <3>1. u[1] \in DOMAIN f /\ u[2] \in 1..f[u[1]] /\ u = <<u[1], u[2]>>
      BY UnitsAre
    <3>2. CASE u[1] = x
      BY <3>1, <3>2
    <3>3. CASE u[1] \in P
      <4>1. u[2] \in 1..g[u[1]] /\ g[u[1]] \in Nat
        BY <3>1, <3>3
      <4> QED BY <3>1, <3>3, <4>1, UnitsAre
    <3> QED BY <3>1, <3>2, <3>3
  <2>2. ASSUME NEW u \in Units(g) PROVE u \in Units(f) /\ u[1] # x
    <3>1. u[1] \in P /\ u[2] \in 1..g[u[1]] /\ u = <<u[1], u[2]>>
      BY UnitsAre
    <3>2. f[u[1]] \in Nat /\ u[2] \in 1..f[u[1]] /\ u[1] # x
      BY <3>1
    <3> QED BY <3>1, <3>2, UnitsAre
  <2>3. ASSUME NEW u \in D PROVE u \in Units(f) /\ u[1] = x
    <3>1. u = <<x, u[2]>> /\ u[2] \in 1..f[x] /\ u[1] = x
      BY UnitsAre
    <3> QED BY <3>1, UnitsAre
  <2> HIDE DEF D
  <2> QED BY <2>1, <2>2, <2>3
<1> HIDE DEF D
<1>6. Cardinality(Units(g) \cup D) = Cardinality(Units(g)) + Cardinality(D) - Cardinality(Units(g) \cap D)
  BY <1>3, <1>4, FS_Union
<1>7. Cardinality(Units(g) \cap D) = 0
  BY <1>5, FS_EmptySet
<1> QED BY <1>2, <1>3, <1>4, <1>5, <1>6, <1>7

-----------------------------------------------------------------------------
(* Scores: arithmetic.                                                      *)

\* What division leaves is less than the divisor.
LEMMA Quotient ==
    ASSUME NEW a \in Int, NEW b \in Nat, b > 0
    PROVE  a \div b \in Int /\ b * (a \div b) <= a /\ a < b * (a \div b) + b
OBVIOUS

\* A smaller fraction has no greater quotient.
LEMMA QuotientGrows ==
    ASSUME NEW a \in Int, NEW b \in Nat, b > 0, NEW c \in Int, NEW d \in Nat, d > 0, a * d <= c * b
    PROVE  a \div b <= c \div d
<1> DEFINE q == a \div b
           p == c \div d
<1>1. q \in Int /\ p \in Int /\ b * q <= a /\ c < d * p + d
  BY Quotient
<1> HIDE DEF q, p
<1> SUFFICES ASSUME p < q PROVE FALSE
  BY <1>1 DEF q, p
<1>2. d * (p + 1) <= d * q
  BY <1>1
<1>3. c < d * q
  BY <1>1, <1>2
<1>4. b * c < b * (d * q)
  <2>1. d * q \in Int
    BY <1>1
  <2> QED BY <1>3, <2>1
<1>5. d * (b * q) <= d * a
  <2>1. b * q \in Int
    BY <1>1
  <2> QED BY <1>1, <2>1
<1>6. b * (d * q) = d * (b * q)
  BY <1>1
<1>7. b * c = c * b /\ d * a = a * d /\ b * (d * q) \in Int /\ b * c \in Int /\ d * a \in Int
  BY <1>1
<1> QED BY <1>4, <1>5, <1>6, <1>7

\* The part of the score that successes make.
LEMMA BaseGrows ==
    ASSUME NEW S \in Nat, NEW C \in Nat, C > 0, S <= C, NEW T \in Nat, NEW D \in Nat,
           (D = C + 1 /\ T = S + 1) \/ (D = C /\ T >= S)
    PROVE  300 + (500 * S) \div C <= 300 + (500 * T) \div D /\ (500 * S) \div C \in Int /\ (500 * T) \div D \in Int
<1>1. (500 * S) * D <= (500 * T) * C
  <2>1. S * D <= T * C
    <3>1. CASE D = C + 1 /\ T = S + 1
      <4>1. S * D = S * C + S /\ T * C = S * C + C /\ S * C \in Nat
        BY <3>1
      <4> QED BY <4>1
    <3>2. CASE D = C /\ T >= S
      BY <3>2
    <3> QED BY <3>1, <3>2
  <2>2. (500 * S) * D = 500 * (S * D) /\ (500 * T) * C = 500 * (T * C) /\ S * D \in Int /\ T * C \in Int
    OBVIOUS
  <2> QED BY <2>1, <2>2
<1>2. 500 * S \in Int /\ 500 * T \in Int /\ D > 0
  OBVIOUS
<1>3. (500 * S) \div C <= (500 * T) \div D /\ (500 * S) \div C \in Int /\ (500 * T) \div D \in Int
  BY <1>1, <1>2, QuotientGrows, Quotient
<1> QED BY <1>3

\* The part of it that the latency makes is at most fifty.
LEMMA AdjustmentIs ==
    ASSUME NEW ms \in Nat, NEW n \in Nat, n > 0
    PROVE  LatencyAdjustment(ms, n) \in Int /\ LatencyAdjustment(ms, n) <= 50
<1>1. 100 * n \in Int /\ 10 * n \in Nat /\ 10 * n > 0 /\ 2000 * n \in Int /\ ms - 100 * n \in Int
  OBVIOUS
<1>2. (ms - 100 * n) \div (10 * n) \in Int /\ (ms - 100 * n < (10 * n) * ((ms - 100 * n) \div (10 * n)) + 10 * n)
  BY <1>1, Quotient
<1>3. ms > 100 * n => (ms - 100 * n) \div (10 * n) >= 0
  <2> DEFINE q == (ms - 100 * n) \div (10 * n)
             m == 10 * n
  <2> SUFFICES ASSUME ms > 100 * n, q < 0 PROVE FALSE
    BY <1>2
  <2>1. q \in Int /\ ms - 100 * n < m * q + m /\ m \in Nat /\ m > 0 /\ ms - 100 * n > 0
    BY <1>1, <1>2
  <2> HIDE DEF q, m
  <2>2. q + 1 <= 0 /\ m * q + m = m * (q + 1)
    BY <2>1
  <2>3. m * (q + 1) <= m * 0
    BY <2>1, <2>2
  <2>4. m * 0 = 0 /\ m * q \in Int
    BY <2>1
  <2> QED BY <1>1, <2>1, <2>2, <2>3, <2>4
<1> DEFINE q == (ms - 100 * n) \div (10 * n)
<1>4. q \in Int /\ (ms > 100 * n => q >= 0)
  BY <1>2, <1>3
<1>5. LatencyAdjustment(ms, n) = IF ms = 0 THEN 0 ELSE IF ms <= 100 * n THEN 50 ELSE IF ms >= 2000 * n THEN -150 ELSE -q
  BY DEF LatencyAdjustment
<1> HIDE DEF q
<1>6. (ms <= 100 * n) \/ ms > 100 * n
  BY <1>1
<1> QED BY <1>4, <1>5, <1>6

\* The time spent on so many calls, before and after one more: below two seconds on average before.
Longer(L, C, M, D, l) ==
    L < 2000 * C /\ l \in 1..100 /\ ((D = C + 1 /\ M = L + l) \/ (D = C /\ M <= L))

\* Below two seconds it does not shrink when the average does not grow, or is no more than a tenth of a second.
LEMMA AdjustmentGrows ==
    ASSUME NEW L \in Nat, NEW C \in Nat, C > 0, NEW M \in Nat, M > 0, NEW D \in Nat, NEW l, Longer(L, C, M, D, l)
    PROVE  LatencyAdjustment(L, C) <= LatencyAdjustment(M, D)
<1>3. L < 2000 * C /\ l \in 1..100 /\ ((D = C + 1 /\ M = L + l) \/ (D = C /\ M <= L))
  BY DEF Longer
<1> USE <1>3
<1>0. D > 0 /\ 100 * C \in Nat /\ 100 * D \in Nat /\ 2000 * C \in Nat /\ 2000 * D \in Nat
  OBVIOUS
<1>1. CASE M <= 100 * D
  <2>1. LatencyAdjustment(M, D) = 50
    BY <1>1 DEF LatencyAdjustment
  <2> QED BY <2>1, AdjustmentIs
<1>2. CASE M > 100 * D
  <2>1. L > 100 * C /\ M * C <= L * D
    <3>1. CASE D = C + 1 /\ M = L + l
      <4>1. L > 100 * C
        BY <1>2, <3>1
      <4>2. M * C = L * C + l * C /\ L * D = L * C + L /\ L * C \in Nat /\ l * C \in Nat
        BY <3>1
      <4>3. l * C <= 100 * C
        <5>1. l \in Int /\ l <= 100
          OBVIOUS
        <5> HIDE DEF LatencyAdjustment
        <5> QED BY <5>1
      <4> QED BY <1>0, <4>1, <4>2, <4>3
    <3>2. CASE D = C /\ M <= L
      <4>1. L > 100 * C
        BY <1>2, <3>2
      <4>2. M * C <= L * C
        BY <3>2
      <4> QED BY <3>2, <4>1, <4>2
    <3> QED BY <3>1, <3>2
  <2>2. M < 2000 * D
    <3> SUFFICES ASSUME M >= 2000 * D PROVE FALSE
      BY <1>0
    <3>1. CASE D = C + 1 /\ M = L + l
      <4>1. l \in Nat /\ l <= 100
        OBVIOUS
      <4> QED BY <3>1, <4>1
    <3>2. CASE D = C /\ M <= L
      BY <3>2
    <3> QED BY <3>1, <3>2
  <2>3. (M - 100 * D) * (10 * C) <= (L - 100 * C) * (10 * D)
    <3>1. /\ (M - 100 * D) * (10 * C) = 10 * (M * C) - 1000 * (D * C)
          /\ (L - 100 * C) * (10 * D) = 10 * (L * D) - 1000 * (C * D)
          /\ C * D = D * C /\ M * C \in Int /\ L * D \in Int /\ C * D \in Int
      OBVIOUS
    <3> QED BY <2>1, <3>1
  <2> DEFINE q == (M - 100 * D) \div (10 * D)
             p == (L - 100 * C) \div (10 * C)
  <2>4. q <= p /\ q \in Int /\ p \in Int
    <3>1. M - 100 * D \in Int /\ L - 100 * C \in Int /\ 10 * C \in Nat /\ 10 * C > 0 /\ 10 * D \in Nat /\ 10 * D > 0
      BY <1>0
    <3> QED BY <2>3, <3>1, QuotientGrows, Quotient
  <2>5. LatencyAdjustment(M, D) = -q
    BY <1>0, <1>2, <2>2 DEF LatencyAdjustment
  <2>6. LatencyAdjustment(L, C) = -p
    BY <1>0, <2>1 DEF LatencyAdjustment
  <2> HIDE DEF q, p
  <2> QED BY <2>4, <2>5, <2>6
<1> QED BY <1>0, <1>1, <1>2

\* A score is cut off at both ends.
LEMMA Clamped ==
    ASSUME NEW x \in Int
    PROVE  Min({1000, Max({0, x})}) = IF x < 0 THEN 0 ELSE IF x > 1000 THEN 1000 ELSE x
<1> DEFINE y == IF x < 0 THEN 0 ELSE x
           z == IF y > 1000 THEN 1000 ELSE y
           m == Max({0, x})
<1>1. m = y
  <2>1. y \in {0, x} /\ \A w \in {0, x} : y >= w
    OBVIOUS
  <2>2. m \in {0, x} /\ \A w \in {0, x} : m >= w
    BY <2>1, Zenon DEF Max
  <2> HIDE DEF m
  <2> QED BY <2>1, <2>2
<1> HIDE DEF m
<1>2. Min({1000, m}) = z
  <2>1. PICK top : top = 1000
    OBVIOUS
  <2>2. y \in Int
    OBVIOUS
  <2> HIDE DEF y
  <2>3. z \in {top, m} /\ \A w \in {top, m} : z <= w
    BY <1>1, <2>1, <2>2
  <2> HIDE DEF z
  <2>4. PICK k \in {top, m} : k = Min({top, m}) /\ \A w \in {top, m} : k <= w
    BY <2>3, Zenon DEF Min
  <2> QED BY <1>1, <2>1, <2>2, <2>3, <2>4
<1>3. z = IF x < 0 THEN 0 ELSE IF x > 1000 THEN 1000 ELSE x
  OBVIOUS
<1> QED BY <1>2, <1>3 DEF m

-----------------------------------------------------------------------------
(* Scores: the calls in the window.                                         *)

Called == {c.call : c \in {d \in RouterCommands : d.kind = "record"}}
Total(past, P) == SumFunction([k \in P |-> past[k].latency])

\* Calls say whether they succeeded and how long they took.
LEMMA CalledAre == ASSUME NEW call \in Called PROVE call.success \in BOOLEAN /\ call.latency \in Nat
BY RoutingAssumption DEF Called

\* What a call adds to the successes, and to the time spent.
Gain(call) == IF call.success THEN 1 ELSE 0
Took(call) == call.latency

\* One call more is counted once.
LEMMA CallAdds ==
    ASSUME NEW past, NEW P, IsFiniteSet(P), NEW x, x \notin P, \A k \in P \cup {x} : past[k] \in Called
    PROVE  /\ Cardinality(P) \in Nat /\ Cardinality(P \cup {x}) = Cardinality(P) + 1
           /\ Successes(past, P) \in Nat /\ Successes(past, P) <= Cardinality(P)
           /\ Successes(past, P \cup {x}) = Successes(past, P) + Gain(past[x])
           /\ Total(past, P) \in Nat /\ Total(past, P \cup {x}) = Total(past, P) + Took(past[x])
<1>1. Cardinality(P) \in Nat /\ Cardinality(P \cup {x}) = Cardinality(P) + 1
  BY FS_AddElement, FS_CardinalityType
<1>0. \A k \in P \cup {x} : past[k].latency \in Nat /\ past[k].success \in BOOLEAN
  BY CalledAre
<1> DEFINE Q == {k \in P : past[k].success}
<1>2. IsFiniteSet(Q) /\ Cardinality(Q) <= Cardinality(P) /\ Cardinality(Q) \in Nat
  BY FS_Subset, FS_CardinalityType
<1>3. Cardinality({k \in P \cup {x} : past[k].success}) = Cardinality(Q) + Gain(past[x])
  <2>1. CASE past[x].success
    <3>1. {k \in P \cup {x} : past[k].success} = Q \cup {x} /\ x \notin Q
      BY <2>1
    <3> HIDE DEF Q
    <3>2. Cardinality(Q \cup {x}) = Cardinality(Q) + 1
      BY <1>2, <3>1, FS_AddElement
    <3>3. Gain(past[x]) = 1
      BY <2>1, Zenon DEF Gain
    <3> QED BY <3>1, <3>2, <3>3
  <2>2. CASE ~past[x].success
    <3>1. {k \in P \cup {x} : past[k].success} = Q
      BY <2>2
    <3> HIDE DEF Q
    <3>2. Gain(past[x]) = 0
      BY <2>2, Zenon DEF Gain
    <3>3. Cardinality(Q) + 0 = Cardinality(Q)
      BY <1>2
    <3> QED BY <3>1, <3>2, <3>3
  <2> QED BY <2>1, <2>2
<1> DEFINE f == [k \in P \cup {x} |-> past[k].latency]
           g == [k \in P |-> past[k].latency]
<1>4. SumFunction(f) = SumFunction(g) + f[x] /\ SumFunction(g) \in Nat
  <2>1. DOMAIN f = P \cup {x} /\ DOMAIN g = P /\ (\A y \in P : f[y] = g[y] /\ f[y] \in Nat) /\ f[x] \in Nat
    BY <1>0
  <2> HIDE DEF f, g
  <2> QED BY <2>1, SumGrows
<1>5. f[x] = Took(past[x])
  BY DEF Took
<1> QED BY <1>1, <1>2, <1>3, <1>4, <1>5 DEF Successes, Total

\* What is counted depends on the rows of the calls alone.
LEMMA SameCalls ==
    ASSUME NEW past, NEW more, NEW P, \A k \in P : past[k] = more[k]
    PROVE  Successes(past, P) = Successes(more, P) /\ Total(past, P) = Total(more, P)
<1>1. {k \in P : past[k].success} = {k \in P : more[k].success}
  OBVIOUS
<1>2. [k \in P |-> past[k].latency] = [k \in P |-> more[k].latency]
  OBVIOUS
<1> QED BY <1>1, <1>2 DEF Successes, Total

\* The places of the next call and of the one that leaves the window, and the calls that stay in it.
Coming(past) == Len(past) + 1
Leaving(past) == Len(past) + 1 - UsageLimit
Staying(past, tool) == CallsOf(past, tool) \ {Leaving(past)}

\* A window moved: the calls P stay in it, x comes, and e leaves.
Moved(past, more, call, C, D, P, x, e) ==
    /\ IsFiniteSet(P) /\ x \notin P /\ e \notin D
    /\ P = C \ {e}
    /\ D = P \cup {x}
    /\ more[x] = call
    /\ \A k \in C : past[k] \in Called /\ more[k] = past[k]

\* A call is added to the window, and may push one out at its other end.
LEMMA WindowMoves ==
    ASSUME NEW past \in Seq(Called), NEW call \in Called, NEW tool, call.tool = tool.id, NEW more, more = Append(past, call)
    PROVE  Moved(past, more, call, CallsOf(past, tool), CallsOf(more, tool), Staying(past, tool), Coming(past), Leaving(past))
<1> DEFINE n == Len(past)
           C == CallsOf(past, tool)
           e == Leaving(past)
<1>0. e = n + 1 - UsageLimit /\ Coming(past) = n + 1 /\ Staying(past, tool) = C \ {e}
  BY DEF Leaving, Coming, Staying
<1>1. n \in Nat /\ UsageLimit \in Nat /\ UsageLimit > 0 /\ DOMAIN past = 1..n /\ \A k \in 1..n : past[k] \in Called
  BY RoutingAssumption
<1>2. more \in Seq(Called) /\ Len(more) = n + 1 /\ more[n + 1] = call /\ DOMAIN more = 1..(n + 1)
  OBVIOUS
<1>3. \A k \in 1..n : more[k] = past[k]
  OBVIOUS
<1> HIDE DEF n, e
<1>4. C = {k \in 1..n : k > n - UsageLimit /\ past[k].tool = tool.id}
  BY <1>1 DEF CallsOf, n
<1>5. \A k : k \in CallsOf(more, tool) <=> k \in 1..(n + 1) /\ k > n + 1 - UsageLimit /\ more[k].tool = tool.id
  <2>1. CallsOf(more, tool) = {k \in DOMAIN more : k > Len(more) - UsageLimit /\ more[k].tool = tool.id}
    BY DEF CallsOf
  <2>2. PICK m : m = Len(more)
    OBVIOUS
  <2>3. PICK d : d = DOMAIN more
    OBVIOUS
  <2>4. \A k : k \in CallsOf(more, tool) <=> k \in d /\ k > m - UsageLimit /\ more[k].tool = tool.id
    BY <2>1, <2>2, <2>3, Zenon
  <2>5. ASSUME NEW k PROVE k \in CallsOf(more, tool) <=> k \in d /\ k > m - UsageLimit /\ more[k].tool = tool.id
    BY <2>4
  <2>6. d = 1..(n + 1)
    BY <1>2, <2>3, Zenon
  <2>7. m - UsageLimit = n + 1 - UsageLimit
    <3>1. m = n + 1
      <4>1. Len(more) = n + 1
        BY <1>2, Zenon
      <4> QED BY <2>2, <4>1, Zenon
    <3>2. m - UsageLimit = (n + 1) - UsageLimit
      BY <3>1, Zenon
    <3>3. (n + 1) - UsageLimit = n + 1 - UsageLimit
      BY <1>1
    <3> QED BY <3>2, <3>3, Zenon
  <2>8. ASSUME NEW k PROVE k \in CallsOf(more, tool) <=> k \in 1..(n + 1) /\ k > n + 1 - UsageLimit /\ more[k].tool = tool.id
    BY <2>5, <2>6, <2>7, Zenon
  <2> QED BY <2>8
<1> HIDE DEF C
<1>6. IsFiniteSet(C \ {e})
  <2>1. IsFiniteSet(1..n)
    BY <1>1, FS_Interval
  <2>2. C \ {e} \subseteq 1..n
    BY <1>4
  <2> QED BY <2>1, <2>2, FS_Subset
<1>7. n + 1 \notin C /\ e \notin CallsOf(more, tool)
  BY <1>0, <1>1, <1>4, <1>5
<1>8. CallsOf(more, tool) = (C \ {e}) \cup {n + 1}
  <2>1. ASSUME NEW k \in CallsOf(more, tool) PROVE k \in (C \ {e}) \cup {n + 1}
    <3>1. k \in 1..(n + 1) /\ k > n + 1 - UsageLimit /\ more[k].tool = tool.id
      BY <1>5
    <3>2. CASE k = n + 1
      BY <3>2
    <3>3. CASE k # n + 1
      <4>1. k \in 1..n /\ k > n - UsageLimit /\ k # e
        BY <1>0, <1>1, <3>1, <3>3
      <4> QED BY <1>3, <1>4, <3>1, <4>1
    <3> QED BY <3>2, <3>3
  <2>2. ASSUME NEW k \in C \ {e} PROVE k \in CallsOf(more, tool)
    <3>1. k \in 1..n /\ k > n - UsageLimit /\ past[k].tool = tool.id /\ k # e
      BY <1>4
    <3>2. k \in 1..(n + 1) /\ k > n + 1 - UsageLimit
      BY <1>0, <1>1, <3>1
    <3> QED BY <1>3, <1>5, <3>1, <3>2
  <2>3. n + 1 \in CallsOf(more, tool)
    <3>1. n + 1 \in 1..(n + 1) /\ n + 1 > n + 1 - UsageLimit
      BY <1>1
    <3> QED BY <1>2, <1>5, <3>1
  <2> QED BY <2>1, <2>2, <2>3
<1>9. \A k \in C : past[k] \in Called /\ more[k] = past[k] /\ k \in 1..n
  BY <1>1, <1>3, <1>4
<1>10. more[Coming(past)] = call /\ Coming(past) \notin Staying(past, tool)
  <2>1. n + 1 \notin C \ {e}
    BY <1>7
  <2> QED BY <1>0, <1>2, <2>1, Zenon
<1>11. CallsOf(more, tool) = Staying(past, tool) \cup {Coming(past)} /\ IsFiniteSet(Staying(past, tool))
  BY <1>0, <1>6, <1>8, Zenon
<1>12. Leaving(past) \notin CallsOf(more, tool)
  BY <1>7, Zenon DEF e
<1>13. \A k \in CallsOf(past, tool) : past[k] \in Called /\ more[k] = past[k]
  BY <1>9, Zenon DEF C
<1> QED BY <1>10, <1>11, <1>12, <1>13, Zenon DEF Moved, Staying

\* Where a tool stands among those preferred for a topic is worth something, or nothing.
LEMMA BoostIs ==
    ASSUME NEW tool, NEW prompt
    PROVE  IntentBoost(tool, prompt) \in Nat
<1>1. Weight(prompt) \in Nat
  BY DEF Weight
<1>2. Intents(prompt) \subseteq DOMAIN Priorities /\ IsFiniteSet(Intents(prompt))
  <2>1. Intents(prompt) \subseteq DOMAIN Priorities
    BY RoutingAssumption DEF Intents
  <2> QED BY <2>1, RoutingAssumption, FS_Subset
<1>3. ASSUME NEW topic \in Intents(prompt), NEW w \in Nat PROVE TopicBoost(tool, topic, w) \in Nat
  <2> DEFINE places == {k \in DOMAIN Priorities[topic] : Priorities[topic][k] = tool.agent}
             first == Min(places)
             v == 250 - 80 * (first - 1)
             m == Max({0, v})
  <2>1. places \subseteq Nat
    <3>1. Priorities[topic] \in Seq(Range(Priorities[topic]))
      BY <1>2, RoutingAssumption
    <3>2. DOMAIN Priorities[topic] = 1..Len(Priorities[topic]) /\ Len(Priorities[topic]) \in Nat
      BY <3>1
    <3> QED BY <3>2
  <2>2. CASE places = {}
    BY <2>2 DEF TopicBoost
  <2>3. CASE places # {}
    <3> HIDE DEF places
    <3>1. PICK k \in places : \A y \in places : k <= y
      BY <2>1, <2>3, NatHasLeast
    <3>2. first \in places
      BY <3>1, Zenon DEF Min
    <3>9. first \in Nat
      BY <2>1, <3>2
    <3> HIDE DEF first
    <3>3. v \in Int
      BY <3>9
    <3> HIDE DEF v
    <3> DEFINE top == IF v > 0 THEN v ELSE 0
    <3>4. top \in {0, v} /\ \A y \in {0, v} : top >= y
      BY <3>3
    <3>5. m \in {0, v} /\ \A y \in {0, v} : m >= y
      BY <3>4, Zenon DEF Max
    <3>6. m \in Nat
      BY <3>3, <3>5
    <3> HIDE DEF m
    <3>7. (w * m) \div 100 \in Nat
      <4>1. w * m \in Nat
        BY <3>6
      <4> QED BY <4>1
    <3>8. TopicBoost(tool, topic, w) = (w * m) \div 100
      BY <2>3 DEF TopicBoost, places, first, v, m
    <3> QED BY <3>7, <3>8
  <2> QED BY <2>2, <2>3
<1> DEFINE f == [topic \in Intents(prompt) |-> TopicBoost(tool, topic, Weight(prompt))]
<1>4. IsFiniteSet(DOMAIN f) /\ \A x \in DOMAIN f : f[x] \in Nat
  BY <1>1, <1>2, <1>3
<1> HIDE DEF f
<1>5. SumFunction(f) \in Nat
  BY <1>4, SumIsSize
<1> QED BY <1>5 DEF IntentBoost, f

-----------------------------------------------------------------------------
(* Scores: one more call.                                                   *)

\* A call that was quick and succeeded; calls below two seconds on average; and the calls that leave
\* the window were no quicker.
Quick(call) == call.success /\ call.latency \in 1..100
Brisk(past, tool, C) == C # {} => Spent(past, tool, C) < 2000 * Timed(C)
NoQuicker(past, C, D, call) == \A k \in C \ D : past[k].latency >= call.latency

\* What the window holds of a tool before the call, and after it.
LEMMA CallsCount ==
    ASSUME NEW past, NEW more, NEW C, NEW D, NEW P, NEW x, NEW e, NEW call \in Called, Quick(call),
           Moved(past, more, call, C, D, P, x, e), NoQuicker(past, C, D, call)
    PROVE  /\ Cardinality(C) \in Nat /\ Successes(past, C) \in Nat /\ Successes(past, C) <= Cardinality(C)
           /\ Cardinality(D) \in Nat /\ Successes(more, D) \in Nat /\ D # {}
           /\ C = {} => Cardinality(D) = 1 /\ Successes(more, D) = 1 /\ Total(more, D) = call.latency
           /\ C # {} => Cardinality(C) > 0
           /\ Total(past, C) \in Nat /\ Total(more, D) \in Nat /\ Total(more, D) > 0
           /\ \/ /\ Cardinality(D) = Cardinality(C) + 1 /\ Successes(more, D) = Successes(past, C) + 1
                 /\ Total(more, D) = Total(past, C) + call.latency
              \/ /\ Cardinality(D) = Cardinality(C) /\ Successes(more, D) >= Successes(past, C)
                 /\ Total(more, D) <= Total(past, C)
<1>d. PICK l : l = call.latency
  OBVIOUS
<1>1. IsFiniteSet(P) /\ x \notin P /\ e \notin D /\ \A k \in C : past[k] \in Called /\ more[k] = past[k]
  BY DEF Moved
<1>h. P = C \ {e}
  BY DEF Moved
<1>i. D = P \cup {x}
  BY DEF Moved
<1>j. more[x] = call
  BY DEF Moved
<1>2. l \in Nat /\ l > 0
  <2>1. l \in 1..100
    BY <1>d DEF Quick
  <2> QED BY <2>1
<1>3. \A k \in P \cup {x} : more[k] \in Called
  BY <1>1, <1>h, <1>j
<1>4. /\ Cardinality(P) \in Nat /\ Cardinality(P \cup {x}) = Cardinality(P) + 1
      /\ Successes(more, P) \in Nat /\ Successes(more, P) <= Cardinality(P)
      /\ Successes(more, P \cup {x}) = Successes(more, P) + Gain(more[x])
      /\ Total(more, P) \in Nat /\ Total(more, P \cup {x}) = Total(more, P) + Took(more[x])
  <2>1. IsFiniteSet(P) /\ x \notin P
    BY <1>1
  <2> QED BY <1>3, <2>1, CallAdds
<1>5. Successes(more, D) = Successes(more, P) + 1 /\ Total(more, D) = Total(more, P) + l
  <2>1. Gain(more[x]) = 1 /\ Took(more[x]) = l
    BY <1>j, <1>d, Zenon DEF Gain, Took, Quick
  <2> QED BY <1>i, <1>4, <2>1
<1>6. Successes(past, P) = Successes(more, P) /\ Total(past, P) = Total(more, P)
  <2>1. \A k \in P : past[k] = more[k]
    BY <1>1, <1>h
  <2> QED BY <2>1, SameCalls
<1>e. PICK p : p = Cardinality(P)
  OBVIOUS
<1>f. PICK s : s = Successes(more, P)
  OBVIOUS
<1>g. PICK t : t = Total(more, P)
  OBVIOUS
<1>7. p \in Nat /\ s \in Nat /\ s <= p /\ t \in Nat
  BY <1>4, <1>e, <1>f, <1>g
<1>8. Cardinality(D) = p + 1 /\ Successes(more, D) = s + 1 /\ Total(more, D) = t + l /\ D # {}
  BY <1>i, <1>4, <1>5, <1>e, <1>f, <1>g
<1>9. CASE e \in C
  <2>1. C = P \cup {e} /\ e \notin P
    BY <1>9, <1>h
  <2>2. \A k \in P \cup {e} : past[k] \in Called
    BY <1>1, <2>1
  <2>3. /\ Cardinality(P \cup {e}) = Cardinality(P) + 1
        /\ Successes(past, P \cup {e}) = Successes(past, P) + Gain(past[e])
        /\ Total(past, P \cup {e}) = Total(past, P) + Took(past[e])
    <3>1. IsFiniteSet(P) /\ e \notin P
      BY <1>1, <2>1
    <3> QED BY <2>2, <3>1, CallAdds
  <2>4. PICK i : i = Gain(past[e])
    OBVIOUS
  <2>5. PICK m : m = Took(past[e])
    OBVIOUS
  <2>6. i \in {0, 1}
    BY <2>4 DEF Gain
  <2>7. m \in Nat /\ m >= l
    <3>1. e \in C \ D
      BY <1>1, <1>9
    <3>2. past[e].latency >= call.latency
      BY <3>1 DEF NoQuicker
    <3>3. past[e].latency \in Nat
      BY <2>1, <2>2, CalledAre
    <3> QED BY <1>d, <2>5, <3>2, <3>3 DEF Took
  <2>8. Cardinality(C) = p + 1 /\ Successes(past, C) = s + i /\ Total(past, C) = t + m
    BY <1>6, <1>e, <1>f, <1>g, <2>1, <2>3, <2>4, <2>5, Zenon
  <2> QED BY <1>2, <1>7, <1>8, <1>9, <2>6, <2>7, <2>8
<1>10. CASE e \notin C
  <2>1. C = P
    BY <1>10, <1>h
  <2>2. Cardinality(C) = p /\ Successes(past, C) = s /\ Total(past, C) = t
    BY <1>6, <1>e, <1>f, <1>g, <2>1
  <2>3. C # {} => p > 0
    <3>1. IsFiniteSet(C)
      BY <1>1, <2>1
    <3>2. C # {} => Cardinality(C) # 0
      BY <3>1, FS_EmptySet
    <3> QED BY <1>7, <2>2, <3>2
  <2>4. C = {} => p = 0 /\ s = 0 /\ t = 0
    <3> SUFFICES ASSUME C = {} PROVE p = 0 /\ s = 0 /\ t = 0
      OBVIOUS
    <3>1. p = 0
      BY <2>2, FS_EmptySet
    <3>2. t = 0
      <4> DEFINE f == [k \in C |-> past[k].latency]
      <4>1. IsFiniteSet(DOMAIN f) /\ \A y \in DOMAIN f : f[y] \in Nat
        BY FS_EmptySet
      <4>2. Units(f) = {}
        BY DEF Units
      <4>3. Total(past, C) = SumFunction(f)
        BY DEF Total
      <4> HIDE DEF f
      <4>4. SumFunction(f) = Cardinality({})
        BY <4>1, <4>2, SumIsSize
      <4> QED BY <2>2, <4>3, <4>4, FS_EmptySet
    <3> QED BY <1>7, <3>1, <3>2
  <2>5. call.latency = l
    BY <1>d
  <2> QED BY <1>2, <1>7, <1>8, <2>2, <2>3, <2>4, <2>5
<1> QED BY <1>9, <1>10

\* A score before it is cut off, with what the intents of the prompt are worth.
Raw(past, tool, calls, boost) ==
    BaseScore(past, calls) + boost + LatencyAdjustment(Spent(past, tool, calls), Timed(calls))

\* A score cut off at both ends.
Cut(x) == Min({1000, Max({0, x})})

\* It is one of the ends, or the score.
LEMMA CutIs == ASSUME NEW x \in Int PROVE Cut(x) = IF x < 0 THEN 0 ELSE IF x > 1000 THEN 1000 ELSE x
BY Clamped DEF Cut

\* Cutting off keeps the order.
LEMMA CutGrows == ASSUME NEW x \in Int, NEW y \in Int, x <= y PROVE Cut(x) <= Cut(y)
<1>1. PICK p : p = Cut(x)
  OBVIOUS
<1>2. PICK q : q = Cut(y)
  OBVIOUS
<1>3. p = IF x < 0 THEN 0 ELSE IF x > 1000 THEN 1000 ELSE x
  BY <1>1, CutIs
<1>4. q = IF y < 0 THEN 0 ELSE IF y > 1000 THEN 1000 ELSE y
  BY <1>2, CutIs
<1>5. p <= q
  BY <1>3, <1>4
<1> QED BY <1>1, <1>2, <1>5

\* A tool's score is that, for its calls in the window.
LEMMA ScoreIs ==
    ASSUME NEW past, NEW tool, NEW prompt
    PROVE  Score(past, tool, prompt) = Cut(Raw(past, tool, CallsOf(past, tool), IntentBoost(tool, prompt)))
BY DEF Score, Raw, Cut

\* What is recorded raises it.
LEMMA RawGrows ==
    ASSUME NEW past, NEW more, NEW tool, tool.cost \in Nat, NEW boost \in Nat,
           NEW C, NEW D, NEW P, NEW x, NEW e, NEW call \in Called, Quick(call),
           Moved(past, more, call, C, D, P, x, e), NoQuicker(past, C, D, call), Brisk(past, tool, C)
    PROVE  Raw(past, tool, C, boost) \in Int /\ Raw(more, tool, D, boost) \in Int
           /\ Raw(past, tool, C, boost) <= Raw(more, tool, D, boost)
<1>1. PICK c : c = Cardinality(C)
  OBVIOUS
<1>2. PICK s : s = Successes(past, C)
  OBVIOUS
<1>3. PICK L : L = Total(past, C)
  OBVIOUS
<1>4. PICK d : d = Cardinality(D)
  OBVIOUS
<1>5. PICK u : u = Successes(more, D)
  OBVIOUS
<1>6. PICK M : M = Total(more, D)
  OBVIOUS
<1>7. PICK l : l = call.latency
  OBVIOUS
<1>8. /\ c \in Nat /\ s \in Nat /\ s <= c /\ d \in Nat /\ u \in Nat /\ D # {}
      /\ C = {} => d = 1 /\ u = 1 /\ M = l
      /\ C # {} => c > 0
      /\ L \in Nat /\ M \in Nat /\ M > 0
      /\ \/ d = c + 1 /\ u = s + 1 /\ M = L + l
         \/ d = c /\ u >= s /\ M <= L
  <2>1. /\ Cardinality(C) \in Nat /\ Successes(past, C) \in Nat /\ Successes(past, C) <= Cardinality(C)
        /\ Cardinality(D) \in Nat /\ Successes(more, D) \in Nat /\ D # {}
        /\ C = {} => Cardinality(D) = 1 /\ Successes(more, D) = 1 /\ Total(more, D) = call.latency
        /\ C # {} => Cardinality(C) > 0
        /\ Total(past, C) \in Nat /\ Total(more, D) \in Nat /\ Total(more, D) > 0
        /\ \/ /\ Cardinality(D) = Cardinality(C) + 1 /\ Successes(more, D) = Successes(past, C) + 1
              /\ Total(more, D) = Total(past, C) + call.latency
           \/ /\ Cardinality(D) = Cardinality(C) /\ Successes(more, D) >= Successes(past, C)
              /\ Total(more, D) <= Total(past, C)
    BY CallsCount
  <2> QED BY <1>1, <1>2, <1>3, <1>4, <1>5, <1>6, <1>7, <2>1
<1>9. l \in 1..100
  BY <1>7 DEF Quick
<1> DEFINE A == LatencyAdjustment(Spent(past, tool, C), Timed(C))
           B == LatencyAdjustment(Spent(more, tool, D), Timed(D))
<1>10. B = LatencyAdjustment(M, d)
  <2>1. Spent(more, tool, D) = M /\ Timed(D) = d
    BY <1>4, <1>6, <1>8, Zenon DEF Spent, Timed, Total
  <2> QED BY <2>1
<1>11. BaseScore(more, D) = 300 + (500 * u) \div d
  BY <1>4, <1>5, <1>8 DEF BaseScore
<1>12. BaseScore(past, C) \in Int /\ BaseScore(more, D) \in Int /\ A \in Int /\ B \in Int
       /\ BaseScore(past, C) <= BaseScore(more, D) /\ A <= B
  <2>1. CASE C = {}
    <3>1. BaseScore(past, C) = 350
      BY <2>1 DEF BaseScore
    <3>2. BaseScore(more, D) = 800
      <4>1. (500 * u) \div d = 500
        BY <1>8, <2>1
      <4> QED BY <1>11, <4>1
    <3>3. B = 50
      <4>1. M # 0 /\ M <= 100 * d
        BY <1>8, <1>9, <2>1
      <4> HIDE DEF B
      <4> QED BY <1>10, <4>1 DEF LatencyAdjustment
    <3>4. A \in Int /\ A <= 50
      <4>1. Spent(past, tool, C) = tool.cost /\ Timed(C) = 1
        BY <2>1, Zenon DEF Spent, Timed
      <4>2. A = LatencyAdjustment(tool.cost, 1)
        BY <4>1
      <4> HIDE DEF A
      <4> QED BY <4>2, AdjustmentIs
    <3> HIDE DEF A, B
    <3> QED BY <3>1, <3>2, <3>3, <3>4
  <2>2. CASE C # {}
    <3>1. Spent(past, tool, C) = L /\ Timed(C) = c
      BY <1>1, <1>3, <2>2, Zenon DEF Spent, Timed, Total
    <3>2. A = LatencyAdjustment(L, c)
      BY <3>1
    <3>3. L < 2000 * c
      BY <2>2, <3>1 DEF Brisk
    <3>4. BaseScore(past, C) = 300 + (500 * s) \div c
      BY <1>1, <1>2, <2>2 DEF BaseScore
    <3>5. 300 + (500 * s) \div c <= 300 + (500 * u) \div d /\ (500 * s) \div c \in Int /\ (500 * u) \div d \in Int
      <4>1. (d = c + 1 /\ u = s + 1) \/ (d = c /\ u >= s)
        BY <1>8
      <4>2. c \in Nat /\ c > 0 /\ s \in Nat /\ s <= c /\ u \in Nat /\ d \in Nat
        BY <1>8, <2>2
      <4> QED BY <4>1, <4>2, BaseGrows
    <3>6. LatencyAdjustment(L, c) <= LatencyAdjustment(M, d)
      <4>1. Longer(L, c, M, d, l)
        BY <1>8, <1>9, <3>3 DEF Longer
      <4>2. c \in Nat /\ c > 0 /\ L \in Nat /\ M \in Nat /\ M > 0 /\ d \in Nat
        BY <1>8, <2>2
      <4> QED BY <4>1, <4>2, AdjustmentGrows, Zenon
    <3>7. LatencyAdjustment(L, c) \in Int /\ LatencyAdjustment(M, d) \in Int
      <4>1. c > 0 /\ d > 0
        BY <1>8, <2>2
      <4> QED BY <1>8, <4>1, AdjustmentIs
    <3> HIDE DEF A, B
    <3>8. PICK p : p = (500 * s) \div c
      OBVIOUS
    <3>9. PICK q : q = (500 * u) \div d
      OBVIOUS
    <3>10. p \in Int /\ q \in Int /\ 300 + p <= 300 + q
      BY <3>5, <3>8, <3>9
    <3>11. BaseScore(past, C) = 300 + p /\ BaseScore(more, D) = 300 + q
      BY <1>11, <3>4, <3>8, <3>9
    <3>12. BaseScore(past, C) \in Int /\ BaseScore(more, D) \in Int /\ BaseScore(past, C) <= BaseScore(more, D)
      BY <3>10, <3>11
    <3> QED BY <1>10, <3>2, <3>6, <3>7, <3>12
  <2> QED BY <2>1, <2>2
<1>13. Raw(past, tool, C, boost) = BaseScore(past, C) + boost + A /\ Raw(more, tool, D, boost) = BaseScore(more, D) + boost + B
  BY DEF Raw
<1> HIDE DEF A, B
<1> QED BY <1>12, <1>13

\* A tool's score does not fall with such a call.
LEMMA ScoreGrows ==
    ASSUME NEW past \in Seq(Called), NEW call \in Called, NEW tool, tool.cost \in Nat, NEW prompt, call.tool = tool.id,
           Quick(call), NEW more, more = Append(past, call), Brisk(past, tool, CallsOf(past, tool)),
           NoQuicker(past, CallsOf(past, tool), CallsOf(more, tool), call)
    PROVE  Score(past, tool, prompt) <= Score(more, tool, prompt)
<1>1. PICK C : C = CallsOf(past, tool)
  OBVIOUS
<1>2. PICK D : D = CallsOf(more, tool)
  OBVIOUS
<1>3. PICK boost : boost = IntentBoost(tool, prompt)
  OBVIOUS
<1>4. Moved(past, more, call, C, D, Staying(past, tool), Coming(past), Leaving(past))
  BY <1>1, <1>2, WindowMoves, Zenon
<1>5. boost \in Nat
  BY <1>3, BoostIs
<1>6. NoQuicker(past, C, D, call)
  BY <1>1, <1>2, Zenon
<1>7. Brisk(past, tool, C)
  BY <1>1, Zenon
<1>8. Raw(past, tool, C, boost) \in Int /\ Raw(more, tool, D, boost) \in Int
      /\ Raw(past, tool, C, boost) <= Raw(more, tool, D, boost)
  BY <1>4, <1>5, <1>6, <1>7, RawGrows, Zenon
<1>9. Cut(Raw(past, tool, C, boost)) <= Cut(Raw(more, tool, D, boost))
  BY <1>8, CutGrows
<1> QED BY <1>1, <1>2, <1>3, <1>9, ScoreIs, Zenon

\* Whatever a terminal does, what is recorded is a call one may have made.
LEMMA UsageMoves ==
    ASSUME RouterInv, usage \in Seq(Called), NEW s \in Shells, RouterStep(s)
    PROVE  usage' = usage \/ \E call \in Called : usage' = Append(usage, call)
<1>1. CASE Records(s)
  <2>1. shell[s].command \in RouterCommands
    BY <1>1, RouterFacts, ServicesAre DEF Records, Bare
  <2>2. shell[s].command.call \in Called
    BY <1>1, <2>1 DEF Records, Called
  <2> QED BY <1>1, <2>2 DEF Records
<1>2. CASE ~Records(s)
  BY <1>2 DEF RouterStep, Types, Loads, Opens, Writes, SaveFails, Adds, Deletes, Enables, Saves, FindsNoRule, Acknowledges,
     Lists, Evaluates, Recommends, Recalls, OpensHistory, WritesHistory, Scores, Ends, Dies, files
<1> QED BY <1>1, <1>2

\* Nothing but such calls is ever in the table.
LEMMA UsageHolds == RouterSpec => [](RouterInv /\ usage \in Seq(Called))
<1>1. RouterInit => RouterInv /\ usage \in Seq(Called)
  BY RouterInit_Inv DEF RouterInit, RouterStart
<1>2. RouterInv /\ usage \in Seq(Called) /\ [\E s \in Shells : RouterStep(s)]_routerVars => (RouterInv /\ usage \in Seq(Called))'
  <2> SUFFICES ASSUME RouterInv, usage \in Seq(Called), [\E s \in Shells : RouterStep(s)]_routerVars
               PROVE  RouterInv' /\ usage' \in Seq(Called)
    OBVIOUS
  <2>1. RouterInv'
    BY RouterStep_Inv
  <2>2. usage' = usage \/ \E call \in Called : usage' = Append(usage, call)
    BY UsageMoves DEF routerVars
  <2> QED BY <2>1, <2>2
<1> QED BY <1>1, <1>2, PTL DEF RouterSpec

\* Theorem: whatever was recorded before, one more call of a tool that was quick and succeeded leaves the
\* tool's score as good as it was, for every tool and prompt, if its calls took less than two seconds on
\* average and the call that leaves the window for it was no quicker (evaluateTools, src/tools/optimizer/index.ts).
THEOREM SuccessStaysHarmless == RouterSpec => SuccessNeverHurts
<1> DEFINE Harmless ==
        \A tool \in ToolsScored, prompt \in PromptsScored :
          LET call == Last(usage')
              calls == CallsOf(usage, tool)
          IN  /\ usage' # usage /\ call.tool = tool.id /\ call.success /\ call.latency \in 1..100
              /\ calls # {} => Spent(usage, tool, calls) < 2000 * Timed(calls)
              /\ \A k \in calls \ CallsOf(usage', tool) : usage[k].latency >= call.latency
              => Score(usage', tool, prompt) >= Score(usage, tool, prompt)
<1>1. ASSUME RouterInv, usage \in Seq(Called), NEW s \in Shells, RouterStep(s) PROVE Harmless
  <2> SUFFICES ASSUME NEW tool \in ToolsScored, NEW prompt \in PromptsScored, usage' # usage,
                      Last(usage').tool = tool.id, Quick(Last(usage')), Brisk(usage, tool, CallsOf(usage, tool)),
                      NoQuicker(usage, CallsOf(usage, tool), CallsOf(usage', tool), Last(usage'))
               PROVE  Score(usage', tool, prompt) >= Score(usage, tool, prompt)
    BY DEF Quick, Brisk, NoQuicker
  <2> HIDE DEF Harmless
  <2>1. PICK call \in Called : usage' = Append(usage, call)
    BY <1>1, UsageMoves
  <2>2. Last(usage') = call
    BY <1>1, <2>1 DEF Last
  <2>3. tool.cost \in Nat
    BY RoutingAssumption DEF ToolsScored
  <2>4. PICK more : more = usage'
    OBVIOUS
  <2>5. call.tool = tool.id /\ Quick(call) /\ more = Append(usage, call)
    BY <2>1, <2>2, <2>4, Zenon
  <2>6. NoQuicker(usage, CallsOf(usage, tool), CallsOf(more, tool), call)
    BY <2>2, <2>4, Zenon
  <2>7. Score(usage, tool, prompt) <= Score(more, tool, prompt)
    BY <1>1, <2>3, <2>5, <2>6, ScoreGrows, Zenon
  <2>8. Score(usage, tool, prompt) <= Score(usage', tool, prompt)
    BY <2>4, <2>7, Zenon
  <2> QED BY <2>8
<1>2. RouterInv /\ usage \in Seq(Called) /\ [\E s \in Shells : RouterStep(s)]_routerVars => [Harmless]_usage
  <2> HIDE DEF Harmless
  <2> QED BY <1>1 DEF routerVars
<1> HIDE DEF Harmless
<1>3. [](RouterInv /\ usage \in Seq(Called)) /\ [][\E s \in Shells : RouterStep(s)]_routerVars => [][Harmless]_usage
  BY <1>2, PTL
<1> USE DEF Harmless
<1> QED BY <1>3, UsageHolds, PTL DEF SuccessNeverHurts, RouterSpec

-----------------------------------------------------------------------------
(* The files: what was written to them, and when.                           *)

Texts == {Absent} \cup Contents \cup {sc.first[f] : sc \in Scenes, f \in ContextFiles}
Written == [content : Texts, at : Nat]

WritesOK ==
    /\ now \in 1..MaxTime
    /\ DOMAIN writes = ContextFiles
    /\ \A f \in ContextFiles :
          /\ writes[f] \in Seq(Written) /\ writes[f] # <<>>
          /\ \A k \in 1..Len(writes[f]) : writes[f][k].at <= now
          /\ \A j, k \in 1..Len(writes[f]) : j < k => writes[f][j].at < writes[f][k].at

\* Whatever is not absent may be sound, or not.
LEMMA TextsAre == \A t \in Texts : t = Absent \/ t.flaws \subseteq Flaws
BY CodexAssumption DEF Texts

LEMMA WritesAre ==
    ASSUME WritesOK, NEW f \in ContextFiles
    PROVE  /\ DOMAIN writes[f] = 1..Len(writes[f]) /\ Len(writes[f]) \in Nat \ {0}
           /\ \A k \in 1..Len(writes[f]) :
                 /\ writes[f][k].content \in Texts /\ writes[f][k].at \in Nat /\ writes[f][k].at <= now
           /\ Disk(f) = writes[f][Len(writes[f])].content /\ Stat(f) = writes[f][Len(writes[f])].at
           /\ now \in Nat /\ MaxTime \in Nat /\ now <= MaxTime
<1>1. writes[f] \in Seq(Written) /\ writes[f] # <<>>
  BY DEF WritesOK
<1>2. Len(writes[f]) \in Nat \ {0} /\ \A k \in 1..Len(writes[f]) : writes[f][k] \in Written
  BY <1>1
<1>3. now \in 1..MaxTime /\ MaxTime \in Nat
  BY CodexAssumption DEF WritesOK
<1> QED BY <1>1, <1>2, <1>3 DEF WritesOK, Written, Disk, Stat, Last

\* What is written is written for good, and after all that was.
Grows ==
    /\ now <= now'
    /\ \A f \in ContextFiles :
          /\ Len(writes[f]) <= Len(writes'[f])
          /\ \A k \in 1..Len(writes[f]) : writes'[f][k] = writes[f][k]
          /\ \A k \in 1..Len(writes'[f]) : k > Len(writes[f]) => writes'[f][k].at > now

LEMMA QuietGrows ==
    ASSUME WritesOK, UNCHANGED <<writes, now>> PROVE WritesOK' /\ Grows
<1>1. WritesOK'
  BY DEF WritesOK
<1>2. now \in Nat /\ \A f \in ContextFiles : Len(writes[f]) \in Nat
  BY CodexAssumption, WritesAre DEF WritesOK
<1> QED BY <1>1, <1>2 DEF Grows

LEMMA EditGrows ==
    ASSUME WritesOK, NEW f \in ContextFiles, NEW content \in Contents \cup {Absent}, Edits(f, content)
    PROVE  WritesOK' /\ Grows
<1>1. now' = now + 1 /\ now < MaxTime /\ now \in 1..MaxTime /\ MaxTime \in Nat /\ now' \in 1..MaxTime
  BY CodexAssumption DEF Edits, Passes, WritesOK
<1> DEFINE w == [content |-> content, at |-> now']
<1>2. writes' = [writes EXCEPT ![f] = Append(@, w)]
  BY DEF Edits
<1>3. w \in Written /\ w.at = now + 1
  BY <1>1 DEF Written, Texts
<1>4. DOMAIN writes' = ContextFiles /\ \A g \in ContextFiles \ {f} : writes'[g] = writes[g]
  BY <1>2 DEF WritesOK
<1>5. writes'[f] = Append(writes[f], w)
  BY <1>2 DEF WritesOK
<1> HIDE DEF w
<1>6. ASSUME NEW s \in Seq(Written), s # <<>>, \A k \in 1..Len(s) : s[k].at <= now,
             \A j, k \in 1..Len(s) : j < k => s[j].at < s[k].at, NEW t, t = Append(s, w)
      PROVE  /\ t \in Seq(Written) /\ t # <<>> /\ Len(s) <= Len(t)
             /\ \A k \in 1..Len(t) : t[k].at <= now + 1
             /\ \A j, k \in 1..Len(t) : j < k => t[j].at < t[k].at
             /\ \A k \in 1..Len(s) : t[k] = s[k]
             /\ \A k \in 1..Len(t) : k > Len(s) => t[k].at > now
  <2>1. /\ t \in Seq(Written) /\ Len(t) = Len(s) + 1 /\ Len(s) \in Nat /\ t[Len(s) + 1] = w
        /\ \A k \in 1..Len(s) : t[k] = s[k]
    BY <1>3, <1>6
  <2>2. \A k \in 1..Len(s) : s[k].at \in Nat
    <3>1. \A k \in 1..Len(s) : s[k] \in Written
      OBVIOUS
    <3> QED BY <3>1 DEF Written
  <2>3. t # <<>>
    BY <2>1
  <2>4. \A k \in 1..Len(t) : k \in 1..Len(s) \/ k = Len(s) + 1
    BY <2>1
  <2>5. \A k \in 1..Len(t) : t[k].at <= now + 1 /\ (k > Len(s) => t[k].at > now)
    BY <1>1, <1>3, <1>6, <2>1, <2>2, <2>4
  <2>6. \A j, k \in 1..Len(t) : j < k => t[j].at < t[k].at
    <3> SUFFICES ASSUME NEW j \in 1..Len(t), NEW k \in 1..Len(t), j < k PROVE t[j].at < t[k].at
      OBVIOUS
    <3>1. j \in 1..Len(s) /\ t[j] = s[j]
      BY <2>1, <2>4
    <3>2. CASE k \in 1..Len(s)
      BY <1>6, <2>1, <3>1, <3>2
    <3>3. CASE k = Len(s) + 1
      BY <1>1, <1>3, <1>6, <2>1, <2>2, <3>1, <3>3
    <3> QED BY <2>4, <3>2, <3>3
  <2> QED BY <2>1, <2>3, <2>5, <2>6
<1>7. \A g \in ContextFiles :
        /\ writes[g] \in Seq(Written) /\ writes[g] # <<>> /\ Len(writes[g]) \in Nat
        /\ \A k \in 1..Len(writes[g]) : writes[g][k].at <= now /\ writes[g][k].at \in Nat
        /\ \A j, k \in 1..Len(writes[g]) : j < k => writes[g][j].at < writes[g][k].at
  BY WritesAre DEF WritesOK
<1>8. ASSUME NEW g \in ContextFiles
      PROVE  /\ writes'[g] \in Seq(Written) /\ writes'[g] # <<>> /\ Len(writes[g]) <= Len(writes'[g])
             /\ \A k \in 1..Len(writes'[g]) : writes'[g][k].at <= now'
             /\ \A j, k \in 1..Len(writes'[g]) : j < k => writes'[g][j].at < writes'[g][k].at
             /\ \A k \in 1..Len(writes[g]) : writes'[g][k] = writes[g][k]
             /\ \A k \in 1..Len(writes'[g]) : k > Len(writes[g]) => writes'[g][k].at > now
  <2>1. CASE g = f
    BY <1>1, <1>5, <1>6, <1>7, <2>1
  <2>2. CASE g # f
    <3>1. writes'[g] = writes[g]
      BY <1>4, <2>2
    <3> QED BY <1>1, <1>7, <3>1
  <2> QED BY <2>1, <2>2
<1>9. WritesOK'
  BY <1>1, <1>4, <1>8 DEF WritesOK
<1>10. now <= now'
  BY <1>1
<1> QED BY <1>8, <1>9, <1>10 DEF Grows

LEMMA TickGrows == ASSUME WritesOK, Ticks PROVE WritesOK' /\ Grows
<1>1. now' = now + 1 /\ now < MaxTime /\ now \in 1..MaxTime /\ MaxTime \in Nat /\ now' \in 1..MaxTime
      /\ writes' = writes
  BY CodexAssumption DEF Ticks, Passes, WritesOK
<1>2. \A f \in ContextFiles :
        Len(writes[f]) \in Nat /\ \A k \in 1..Len(writes[f]) : writes[f][k].at <= now /\ writes[f][k].at \in Nat
  BY WritesAre
<1>3. WritesOK'
  BY <1>1, <1>2 DEF WritesOK
<1> QED BY <1>1, <1>2, <1>3 DEF Grows

-----------------------------------------------------------------------------
(* What is known of a guide that was read: facts that no later write undoes. *)

Found == [guide : Guides, content : Texts]
\* The guide held something sound at some moment since b.
WasSound(g, b) == \E k \in DOMAIN writes[g] : writes[g][k].content.flaws = {} /\ Until(g, k) > b
\* Something sound in it was replaced between b and u.
Raced(g, b, u) == \E k \in DOMAIN writes[g] : writes[g][k].content.flaws = {} /\ Until(g, k) \in b..u
SegmentOK(s, b, u) ==
    /\ Held(s.guide, s.content, b)
    /\ s.content.flaws # {} => Raced(s.guide, b, u)
Parses ==
    {a \in [segments : Seq(Found), began : Nat, at : Nat] :
        /\ a.began <= a.at /\ a.at <= now
        /\ \A s \in Range(a.segments) : SegmentOK(s, a.began, a.at)}

\* What a terminal may be doing.
Kinds == UNION {sc.typed : sc \in Scenes}
Opening == [pc : {"lookup", "scan", "clear"}, kind : Kinds, began : 0..now]
\* What has been read since b of guides that were valid.
Parsed(segments, b) == \A s \in Range(segments) : \E u \in 0..now : SegmentOK(s, b, u)
Validating ==
    {r \in [pc : {"validate"}, kind : Kinds, began : 0..now, guides : Seq(Guides), valid : Seq(Guides)] :
        \A k \in 1..Len(r.valid) : WasSound(r.valid[k], r.began)}
Building ==
    {r \in [pc : {"build"}, kind : Kinds, began : 0..now, guides : Seq(Guides), segments : Seq(Found)] :
        /\ \A k \in 1..Len(r.guides) : WasSound(r.guides[k], r.began)
        /\ Parsed(r.segments, r.began)}
Storing ==
    {r \in [pc : {"store"}, kind : Kinds, began : 0..now, segments : Seq(Found)] :
        Parsed(r.segments, r.began)}
Answering ==
    {r \in [pc : {"answered"}, kind : Kinds, began : 0..now, answer : Parses] :
        r.began <= r.answer.at \/ r.began - (r.answer.at + West) <= Ttl}
\* The legacy parser has validated nothing.
Falling == [pc : {"legacy"}, kind : {"legacy"}, began : 0..now]
Readings ==
    {a \in [segments : Seq(Found), began : Nat, at : Nat] :
        /\ a.began <= a.at /\ a.at <= now
        /\ \A s \in Range(a.segments) : Held(s.guide, s.content, a.began)}
Fallen ==
    {r \in [pc : {"answered"}, kind : {"legacy"}, began : 0..now, answer : Readings] :
        r.began <= r.answer.at}
Tasks ==
    {Rest} \cup Opening \cup Validating \cup Building \cup Storing \cup Answering \cup Falling \cup Fallen

\* A console knows a guide as it is, unless it was edited since.
SeenOK(s, b) == s.content # Absent /\ (s.content = Disk(s.guide) \/ EditedIn(s.guide, b, now))
\* A context knows when what it holds was written, unless that was while it was put together.
WatchedOK(s, m) ==
    \/ EditedIn(s.guide, m.began, m.ended)
    \/ /\ s.guide \in DOMAIN m.watches
       /\ \E k \in DOMAIN writes[s.guide] :
             writes[s.guide][k].content = s.content /\ writes[s.guide][k].at = m.watches[s.guide].at
Watches == UNION {[some -> [at : Nat, size : {t.size : t \in Texts}]] : some \in SUBSET ContextFiles}
Contexts ==
    {m \in [segments : Seq(Found), began : Nat, ended : Nat, watches : Watches] :
        \A s \in Range(m.segments) : WatchedOK(s, m)}

\* What a console may be doing.
Gathering ==
    {r \in [pc : {"watch", "readme", "artifacts", "finish"}, began : 0..now, watches : Watches, found : Seq(Found)] :
        \A s \in Range(r.found) : SeenOK(s, r.began)}
Prompts == {Rest} \cup Opening \cup Gathering \cup [pc : {"built"}, segments : Seq(Found)]

CodexInv ==
    /\ WritesOK
    /\ scene \in Scenes
    /\ rows \subseteq Parses
    /\ DOMAIN proc = Terminals \cup Consoles
    /\ \A p \in Terminals : proc[p] \in Tasks
    /\ \A c \in Consoles : proc[c] \in Prompts
    /\ memory \in [Consoles -> {<<>>} \cup {<<m>> : m \in Contexts}]

-----------------------------------------------------------------------------
(* Those facts stay.                                                        *)

LEMMA WriteStays ==
    ASSUME WritesOK, WritesOK', Grows, NEW f \in ContextFiles, NEW k \in DOMAIN writes[f]
    PROVE  /\ k \in 1..Len(writes[f]) /\ k \in DOMAIN writes'[f] /\ writes'[f][k] = writes[f][k]
           /\ Until(f, k) \in Nat
           /\ \/ Until(f, k)' = Until(f, k)
              \/ Until(f, k) = MaxTime + 1 /\ Until(f, k)' \in Nat /\ Until(f, k)' > now
<1>1. DOMAIN writes[f] = 1..Len(writes[f]) /\ Len(writes[f]) \in Nat \ {0} /\ now \in Nat /\ MaxTime \in Nat
      /\ \A j \in 1..Len(writes[f]) : writes[f][j].at \in Nat
  BY WritesAre
<1>2. DOMAIN writes'[f] = 1..Len(writes'[f]) /\ Len(writes'[f]) \in Nat
      /\ \A j \in 1..Len(writes'[f]) : writes'[f][j].at \in Nat
  <2>1. writes'[f] \in Seq(Written)
    BY DEF WritesOK
  <2>2. \A j \in 1..Len(writes'[f]) : writes'[f][j] \in Written
    BY <2>1
  <2> QED BY <2>1, <2>2 DEF Written
<1>3. /\ Len(writes[f]) <= Len(writes'[f])
      /\ \A j \in 1..Len(writes[f]) : writes'[f][j] = writes[f][j]
      /\ \A j \in 1..Len(writes'[f]) : j > Len(writes[f]) => writes'[f][j].at > now
  BY DEF Grows
<1>4. k \in 1..Len(writes[f]) /\ k \in 1..Len(writes'[f]) /\ k \in Nat
  BY <1>1, <1>2, <1>3
<1>5. Until(f, k) \in Nat
  BY <1>1, <1>4 DEF Until
<1>6. CASE k < Len(writes[f])
  <2>1. k + 1 \in 1..Len(writes[f]) /\ k # Len(writes[f]) /\ k # Len(writes'[f])
    BY <1>1, <1>2, <1>3, <1>4, <1>6
  <2>2. Until(f, k)' = Until(f, k)
    BY <1>3, <2>1 DEF Until
  <2> QED BY <1>2, <1>3, <1>4, <1>5, <2>2
<1>7. CASE k = Len(writes[f])
  <2>1. Until(f, k) = MaxTime + 1
    BY <1>7 DEF Until
  <2>2. CASE k = Len(writes'[f])
    <3>1. Until(f, k)' = MaxTime + 1
      BY <2>2 DEF Until
    <3> QED BY <1>2, <1>3, <1>4, <1>5, <2>1, <3>1
  <2>3. CASE k # Len(writes'[f])
    <3>1. k + 1 \in 1..Len(writes'[f]) /\ k + 1 > Len(writes[f])
      BY <1>2, <1>4, <1>7, <2>3
    <3>2. Until(f, k)' = writes'[f][k + 1].at
      BY <2>3 DEF Until
    <3>3. Until(f, k)' \in Nat /\ Until(f, k)' > now
      BY <1>2, <1>3, <3>1, <3>2
    <3> QED BY <1>2, <1>3, <1>4, <1>5, <2>1, <3>3
  <2> QED BY <2>2, <2>3
<1> QED BY <1>1, <1>4, <1>6, <1>7

LEMMA HeldStays ==
    ASSUME WritesOK, WritesOK', Grows, NEW f \in ContextFiles, NEW t, NEW b \in Nat, b <= now, Held(f, t, b)
    PROVE  Held(f, t, b)'
<1>1. PICK k \in DOMAIN writes[f] : writes[f][k].content = t /\ Until(f, k) > b
  BY DEF Held
<1>2. k \in DOMAIN writes'[f] /\ writes'[f][k].content = t
  BY <1>1, WriteStays
<1>3. now \in Nat
  BY WritesAre
<1>4. Until(f, k)' > b
  BY <1>1, <1>3, WriteStays
<1> QED BY <1>2, <1>4 DEF Held

LEMMA WasStays ==
    ASSUME WritesOK, WritesOK', Grows, NEW f \in ContextFiles, NEW b \in Nat, b <= now, WasSound(f, b)
    PROVE  WasSound(f, b)'
<1>1. PICK k \in DOMAIN writes[f] : writes[f][k].content.flaws = {} /\ Until(f, k) > b
  BY DEF WasSound
<1>2. k \in DOMAIN writes'[f] /\ writes'[f][k].content.flaws = {}
  BY <1>1, WriteStays
<1>3. now \in Nat
  BY WritesAre
<1>4. Until(f, k)' > b
  BY <1>1, <1>3, WriteStays
<1> QED BY <1>2, <1>4 DEF WasSound

LEMMA RacedStays ==
    ASSUME WritesOK, WritesOK', Grows, NEW f \in ContextFiles,
           NEW b \in Nat, NEW u \in Nat, u <= now, Raced(f, b, u)
    PROVE  Raced(f, b, u)'
<1>1. PICK k \in DOMAIN writes[f] : writes[f][k].content.flaws = {} /\ Until(f, k) \in b..u
  BY DEF Raced
<1>2. k \in DOMAIN writes'[f] /\ writes'[f][k].content.flaws = {}
  BY <1>1, WriteStays
<1>3. now \in Nat /\ MaxTime \in Nat /\ now <= MaxTime
  BY WritesAre
<1>4. Until(f, k)' = Until(f, k)
  BY <1>1, <1>3, WriteStays
<1>5. Until(f, k)' \in b..u
  BY <1>1, <1>4
<1> QED BY <1>2, <1>5 DEF Raced

LEMMA SegmentStays ==
    ASSUME WritesOK, WritesOK', Grows, NEW s \in Found,
           NEW b \in Nat, NEW u \in Nat, b <= now, u <= now, SegmentOK(s, b, u)
    PROVE  SegmentOK(s, b, u)'
<1>1. s.guide \in ContextFiles
  BY DEF Found, ContextFiles
<1>2. Held(s.guide, s.content, b)'
  BY <1>1, HeldStays DEF SegmentOK
<1>3. s.content.flaws # {} => Raced(s.guide, b, u)'
  BY <1>1, RacedStays DEF SegmentOK
<1> QED BY <1>2, <1>3 DEF SegmentOK

\* The entries of a sequence are of its set.
LEMMA Entries == ASSUME NEW S, NEW q \in Seq(S) PROVE \A x \in Range(q) : x \in S
BY DEF Range

LEMMA ParsesStay == ASSUME WritesOK, WritesOK', Grows PROVE Parses \subseteq Parses'
<1> SUFFICES ASSUME NEW a \in Parses PROVE a \in Parses'
  OBVIOUS
<1>1. a \in [segments : Seq(Found), began : Nat, at : Nat] /\ a.began <= a.at /\ a.at <= now
      /\ \A s \in Range(a.segments) : SegmentOK(s, a.began, a.at)
  BY DEF Parses
<1>2. now \in Nat /\ now' \in Nat /\ now <= now'
  BY CodexAssumption DEF WritesOK, Grows
<1>3. a.segments \in Seq(Found) /\ a.began \in Nat /\ a.at \in Nat /\ a.began <= now /\ a.at <= now'
  BY <1>1, <1>2
<1>4. \A s \in Range(a.segments) : s \in Found
  BY <1>3, Entries
<1>5. \A s \in Range(a.segments) : SegmentOK(s, a.began, a.at)'
  BY <1>1, <1>3, <1>4, SegmentStays
<1> QED BY <1>1, <1>3, <1>5 DEF Parses

LEMMA ReadingsStay == ASSUME WritesOK, WritesOK', Grows PROVE Readings \subseteq Readings'
<1> SUFFICES ASSUME NEW a \in Readings PROVE a \in Readings'
  OBVIOUS
<1>1. a \in [segments : Seq(Found), began : Nat, at : Nat] /\ a.began <= a.at /\ a.at <= now
      /\ \A s \in Range(a.segments) : Held(s.guide, s.content, a.began)
  BY DEF Readings
<1>2. now \in Nat /\ now' \in Nat /\ now <= now'
  BY CodexAssumption DEF WritesOK, Grows
<1>3. a.segments \in Seq(Found) /\ a.began \in Nat /\ a.at \in Nat /\ a.began <= now /\ a.at <= now'
  BY <1>1, <1>2
<1>4. \A s \in Range(a.segments) : s.guide \in ContextFiles
  <2>1. \A s \in Range(a.segments) : s \in Found
    BY <1>3, Entries
  <2> QED BY <2>1 DEF Found, ContextFiles
<1>5. \A s \in Range(a.segments) : Held(s.guide, s.content, a.began)'
  BY <1>1, <1>3, <1>4, HeldStays
<1> QED BY <1>1, <1>3, <1>5 DEF Readings

LEMMA ParsedStays ==
    ASSUME WritesOK, WritesOK', Grows, NEW q \in Seq(Found), NEW b \in Nat, b <= now, Parsed(q, b)
    PROVE  Parsed(q, b)'
<1>1. now \in Nat /\ now' \in Nat /\ now <= now'
  BY CodexAssumption DEF WritesOK, Grows
<1>2. ASSUME NEW s \in Range(q) PROVE \E u \in 0..now' : SegmentOK(s, b, u)'
  <2>1. PICK u \in 0..now : SegmentOK(s, b, u)
    BY <1>2 DEF Parsed
  <2>2. u \in Nat /\ u <= now /\ u \in 0..now' /\ s \in Found
    BY <1>1, <1>2, Entries
  <2>3. SegmentOK(s, b, u)'
    BY <2>1, <2>2, SegmentStays
  <2> QED BY <2>2, <2>3
<1> QED BY <1>2 DEF Parsed

LEMMA OpeningStays == ASSUME WritesOK, WritesOK', Grows PROVE Opening \subseteq Opening' /\ 0..now \subseteq 0..now'
<1>1. now \in Nat /\ now' \in Nat /\ now <= now'
  BY CodexAssumption DEF WritesOK, Grows
<1>2. 0..now \subseteq 0..now'
  BY <1>1
<1> QED BY <1>2 DEF Opening

LEMMA TasksStay == ASSUME WritesOK, WritesOK', Grows PROVE Tasks \subseteq Tasks'
<1>0. now \in Nat
  BY CodexAssumption DEF WritesOK
<1>1. 0..now \subseteq 0..now' /\ \A b \in 0..now : b \in Nat /\ b <= now
  BY <1>0, OpeningStays
<1>2. ASSUME NEW r \in Validating PROVE r \in Validating'
  <2>1. r \in [pc : {"validate"}, kind : Kinds, began : 0..now, guides : Seq(Guides), valid : Seq(Guides)]
        /\ \A k \in 1..Len(r.valid) : WasSound(r.valid[k], r.began)
    BY DEF Validating
  <2>2. r \in [pc : {"validate"}, kind : Kinds, began : 0..now', guides : Seq(Guides), valid : Seq(Guides)]
    BY <1>1, <2>1
  <2>3. r.began \in Nat /\ r.began <= now /\ \A k \in 1..Len(r.valid) : r.valid[k] \in ContextFiles
    BY <1>1, <2>1 DEF ContextFiles
  <2>4. \A k \in 1..Len(r.valid) : WasSound(r.valid[k], r.began)'
    BY <2>1, <2>3, WasStays
  <2> QED BY <2>2, <2>4 DEF Validating
<1>3. ASSUME NEW r \in Building PROVE r \in Building'
  <2>1. r \in [pc : {"build"}, kind : Kinds, began : 0..now, guides : Seq(Guides), segments : Seq(Found)]
        /\ (\A k \in 1..Len(r.guides) : WasSound(r.guides[k], r.began)) /\ Parsed(r.segments, r.began)
    BY DEF Building
  <2>2. r \in [pc : {"build"}, kind : Kinds, began : 0..now', guides : Seq(Guides), segments : Seq(Found)]
    BY <1>1, <2>1
  <2>3. r.began \in Nat /\ r.began <= now /\ \A k \in 1..Len(r.guides) : r.guides[k] \in ContextFiles
    BY <1>1, <2>1 DEF ContextFiles
  <2>4. \A k \in 1..Len(r.guides) : WasSound(r.guides[k], r.began)'
    BY <2>1, <2>3, WasStays
  <2>5. Parsed(r.segments, r.began)'
    BY <2>1, <2>3, ParsedStays
  <2> QED BY <2>2, <2>4, <2>5 DEF Building
<1>4. ASSUME NEW r \in Storing PROVE r \in Storing'
  <2>1. r \in [pc : {"store"}, kind : Kinds, began : 0..now, segments : Seq(Found)]
        /\ Parsed(r.segments, r.began)
    BY DEF Storing
  <2>2. r \in [pc : {"store"}, kind : Kinds, began : 0..now', segments : Seq(Found)]
    BY <1>1, <2>1
  <2>3. Parsed(r.segments, r.began)'
    BY <1>1, <2>1, ParsedStays
  <2> QED BY <2>2, <2>3 DEF Storing
<1>5. ASSUME NEW r \in Answering PROVE r \in Answering'
  BY <1>1, <1>5, ParsesStay DEF Answering
<1>6. Falling \subseteq Falling'
  BY <1>1 DEF Falling
<1>7. ASSUME NEW r \in Fallen PROVE r \in Fallen'
  BY <1>1, <1>7, ReadingsStay DEF Fallen
<1> QED BY <1>2, <1>3, <1>4, <1>5, <1>6, <1>7, OpeningStays DEF Tasks

LEMMA EditedStays ==
    ASSUME WritesOK, WritesOK', Grows, NEW f \in ContextFiles, NEW b, NEW u, EditedIn(f, b, u)
    PROVE  EditedIn(f, b, u)'
BY WriteStays DEF EditedIn

\* A guide that is not what it was has been edited.
LEMMA DiskStays ==
    ASSUME WritesOK, WritesOK', Grows, NEW f \in ContextFiles, NEW b \in Nat, b <= now
    PROVE  Disk(f)' = Disk(f) \/ EditedIn(f, b, now)'
<1>1. DOMAIN writes'[f] = 1..Len(writes'[f]) /\ Len(writes'[f]) \in Nat \ {0}
      /\ \A j \in 1..Len(writes'[f]) : writes'[f][j].at \in Nat /\ writes'[f][j].at <= now'
  <2>1. writes'[f] \in Seq(Written) /\ writes'[f] # <<>>
    BY DEF WritesOK
  <2>2. \A j \in 1..Len(writes'[f]) : writes'[f][j] \in Written
    BY <2>1
  <2>3. \A j \in 1..Len(writes'[f]) : writes'[f][j].at <= now'
    BY DEF WritesOK
  <2>4. \A x \in Written : x.at \in Nat
    BY DEF Written
  <2> QED BY <2>1, <2>2, <2>3, <2>4
<1>2. Len(writes[f]) \in Nat \ {0} /\ Disk(f) = writes[f][Len(writes[f])].content /\ now \in Nat
  BY WritesAre
<1>3. Disk(f)' = writes'[f][Len(writes'[f])].content
  BY DEF Disk, Last
<1>4. /\ Len(writes[f]) <= Len(writes'[f])
      /\ \A j \in 1..Len(writes[f]) : writes'[f][j] = writes[f][j]
      /\ \A j \in 1..Len(writes'[f]) : j > Len(writes[f]) => writes'[f][j].at > now
  BY DEF Grows
<1>5. CASE Len(writes'[f]) = Len(writes[f])
  BY <1>2, <1>3, <1>4, <1>5
<1>6. CASE Len(writes'[f]) # Len(writes[f])
  <2>1. Len(writes'[f]) \in 1..Len(writes'[f]) /\ Len(writes'[f]) > Len(writes[f])
    BY <1>1, <1>2, <1>4, <1>6
  <2>2. now' \in Nat
    BY CodexAssumption DEF WritesOK
  <2>3. writes'[f][Len(writes'[f])].at \in (b + 1)..now'
    BY <1>1, <1>2, <1>4, <2>1, <2>2
  <2> QED BY <1>1, <2>1, <2>3 DEF EditedIn
<1> QED BY <1>5, <1>6

LEMMA SeenStays ==
    ASSUME WritesOK, WritesOK', Grows, NEW s \in Found, NEW b \in Nat, b <= now, SeenOK(s, b)
    PROVE  SeenOK(s, b)'
<1>1. s.guide \in ContextFiles
  BY DEF Found, ContextFiles
<1>2. CASE EditedIn(s.guide, b, now)
  <2>1. PICK k \in DOMAIN writes[s.guide] : writes[s.guide][k].at \in (b + 1)..now
    BY <1>2 DEF EditedIn
  <2>2. k \in DOMAIN writes'[s.guide] /\ writes'[s.guide][k] = writes[s.guide][k]
    BY <1>1, WriteStays
  <2>3. now \in Nat /\ now' \in Nat /\ now <= now'
    BY CodexAssumption DEF WritesOK, Grows
  <2>4. writes'[s.guide][k].at \in (b + 1)..now'
    BY <2>1, <2>2, <2>3
  <2> QED BY <2>2, <2>4 DEF SeenOK, EditedIn
<1>3. CASE s.content = Disk(s.guide)
  <2>1. Disk(s.guide)' = Disk(s.guide) \/ EditedIn(s.guide, b, now)'
    BY <1>1, DiskStays
  <2> QED BY <1>3, <2>1 DEF SeenOK
<1> QED BY <1>2, <1>3 DEF SeenOK

LEMMA ContextsStay == ASSUME WritesOK, WritesOK', Grows PROVE Contexts \subseteq Contexts'
<1> SUFFICES ASSUME NEW m \in Contexts PROVE m \in Contexts'
  OBVIOUS
<1>1. m \in [segments : Seq(Found), began : Nat, ended : Nat, watches : Watches]
      /\ \A s \in Range(m.segments) : WatchedOK(s, m)
  BY DEF Contexts
<1>2. ASSUME NEW s \in Range(m.segments) PROVE WatchedOK(s, m)'
  <2>1. s.guide \in ContextFiles
    <3>1. m.segments \in Seq(Found)
      BY <1>1
    <3>2. s \in Found
      BY <3>1, Entries
    <3> QED BY <3>2 DEF Found, ContextFiles
  <2>2. CASE EditedIn(s.guide, m.began, m.ended)
    BY <2>1, <2>2, EditedStays DEF WatchedOK
  <2>3. CASE ~EditedIn(s.guide, m.began, m.ended)
    <3>1. s.guide \in DOMAIN m.watches
      BY <1>1, <2>3 DEF WatchedOK
    <3>2. PICK k \in DOMAIN writes[s.guide] :
             writes[s.guide][k].content = s.content /\ writes[s.guide][k].at = m.watches[s.guide].at
      BY <1>1, <2>3 DEF WatchedOK
    <3>3. k \in DOMAIN writes'[s.guide] /\ writes'[s.guide][k] = writes[s.guide][k]
      BY <2>1, WriteStays
    <3> QED BY <3>1, <3>2, <3>3 DEF WatchedOK
  <2> QED BY <2>2, <2>3
<1> QED BY <1>1, <1>2 DEF Contexts

LEMMA PromptsStay == ASSUME WritesOK, WritesOK', Grows PROVE Prompts \subseteq Prompts'
<1>1. now \in Nat
  BY WritesAre, CodexAssumption DEF WritesOK
<1>2. 0..now \subseteq 0..now' /\ \A b \in 0..now : b \in Nat /\ b <= now
  BY <1>1, OpeningStays
<1>3. ASSUME NEW r \in Gathering PROVE r \in Gathering'
  <2>1. r \in [pc : {"watch", "readme", "artifacts", "finish"}, began : 0..now, watches : Watches, found : Seq(Found)]
        /\ \A s \in Range(r.found) : SeenOK(s, r.began)
    BY DEF Gathering
  <2>2. r \in [pc : {"watch", "readme", "artifacts", "finish"}, began : 0..now', watches : Watches, found : Seq(Found)]
    BY <1>2, <2>1
  <2>3. r.began \in Nat /\ r.began <= now /\ \A s \in Range(r.found) : s \in Found
    BY <1>2, <2>1, Entries
  <2>4. \A s \in Range(r.found) : SeenOK(s, r.began)'
    BY <2>1, <2>3, SeenStays
  <2> QED BY <2>2, <2>4 DEF Gathering
<1> QED BY <1>3, OpeningStays DEF Prompts

-----------------------------------------------------------------------------
(* Who acts leaves the others as they are.                                  *)

LEMMA FilesAct ==
    ASSUME CodexInv, WritesOK', Grows, UNCHANGED <<rows, proc, scene, memory>> PROVE CodexInv'
<1>1. WritesOK
  BY DEF CodexInv
<1>2. Parses \subseteq Parses' /\ Tasks \subseteq Tasks' /\ Prompts \subseteq Prompts' /\ Contexts \subseteq Contexts'
  BY <1>1, ParsesStay, TasksStay, PromptsStay, ContextsStay
<1>3. memory' \in [Consoles -> {<<>>} \cup {<<m>> : m \in Contexts'}]
  BY <1>2 DEF CodexInv
<1> QED BY <1>2, <1>3 DEF CodexInv

LEMMA TaskActs ==
    ASSUME CodexInv, NEW p \in Terminals, NEW r \in Tasks, proc' = [proc EXCEPT ![p] = r],
           rows' \subseteq Parses, UNCHANGED <<writes, now, scene, memory>>
    PROVE  CodexInv'
<1>1. WritesOK' /\ Grows /\ WritesOK
  BY QuietGrows DEF CodexInv
<1>2. Parses \subseteq Parses' /\ Tasks \subseteq Tasks' /\ Prompts \subseteq Prompts' /\ Contexts \subseteq Contexts'
  BY <1>1, ParsesStay, TasksStay, PromptsStay, ContextsStay
<1>3. memory' \in [Consoles -> {<<>>} \cup {<<m>> : m \in Contexts'}]
  BY <1>2 DEF CodexInv
<1>4. DOMAIN proc' = Terminals \cup Consoles /\ proc'[p] = r /\ \A q \in (Terminals \cup Consoles) \ {p} : proc'[q] = proc[q]
  BY DEF CodexInv
<1>5. \A q \in Terminals : proc'[q] \in Tasks'
  BY <1>2, <1>4 DEF CodexInv
<1>6. \A c \in Consoles : proc'[c] \in Prompts'
  BY <1>2, <1>4, CodexAssumption DEF CodexInv
<1> QED BY <1>1, <1>2, <1>3, <1>4, <1>5, <1>6 DEF CodexInv

LEMMA PromptActs ==
    ASSUME CodexInv, NEW c \in Consoles, NEW r \in Prompts, proc' = [proc EXCEPT ![c] = r],
           NEW m \in {<<>>} \cup {<<n>> : n \in Contexts},
           memory' = memory \/ memory' = [memory EXCEPT ![c] = m], UNCHANGED <<writes, rows, now, scene>>
    PROVE  CodexInv'
<1>1. WritesOK' /\ Grows /\ WritesOK /\ rows' = rows /\ scene' = scene
  BY QuietGrows DEF CodexInv
<1>2. Parses \subseteq Parses' /\ Tasks \subseteq Tasks' /\ Prompts \subseteq Prompts' /\ Contexts \subseteq Contexts'
  BY <1>1, ParsesStay, TasksStay, PromptsStay, ContextsStay
<1>3. memory' \in [Consoles -> {<<>>} \cup {<<n>> : n \in Contexts}]
  BY DEF CodexInv
<1>4. memory' \in [Consoles -> {<<>>} \cup {<<n>> : n \in Contexts'}]
  BY <1>2, <1>3
<1>5. DOMAIN proc' = Terminals \cup Consoles /\ proc'[c] = r /\ \A q \in (Terminals \cup Consoles) \ {c} : proc'[q] = proc[q]
  BY DEF CodexInv
<1>6. \A q \in Terminals : proc'[q] \in Tasks'
  BY <1>2, <1>5, CodexAssumption DEF CodexInv
<1>7. \A d \in Consoles : proc'[d] \in Prompts'
  BY <1>2, <1>5 DEF CodexInv
<1> QED BY <1>1, <1>2, <1>4, <1>5, <1>6, <1>7 DEF CodexInv

\* What a process does at each place in its program.
LEMMA TaskIs ==
    ASSUME NEW r \in Tasks
    PROVE  /\ r.pc \in {"lookup", "scan", "clear"} => r \in Opening
           /\ r.pc = "validate" => r \in Validating
           /\ r.pc = "build" => r \in Building
           /\ r.pc = "store" => r \in Storing
           /\ r.pc = "answered" => r \in Answering \cup Fallen
           /\ r.pc = "legacy" => r \in Falling
<1>1. r = Rest => r.pc = "rest"
  BY DEF Rest
<1>2. r \in Opening => r.pc \in {"lookup", "scan", "clear"}
  BY DEF Opening
<1>3. (r \in Validating => r.pc = "validate") /\ (r \in Building => r.pc = "build")
  BY DEF Validating, Building
<1>4. r \in Storing => r.pc = "store"
  BY DEF Storing
<1>5. (r \in Answering => r.pc = "answered") /\ (r \in Fallen => r.pc = "answered")
  BY DEF Answering, Fallen
<1>6. r \in Falling => r.pc = "legacy"
  BY DEF Falling
<1> QED BY <1>1, <1>2, <1>3, <1>4, <1>5, <1>6 DEF Tasks

LEMMA PromptIs ==
    ASSUME NEW r \in Prompts
    PROVE  /\ r.pc = "scan" => r \in Opening
           /\ r.pc \in {"watch", "readme", "artifacts", "finish"} => r \in Gathering
<1>1. r = Rest => r.pc = "rest"
  BY DEF Rest
<1>2. r \in Opening => r.pc \in {"lookup", "scan", "clear"}
  BY DEF Opening
<1>3. r \in Gathering => r.pc \in {"watch", "readme", "artifacts", "finish"}
  BY DEF Gathering
<1>4. r \in [pc : {"built"}, segments : Seq(Found)] => r.pc = "built"
  OBVIOUS
<1> QED BY <1>1, <1>2, <1>3, <1>4 DEF Prompts

-----------------------------------------------------------------------------
(* What is read of the guides.                                              *)

LEMMA ByPathIs == ByPath \in Seq(Guides) /\ Guides \subseteq ContextFiles
BY CodexAssumption DEF Guides, ContextFiles

LEMMA NowIs == ASSUME WritesOK PROVE now \in Nat /\ now \in 0..now /\ now <= MaxTime /\ MaxTime \in Nat
<1>1. now \in 1..MaxTime /\ MaxTime \in Nat
  BY CodexAssumption DEF WritesOK
<1> QED BY <1>1

LEMMA DiskIs ==
    ASSUME WritesOK, NEW f \in ContextFiles
    PROVE  /\ Disk(f) \in Texts
           /\ \A b \in Nat : b <= now => Held(f, Disk(f), b)
<1>1. Len(writes[f]) \in DOMAIN writes[f] /\ Disk(f) = writes[f][Len(writes[f])].content
      /\ writes[f][Len(writes[f])].content \in Texts
  BY WritesAre
<1>2. Until(f, Len(writes[f])) = MaxTime + 1
  BY DEF Until
<1>3. \A b \in Nat : b <= now => MaxTime + 1 > b
  BY NowIs
<1> QED BY <1>1, <1>2, <1>3 DEF Held

\* What is read is what the files hold, and it is there.
LEMMA ReadIs ==
    ASSUME WritesOK, NEW guides \in Seq(Guides)
    PROVE  /\ Read(Reachable(guides)) \in Seq(Found)
           /\ \A s \in Range(Read(Reachable(guides))) :
                 /\ s.guide \in Range(guides) /\ s.guide \in Guides
                 /\ s.content = Disk(s.guide) /\ There(s.guide)
<1> DEFINE q == Reachable(guides)
           there == {g \in Guides : There(g)}
<1>0. guides \in Seq(Range(guides) \cap Guides)
  <2>1. \A k \in 1..Len(guides) : guides[k] \in Range(guides) \cap Guides
    BY DEF Range
  <2> QED BY <2>1
<1>1. q \in Seq(Range(guides) \cap Guides) /\ \A k \in DOMAIN q : q[k] \in (Range(guides) \cap Guides) \cap there
  BY <1>0, ThoseAre DEF Reachable
<1>2. \A k \in DOMAIN q : q[k] \in Guides /\ q[k] \in Range(guides) /\ There(q[k])
  BY <1>1
<1> HIDE DEF q, there
<1>3. Read(q) = [k \in 1..Len(q) |-> [guide |-> q[k], content |-> Disk(q[k])]] /\ Len(q) \in Nat /\ DOMAIN q = 1..Len(q)
  BY <1>1 DEF Read
<1>4. \A k \in 1..Len(q) : [guide |-> q[k], content |-> Disk(q[k])] \in Found
  BY <1>2, <1>3, ByPathIs, DiskIs DEF Found
<1>5. Read(q) \in Seq(Found)
  BY <1>3, <1>4
<1>6. \A s \in Range(Read(q)) : \E k \in 1..Len(q) : s = [guide |-> q[k], content |-> Disk(q[k])]
  BY <1>3 DEF Range
<1>7. \A s \in Range(Read(q)) :
        s.guide \in Range(guides) /\ s.guide \in Guides /\ s.content = Disk(s.guide) /\ There(s.guide)
  BY <1>2, <1>3, <1>6
<1> QED BY <1>5, <1>7 DEF q

\* What is kept of what was found was found.
LEMMA KeptIs ==
    ASSUME NEW found \in Seq(Found)
    PROVE  Kept(found) \in Seq(Found) /\ Range(Kept(found)) \subseteq Range(found)
<1> DEFINE P == Fitting(found)
<1>1. P \subseteq DOMAIN found /\ Kept(found) = InOrder(found, P)
  BY DEF Kept, Fitting
<1> HIDE DEF P
<1>2. Kept(found) \in Seq(Found) /\ Range(Kept(found)) = {found[i] : i \in P}
  BY <1>1, InOrderIs
<1> QED BY <1>1, <1>2 DEF Range

-----------------------------------------------------------------------------
(* The steps of terminals.                                                  *)

LEMMA InvFacts ==
    ASSUME CodexInv
    PROVE  /\ WritesOK /\ now \in Nat /\ now \in 0..now /\ rows \subseteq Parses
           /\ Terminals \cup Consoles = DOMAIN proc
           /\ \A p \in Terminals : proc[p] \in Tasks
           /\ \A c \in Consoles : proc[c] \in Prompts
BY NowIs DEF CodexInv

LEMMA TerminalStarts ==
    ASSUME CodexInv, NEW p \in Terminals, NEW kind \in scene.typed, Starts(p, kind) PROVE CodexInv'
<1>1. kind \in Kinds /\ now \in 0..now
  BY InvFacts DEF CodexInv, Kinds
<1>2. PICK pc \in {"lookup", "scan", "clear"} :
         proc' = [proc EXCEPT ![p] = [pc |-> pc, kind |-> kind, began |-> now]]
  <2>1. kind \in Cached \/ (kind \notin Cached /\ kind = "clear") \/ (kind \notin Cached /\ kind # "clear")
    OBVIOUS
  <2> QED BY <2>1 DEF Starts
<1>3. [pc |-> pc, kind |-> kind, began |-> now] \in Tasks
  BY <1>1 DEF Tasks, Opening
<1> QED BY <1>2, <1>3, TaskActs, InvFacts DEF Starts

LEMMA TerminalClears == ASSUME CodexInv, NEW p \in Terminals, Clears(p) PROVE CodexInv'
<1>1. Rest \in Tasks
  BY DEF Tasks
<1> QED BY <1>1, TaskActs DEF Clears

LEMMA TerminalLooksUp == ASSUME CodexInv, NEW p \in Terminals, LooksUp(p) PROVE CodexInv'
<1>1. proc[p] \in Opening /\ p \in DOMAIN proc /\ now \in Nat
  BY InvFacts, TaskIs DEF LooksUp
<1>2. proc[p].kind \in Kinds /\ proc[p].began \in 0..now
      /\ proc[p] = [pc |-> proc[p].pc, kind |-> proc[p].kind, began |-> proc[p].began]
  BY <1>1 DEF Opening
<1>3. rows' \subseteq Parses /\ UNCHANGED <<writes, now, scene, memory>>
  BY InvFacts DEF LooksUp, stores
<1>4. ASSUME NEW row \in NewestRows, ~Expired(row), Replies(p, row) PROVE CodexInv'
  <2>1. row \in Parses
    BY InvFacts DEF NewestRows
  <2>2. row.at \in Nat
    BY <2>1 DEF Parses
  <2>3. proc[p].began - (row.at + West) <= Ttl
    <3>1. now - (row.at + West) <= Ttl
      BY <1>1, <1>4, <2>2, CodexAssumption DEF Expired
    <3>2. proc[p].began \in Nat /\ proc[p].began <= now
      BY <1>1, <1>2
    <3> QED BY <1>1, <2>2, <3>1, <3>2, CodexAssumption
  <2>4. [pc |-> "answered", kind |-> proc[p].kind, began |-> proc[p].began, answer |-> row] \in Answering
    BY <1>2, <2>1, <2>3 DEF Answering
  <2>5. proc' = [proc EXCEPT ![p] = [pc |-> "answered", kind |-> proc[p].kind, began |-> proc[p].began, answer |-> row]]
    BY <1>1, <1>4 DEF Replies
  <2> QED BY <1>3, <2>4, <2>5, TaskActs DEF Tasks
<1>5. ASSUME Goes(p, "scan") PROVE CodexInv'
  <2>0. [proc[p] EXCEPT !.pc = "scan"] = [pc |-> "scan", kind |-> proc[p].kind, began |-> proc[p].began]
    BY <1>1 DEF Opening
  <2>1. proc' = [proc EXCEPT ![p] = [pc |-> "scan", kind |-> proc[p].kind, began |-> proc[p].began]]
    BY <1>5, <2>0 DEF Goes
  <2>2. [pc |-> "scan", kind |-> proc[p].kind, began |-> proc[p].began] \in Tasks
    BY <1>2 DEF Tasks, Opening
  <2> QED BY <1>3, <2>1, <2>2, TaskActs
<1> QED BY <1>4, <1>5 DEF LooksUp

\* An answer that was read just now.
LEMMA FreshIs ==
    ASSUME CodexInv, NEW p \in Terminals, NEW segments \in Seq(Found), p \in DOMAIN proc,
           proc[p].kind \in Kinds, proc[p].began \in 0..now,
           \A s \in Range(segments) : SegmentOK(s, proc[p].began, now)
    PROVE  /\ Fresh(p, segments) \in Parses
           /\ Replies(p, Fresh(p, segments)) =>
                 \E r \in Tasks : proc' = [proc EXCEPT ![p] = r]
<1> DEFINE a == [segments |-> segments, began |-> proc[p].began, at |-> now]
           r == [pc |-> "answered", kind |-> proc[p].kind, began |-> proc[p].began, answer |-> a]
<1>1. now \in Nat /\ proc[p].began \in Nat /\ proc[p].began <= now
  BY InvFacts
<1>2. a \in Parses
  BY <1>1 DEF Parses
<1>3. Fresh(p, segments) = a
  BY DEF Fresh
<1>4. r \in Tasks
  BY <1>1, <1>2 DEF Tasks, Answering
<1>5. Replies(p, a) => proc' = [proc EXCEPT ![p] = r]
  BY DEF Replies
<1> QED BY <1>2, <1>3, <1>4, <1>5

LEMMA TerminalScans == ASSUME CodexInv, NEW p \in Terminals, Scans(p) PROVE CodexInv'
<1> DEFINE found == {g \in Guides : There(g)}
<1>1. proc[p] \in Opening /\ p \in DOMAIN proc
  BY InvFacts, TaskIs DEF Scans
<1>2. proc[p].kind \in Kinds /\ proc[p].began \in 0..now
  BY <1>1 DEF Opening
<1>3. rows' \subseteq Parses /\ UNCHANGED <<writes, now, scene, memory>>
  BY InvFacts DEF Scans, stores
<1>4. CASE found = {}
  <2>1. Replies(p, Fresh(p, <<>>))
    BY <1>4 DEF Scans
  <2>2. <<>> \in Seq(Found) /\ Range(<<>>) = {}
    BY DEF Range
  <2>3. \E r \in Tasks : proc' = [proc EXCEPT ![p] = r]
    BY <1>1, <1>2, <2>1, <2>2, FreshIs
  <2> QED BY <1>3, <2>3, TaskActs
<1>5. CASE found # {}
  <2> DEFINE r == [pc |-> "validate", kind |-> proc[p].kind, began |-> proc[p].began, guides |-> InPrecedence(found),
                  valid |-> <<>>]
  <2>1. proc' = [proc EXCEPT ![p] = r]
    BY <1>1, <1>5 DEF Scans
  <2>2. InPrecedence(found) \in Seq(Guides)
    BY InPrecedenceAre
  <2> HIDE DEF found
  <2>3. r \in Tasks
    BY <1>2, <2>2 DEF Tasks, Validating
  <2> QED BY <1>3, <2>1, <2>3, TaskActs
<1> QED BY <1>4, <1>5

\* A parse that goes on to its next guide.
LEMMA ValidatingGoes ==
    ASSUME NEW x \in Validating, NEW g, NEW v
    PROVE  [x EXCEPT !.guides = g, !.valid = v] =
              [pc |-> "validate", kind |-> x.kind, began |-> x.began, guides |-> g, valid |-> v]
<1>1. PICK k \in Kinds, b \in 0..now, h \in Seq(Guides), u \in Seq(Guides) :
         x = [pc |-> "validate", kind |-> k, began |-> b, guides |-> h, valid |-> u]
  BY DEF Validating
<1>2. [x EXCEPT !.guides = g, !.valid = v] = [pc |-> "validate", kind |-> k, began |-> b, guides |-> g, valid |-> v]
  <2> DEFINE y == [x EXCEPT !.guides = g]
  <2>1. y = [pc |-> "validate", kind |-> k, began |-> b, guides |-> g, valid |-> u]
    BY <1>1
  <2>2. [x EXCEPT !.guides = g, !.valid = v] = [y EXCEPT !.valid = v]
    OBVIOUS
  <2> HIDE DEF y
  <2>3. [y EXCEPT !.valid = v] = [pc |-> "validate", kind |-> k, began |-> b, guides |-> g, valid |-> v]
    BY <2>1
  <2> QED BY <2>2, <2>3
<1>3. x.kind = k /\ x.began = b
  BY <1>1
<1> QED BY <1>2, <1>3

LEMMA BuildingGoes ==
    ASSUME NEW x \in Building, NEW g, NEW v
    PROVE  [x EXCEPT !.guides = g, !.segments = v] =
              [pc |-> "build", kind |-> x.kind, began |-> x.began, guides |-> g, segments |-> v]
<1>1. PICK k \in Kinds, b \in 0..now, h \in Seq(Guides), u \in Seq(Found) :
         x = [pc |-> "build", kind |-> k, began |-> b, guides |-> h, segments |-> u]
  BY DEF Building
<1>2. [x EXCEPT !.guides = g, !.segments = v] = [pc |-> "build", kind |-> k, began |-> b, guides |-> g, segments |-> v]
  <2> DEFINE y == [x EXCEPT !.guides = g]
  <2>1. y = [pc |-> "build", kind |-> k, began |-> b, guides |-> g, segments |-> u]
    BY <1>1
  <2>2. [x EXCEPT !.guides = g, !.segments = v] = [y EXCEPT !.segments = v]
    OBVIOUS
  <2> HIDE DEF y
  <2>3. [y EXCEPT !.segments = v] = [pc |-> "build", kind |-> k, began |-> b, guides |-> g, segments |-> v]
    BY <2>1
  <2> QED BY <2>2, <2>3
<1>3. x.kind = k /\ x.began = b
  BY <1>1
<1> QED BY <1>2, <1>3

LEMMA TerminalValidates == ASSUME CodexInv, NEW p \in Terminals, Validates(p) PROVE CodexInv'
<1> DEFINE g == Head(proc[p].guides)
           valid == IF There(g) /\ Sound(Disk(g)) THEN Append(proc[p].valid, g) ELSE proc[p].valid
           r == [pc |-> "validate", kind |-> proc[p].kind, began |-> proc[p].began,
                 guides |-> Tail(proc[p].guides), valid |-> valid]
<1>1. proc[p] \in Validating /\ p \in DOMAIN proc /\ WritesOK /\ now \in Nat /\ proc[p].guides # <<>>
  BY InvFacts, TaskIs DEF Validates
<1>2. proc[p].kind \in Kinds /\ proc[p].began \in 0..now /\ proc[p].guides \in Seq(Guides)
      /\ proc[p].valid \in Seq(Guides) /\ \A k \in 1..Len(proc[p].valid) : WasSound(proc[p].valid[k], proc[p].began)
  BY <1>1 DEF Validating
<1>4. proc' = [proc EXCEPT ![p] = r]
  <2>1. proc' = [proc EXCEPT ![p] = [proc[p] EXCEPT !.guides = Tail(proc[p].guides), !.valid = valid]]
    BY <1>1 DEF Validates
  <2> HIDE DEF valid, g
  <2>2. [proc[p] EXCEPT !.guides = Tail(proc[p].guides), !.valid = valid] = r
    BY <1>1, ValidatingGoes
  <2> QED BY <2>1, <2>2
<1>5. g \in Guides /\ Tail(proc[p].guides) \in Seq(Guides)
  BY <1>1, <1>2
<1>6. ASSUME There(g), Sound(Disk(g)) PROVE WasSound(g, proc[p].began)
  <2>1. g \in ContextFiles
    BY <1>5, ByPathIs
  <2>2. Disk(g).flaws = {}
    BY <1>1, <1>6, <2>1, DiskIs, TextsAre DEF There, Sound
  <2>3. Len(writes[g]) \in DOMAIN writes[g] /\ Disk(g) = writes[g][Len(writes[g])].content
    BY <1>1, <2>1, WritesAre
  <2>4. Until(g, Len(writes[g])) > proc[p].began
    BY <1>1, <1>2, NowIs DEF Until
  <2> QED BY <2>2, <2>3, <2>4 DEF WasSound
<1> HIDE DEF g
<1>7. valid \in Seq(Guides) /\ \A k \in 1..Len(valid) : WasSound(valid[k], proc[p].began)
  <2>1. CASE There(g) /\ Sound(Disk(g))
    <3>1. valid = Append(proc[p].valid, g) /\ WasSound(g, proc[p].began)
      BY <1>6, <2>1
    <3>2. valid \in Seq(Guides) /\ \A k \in 1..Len(valid) : valid[k] = g \/ (k \in 1..Len(proc[p].valid) /\ valid[k] = proc[p].valid[k])
      BY <1>2, <1>5, <3>1
    <3> QED BY <1>2, <3>1, <3>2
  <2>2. CASE ~(There(g) /\ Sound(Disk(g)))
    BY <1>2, <2>2
  <2> QED BY <2>1, <2>2
<1> HIDE DEF valid
<1>8. r \in Validating
  BY <1>2, <1>5, <1>7 DEF Validating
<1>9. rows' \subseteq Parses /\ UNCHANGED <<writes, now, scene, memory>>
  BY InvFacts DEF Validates, stores
<1> HIDE DEF r
<1> QED BY <1>4, <1>8, <1>9, TaskActs DEF Tasks

LEMMA TerminalValidated == ASSUME CodexInv, NEW p \in Terminals, Validated(p) PROVE CodexInv'
<1> DEFINE r == [pc |-> "build", kind |-> proc[p].kind, began |-> proc[p].began,
                 guides |-> proc[p].valid, segments |-> <<>>]
<1>1. proc[p] \in Validating /\ p \in DOMAIN proc
  BY InvFacts, TaskIs DEF Validated
<1>2. proc' = [proc EXCEPT ![p] = r]
  BY <1>1 DEF Validated
<1>3. <<>> \in Seq(Found) /\ Range(<<>>) = {}
  BY DEF Range
<1>4. r \in Building
  BY <1>1, <1>3 DEF Validating, Building, Parsed
<1>5. rows' \subseteq Parses /\ UNCHANGED <<writes, now, scene, memory>>
  BY InvFacts DEF Validated, stores
<1> HIDE DEF r
<1> QED BY <1>2, <1>4, <1>5, TaskActs DEF Tasks

\* What a guide holds was sound when it was validated, or something sound in it was replaced since.
LEMMA BuiltIs ==
    ASSUME WritesOK, NEW g \in Guides, NEW b \in 0..now, There(g), WasSound(g, b),
           NEW s, s.guide = g, s.content = Disk(g)
    PROVE  SegmentOK(s, b, now)
<1>1. g \in ContextFiles /\ now \in Nat /\ b \in Nat /\ b <= now
  BY ByPathIs, NowIs
<1>2. Held(g, Disk(g), b)
  BY <1>1, DiskIs
<1>3. ASSUME Disk(g).flaws # {} PROVE Raced(g, b, now)
  <2>1. PICK k \in DOMAIN writes[g] : writes[g][k].content.flaws = {} /\ Until(g, k) > b
    BY DEF WasSound
  <2>2. /\ DOMAIN writes[g] = 1..Len(writes[g]) /\ Len(writes[g]) \in Nat \ {0}
        /\ \A j \in 1..Len(writes[g]) : writes[g][j].at \in Nat /\ writes[g][j].at <= now
        /\ Disk(g) = writes[g][Len(writes[g])].content
    BY <1>1, WritesAre
  <2>3. k # Len(writes[g])
    BY <1>3, <2>1, <2>2
  <2>4. k + 1 \in 1..Len(writes[g]) /\ Until(g, k) = writes[g][k + 1].at
    BY <2>2, <2>3 DEF Until
  <2>5. Until(g, k) \in b..now
    BY <1>1, <2>1, <2>2, <2>4
  <2> QED BY <2>1, <2>5 DEF Raced
<1> QED BY <1>2, <1>3 DEF SegmentOK

\* One more entry.
LEMMA OneMore == ASSUME NEW S, NEW q \in Seq(S), NEW x \in S
                 PROVE  Append(q, x) \in Seq(S) /\ \A y \in Range(Append(q, x)) : y \in Range(q) \/ y = x
<1>1. Append(q, x) \in Seq(S) /\ Len(q) \in Nat /\ Len(Append(q, x)) = Len(q) + 1
      /\ \A k \in 1..(Len(q) + 1) : Append(q, x)[k] = IF k <= Len(q) THEN q[k] ELSE x
  OBVIOUS
<1>2. \A k \in 1..(Len(q) + 1) : k <= Len(q) => k \in 1..Len(q)
  BY <1>1
<1>3. DOMAIN Append(q, x) = 1..(Len(q) + 1) /\ DOMAIN q = 1..Len(q)
  BY <1>1
<1>4. ASSUME NEW y \in Range(Append(q, x)) PROVE y \in Range(q) \/ y = x
  <2>1. PICK k \in 1..(Len(q) + 1) : y = Append(q, x)[k]
    BY <1>3 DEF Range
  <2>2. CASE k <= Len(q)
    <3>1. k \in DOMAIN q /\ y = q[k]
      BY <1>1, <1>2, <1>3, <2>1, <2>2
    <3> QED BY <3>1 DEF Range
  <2>3. CASE ~(k <= Len(q))
    BY <1>1, <2>1, <2>3
  <2> QED BY <2>2, <2>3
<1> QED BY <1>1, <1>4

LEMMA TerminalIncludes == ASSUME CodexInv, NEW p \in Terminals, Includes(p) PROVE CodexInv'
<1> DEFINE g == Head(proc[p].guides)
           s == [guide |-> g, content |-> Disk(g)]
           segments == IF There(g) THEN Append(proc[p].segments, s) ELSE proc[p].segments
           r == [pc |-> "build", kind |-> proc[p].kind, began |-> proc[p].began,
                 guides |-> Tail(proc[p].guides), segments |-> segments]
<1>1. proc[p] \in Building /\ p \in DOMAIN proc /\ WritesOK /\ now \in 0..now /\ proc[p].guides # <<>>
  BY InvFacts, TaskIs DEF Includes
<1>2. proc[p].kind \in Kinds /\ proc[p].began \in 0..now /\ proc[p].guides \in Seq(Guides)
      /\ proc[p].segments \in Seq(Found) /\ Parsed(proc[p].segments, proc[p].began)
      /\ \A k \in 1..Len(proc[p].guides) : WasSound(proc[p].guides[k], proc[p].began)
  BY <1>1 DEF Building
<1>4. proc' = [proc EXCEPT ![p] = r]
  <2>1. proc' = [proc EXCEPT ![p] = [proc[p] EXCEPT !.guides = Tail(proc[p].guides), !.segments = segments]]
    BY <1>1 DEF Includes
  <2> HIDE DEF segments, g
  <2>2. [proc[p] EXCEPT !.guides = Tail(proc[p].guides), !.segments = segments] = r
    BY <1>1, BuildingGoes
  <2> QED BY <2>1, <2>2
<1>5. /\ g \in Guides /\ WasSound(g, proc[p].began)
      /\ Tail(proc[p].guides) \in Seq(Guides)
      /\ \A k \in 1..Len(Tail(proc[p].guides)) : WasSound(Tail(proc[p].guides)[k], proc[p].began)
  <2>1. Len(proc[p].guides) \in Nat \ {0} /\ g = proc[p].guides[1] /\ 1 \in 1..Len(proc[p].guides)
    BY <1>1, <1>2
  <2>2. Tail(proc[p].guides) \in Seq(Guides)
        /\ \A k \in 1..Len(Tail(proc[p].guides)) :
              k + 1 \in 1..Len(proc[p].guides) /\ Tail(proc[p].guides)[k] = proc[p].guides[k + 1]
    BY <1>1, <1>2, <2>1
  <2> HIDE DEF g
  <2> QED BY <1>2, <2>1, <2>2
<1>6. s \in Found
  BY <1>1, <1>5, ByPathIs, DiskIs DEF Found
<1> HIDE DEF g
<1>7. There(g) => SegmentOK(s, proc[p].began, now)
  BY <1>1, <1>2, <1>5, BuiltIs
<1> HIDE DEF s
<1>8. segments \in Seq(Found) /\ Parsed(segments, proc[p].began)
  <2>1. CASE There(g)
    <3>1. segments \in Seq(Found) /\ \A y \in Range(segments) : y \in Range(proc[p].segments) \/ y = s
      BY <1>2, <1>6, <2>1, OneMore
    <3> QED BY <1>1, <1>2, <1>7, <2>1, <3>1 DEF Parsed
  <2>2. CASE ~There(g)
    BY <1>2, <2>2
  <2> QED BY <2>1, <2>2
<1> HIDE DEF segments
<1>9. r \in Building
  BY <1>2, <1>5, <1>8 DEF Building
<1>10. rows' \subseteq Parses /\ UNCHANGED <<writes, now, scene, memory>>
  BY InvFacts DEF Includes, stores
<1> HIDE DEF r
<1> QED BY <1>4, <1>9, <1>10, TaskActs DEF Tasks

\* What was read by now is an answer of now.
LEMMA ParsedIs ==
    ASSUME CodexInv, NEW q, NEW b \in 0..now, Parsed(q, b)
    PROVE  \A s \in Range(q) : SegmentOK(s, b, now)
<1> SUFFICES ASSUME NEW s \in Range(q) PROVE SegmentOK(s, b, now)
  OBVIOUS
<1>1. PICK u \in 0..now : SegmentOK(s, b, u)
  BY DEF Parsed
<1>2. b..u \subseteq b..now
  BY InvFacts
<1> QED BY <1>1, <1>2 DEF SegmentOK, Raced

LEMMA TerminalBuilds == ASSUME CodexInv, NEW p \in Terminals, Builds(p) PROVE CodexInv'
<1> DEFINE r == [pc |-> "store", kind |-> proc[p].kind, began |-> proc[p].began, segments |-> proc[p].segments]
<1>1. proc[p] \in Building /\ p \in DOMAIN proc
  BY InvFacts, TaskIs DEF Builds
<1>2. proc[p].kind \in Kinds /\ proc[p].began \in 0..now
      /\ proc[p].segments \in Seq(Found) /\ Parsed(proc[p].segments, proc[p].began)
  BY <1>1 DEF Building
<1>3. rows' \subseteq Parses /\ UNCHANGED <<writes, now, scene, memory>>
  BY InvFacts DEF Builds, stores
<1>4. CASE proc[p].kind \in Cached
  <2>1. proc' = [proc EXCEPT ![p] = r]
    BY <1>1, <1>4 DEF Builds
  <2>2. r \in Storing
    BY <1>2 DEF Storing
  <2> HIDE DEF r
  <2> QED BY <1>3, <2>1, <2>2, TaskActs DEF Tasks
<1>5. CASE proc[p].kind \notin Cached
  <2>1. Replies(p, Fresh(p, proc[p].segments))
    BY <1>5 DEF Builds
  <2>2. \E x \in Tasks : proc' = [proc EXCEPT ![p] = x]
    BY <1>1, <1>2, <2>1, FreshIs, ParsedIs
  <2> QED BY <1>3, <2>2, TaskActs
<1> QED BY <1>4, <1>5

LEMMA TerminalStores == ASSUME CodexInv, NEW p \in Terminals, Stores(p) PROVE CodexInv'
<1>1. proc[p] \in Storing /\ p \in DOMAIN proc
  BY InvFacts, TaskIs DEF Stores
<1>2. proc[p].kind \in Kinds /\ proc[p].began \in 0..now /\ proc[p].segments \in Seq(Found)
      /\ Parsed(proc[p].segments, proc[p].began)
  BY <1>1 DEF Storing
<1>3. \A s \in Range(proc[p].segments) : SegmentOK(s, proc[p].began, now)
  BY <1>2, ParsedIs
<1>4. Fresh(p, proc[p].segments) \in Parses /\ Replies(p, Fresh(p, proc[p].segments))
      /\ rows' = {x \in rows : x.segments # Fresh(p, proc[p].segments).segments} \cup {Fresh(p, proc[p].segments)}
  BY <1>1, <1>2, <1>3, FreshIs DEF Stores
<1>5. rows' \subseteq Parses
  BY <1>4, InvFacts
<1>6. \E x \in Tasks : proc' = [proc EXCEPT ![p] = x]
  BY <1>1, <1>2, <1>3, <1>4, FreshIs
<1> QED BY <1>5, <1>6, TaskActs DEF Stores

LEMMA TerminalFails == ASSUME CodexInv, NEW p \in Terminals, Fails(p) PROVE CodexInv'
<1>1. proc[p] \in Opening \cup Storing /\ p \in DOMAIN proc
  BY InvFacts, TaskIs DEF Fails
<1>2. proc[p].began \in 0..now
  BY <1>1 DEF Opening, Storing
<1>3. PICK r \in {[pc |-> "legacy", kind |-> "legacy", began |-> proc[p].began], Rest} :
         proc' = [proc EXCEPT ![p] = r]
  BY <1>1 DEF Fails
<1>4. r \in Tasks
  BY <1>2, <1>3 DEF Tasks, Falling
<1> QED BY <1>3, <1>4, InvFacts, TaskActs DEF Fails, stores

LEMMA TerminalFallsBack == ASSUME CodexInv, NEW p \in Terminals, FallsBack(p) PROVE CodexInv'
<1> DEFINE q == Kept(Read(Reachable(ByPath)))
           a == [segments |-> q, began |-> proc[p].began, at |-> now]
           r == [pc |-> "answered", kind |-> proc[p].kind, began |-> proc[p].began, answer |-> a]
<1>1. proc[p] \in Falling /\ p \in DOMAIN proc /\ WritesOK /\ now \in Nat
  BY InvFacts, TaskIs DEF FallsBack
<1>2. proc[p].kind = "legacy" /\ proc[p].began \in 0..now /\ proc[p].began \in Nat /\ proc[p].began <= now
  BY <1>1 DEF Falling
<1>3. q \in Seq(Found) /\ \A s \in Range(q) : s.guide \in Guides /\ s.content = Disk(s.guide)
  BY <1>1, ByPathIs, ReadIs, KeptIs
<1>4. proc' = [proc EXCEPT ![p] = r] /\ UNCHANGED <<writes, rows, now, scene, memory>>
  BY <1>1 DEF FallsBack, Replies, Fresh, stores
<1> HIDE DEF q
<1>5. \A s \in Range(q) : Held(s.guide, s.content, proc[p].began)
  BY <1>1, <1>2, <1>3, ByPathIs, DiskIs
<1>6. a \in Readings
  BY <1>1, <1>2, <1>3, <1>5 DEF Readings
<1>7. r \in Fallen
  BY <1>1, <1>2, <1>6 DEF Fallen
<1> HIDE DEF a, r
<1> QED BY <1>4, <1>7, InvFacts, TaskActs DEF Tasks

LEMMA TerminalRests ==
    ASSUME CodexInv, NEW p \in Terminals, proc' = [proc EXCEPT ![p] = Rest], UNCHANGED <<stores, memory>>
    PROVE  CodexInv'
BY InvFacts, TaskActs DEF Tasks, stores

-----------------------------------------------------------------------------
(* The steps of consoles.                                                   *)

LEMMA MemoryIs ==
    ASSUME CodexInv, NEW c \in Consoles PROVE memory[c] \in {<<>>} \cup {<<n>> : n \in Contexts}
BY DEF CodexInv

LEMMA ConsoleStarts ==
    ASSUME CodexInv, NEW c \in Consoles, "prompt" \in scene.typed, Starts(c, "prompt") PROVE CodexInv'
<1> DEFINE r == [pc |-> "scan", kind |-> "prompt", began |-> now]
<1>1. "prompt" \in Kinds /\ now \in 0..now
  BY InvFacts DEF CodexInv, Kinds
<1>2. r \in Prompts
  BY <1>1 DEF Prompts, Opening
<1>3. proc' = [proc EXCEPT ![c] = r] /\ UNCHANGED <<writes, rows, now, scene, memory>>
  BY DEF Starts, Cached
<1> HIDE DEF r
<1> QED BY <1>2, <1>3, MemoryIs, PromptActs

\* What is watched is a watch: a moment and a size for some of the files.
LEMMA WatchIs ==
    ASSUME WritesOK, NEW some, some \subseteq ContextFiles
    PROVE  /\ Watch(some) \in Watches
           /\ \A f \in some : There(f) => f \in DOMAIN Watch(some) /\ Watch(some)[f].at = Stat(f)
<1> DEFINE there == {g \in some : There(g)}
           range == [at : Nat, size : {t.size : t \in Texts}]
<1>1. Watch(some) = [f \in there |-> [at |-> Stat(f), size |-> Disk(f).size]]
  BY DEF Watch
<1>2. ASSUME NEW f \in there PROVE [at |-> Stat(f), size |-> Disk(f).size] \in range
  <2>1. Len(writes[f]) \in 1..Len(writes[f]) /\ Stat(f) = writes[f][Len(writes[f])].at
    BY WritesAre
  <2>2. Stat(f) \in Nat
    BY <2>1, WritesAre
  <2>3. Disk(f) \in Texts
    BY DiskIs
  <2> QED BY <2>2, <2>3
<1>3. there \in SUBSET ContextFiles
  OBVIOUS
<1> HIDE DEF there, range
<1>4. Watch(some) \in [there -> range]
  BY <1>1, <1>2
<1>5. Watch(some) \in Watches
  BY <1>3, <1>4 DEF Watches, range
<1>6. \A f \in some : There(f) => f \in there
  BY DEF there
<1> QED BY <1>1, <1>5, <1>6

LEMMA OverIs ==
    ASSUME NEW later \in Watches, NEW earlier \in Watches
    PROVE  /\ Over(later, earlier) \in Watches
           /\ \A f \in DOMAIN later : f \in DOMAIN Over(later, earlier) /\ Over(later, earlier)[f] = later[f]
<1> DEFINE range == [at : Nat, size : {t.size : t \in Texts}]
<1>1. PICK A \in SUBSET ContextFiles : later \in [A -> range]
  BY DEF Watches
<1>2. PICK B \in SUBSET ContextFiles : earlier \in [B -> range]
  BY DEF Watches
<1> HIDE DEF range
<1>3. Over(later, earlier) = [f \in A \cup B |-> IF f \in A THEN later[f] ELSE earlier[f]]
  BY <1>1, <1>2 DEF Over
<1>4. Over(later, earlier) \in [A \cup B -> range]
  BY <1>1, <1>2, <1>3
<1>5. A \cup B \in SUBSET ContextFiles
  OBVIOUS
<1>6. Over(later, earlier) \in Watches
  BY <1>4, <1>5 DEF Watches, range
<1> QED BY <1>1, <1>3, <1>6

LEMMA ConsoleReadsGuides == ASSUME CodexInv, NEW c \in Consoles, ReadsGuides(c) PROVE CodexInv'
<1> DEFINE found == Read(Reachable(ByPath))
           r == [pc |-> "watch", began |-> proc[c].began, watches |-> <<>>, found |-> found]
<1>1. proc[c] \in Opening /\ c \in DOMAIN proc /\ WritesOK
  BY InvFacts, PromptIs DEF ReadsGuides
<1>2. proc[c].began \in 0..now
  BY <1>1 DEF Opening
<1>3. proc' = [proc EXCEPT ![c] = r] /\ UNCHANGED <<writes, rows, now, scene, memory>>
  BY <1>1 DEF ReadsGuides, stores
<1>4. found \in Seq(Found) /\ \A s \in Range(found) : s.content = Disk(s.guide) /\ There(s.guide)
  BY <1>1, ByPathIs, ReadIs
<1> HIDE DEF found
<1>5. \A s \in Range(found) : SeenOK(s, proc[c].began)
  BY <1>4 DEF SeenOK, There
<1>6. <<>> \in Watches
  <2>1. <<>> \in [{} -> [at : Nat, size : {t.size : t \in Texts}]]
    OBVIOUS
  <2> QED BY <2>1 DEF Watches
<1>7. r \in Gathering
  BY <1>2, <1>4, <1>5, <1>6 DEF Gathering
<1> HIDE DEF r
<1> QED BY <1>3, <1>7, MemoryIs, PromptActs DEF Prompts

\* Looking at more files leaves what was found.
LEMMA ConsoleNotes ==
    ASSUME CodexInv, NEW c \in Consoles, proc[c].pc \in {"watch", "readme", "artifacts", "finish"},
           NEW pc \in {"readme", "artifacts", "finish"}, NEW some, some \subseteq ContextFiles,
           Notes(c, pc, Watch(some)), UNCHANGED <<stores, memory>>
    PROVE  CodexInv'
<1> DEFINE watches == Over(Watch(some), proc[c].watches)
           r == [pc |-> pc, began |-> proc[c].began, found |-> proc[c].found, watches |-> watches]
<1>1. proc[c] \in Gathering /\ c \in DOMAIN proc /\ WritesOK
  BY InvFacts, PromptIs
<1>2. proc[c].began \in 0..now /\ proc[c].found \in Seq(Found) /\ proc[c].watches \in Watches
      /\ \A s \in Range(proc[c].found) : SeenOK(s, proc[c].began)
  BY <1>1 DEF Gathering
<1>3. watches \in Watches
  BY <1>1, <1>2, WatchIs, OverIs
<1>4. proc' = [proc EXCEPT ![c] = r] /\ UNCHANGED <<writes, rows, now, scene, memory>>
  BY <1>1 DEF Notes, stores
<1> HIDE DEF watches
<1>5. r \in Gathering
  BY <1>2, <1>3 DEF Gathering
<1> HIDE DEF r
<1> QED BY <1>4, <1>5, MemoryIs, PromptActs DEF Prompts

LEMMA ConsoleLooksAround ==
    ASSUME CodexInv, NEW c \in Consoles, WatchesGuides(c) \/ ReadsReadme(c) \/ FindsArtifacts(c) PROVE CodexInv'
<1>1. CASE WatchesGuides(c)
  <2> DEFINE some == {s.guide : s \in Range(Kept(proc[c].found))}
  <2>1. proc[c] \in Gathering
    BY <1>1, InvFacts, PromptIs DEF WatchesGuides
  <2>2. proc[c].found \in Seq(Found)
    BY <2>1 DEF Gathering
  <2>3. \A s \in Range(Kept(proc[c].found)) : s \in Found
    BY <2>2, KeptIs, Entries
  <2>4. some \subseteq ContextFiles
    BY <2>3, ByPathIs DEF Found
  <2> QED BY <1>1, <2>4, ConsoleNotes DEF WatchesGuides
<1>2. CASE ReadsReadme(c)
  BY <1>2, ConsoleNotes DEF ReadsReadme, ContextFiles
<1>3. CASE FindsArtifacts(c)
  BY <1>3, ConsoleNotes DEF FindsArtifacts, ContextFiles
<1> QED BY <1>1, <1>2, <1>3

LEMMA ConsoleBuilds ==
    ASSUME CodexInv, NEW c \in Consoles, TakesCached(c) \/ Caches(c) PROVE CodexInv'
<1>1. proc[c] \in Gathering /\ c \in DOMAIN proc /\ WritesOK /\ now \in Nat
  BY InvFacts, PromptIs DEF TakesCached, Caches
<1>2. proc[c].began \in 0..now /\ proc[c].found \in Seq(Found) /\ proc[c].watches \in Watches
      /\ \A s \in Range(proc[c].found) : SeenOK(s, proc[c].began)
  BY <1>1 DEF Gathering
<1>3. CASE TakesCached(c)
  <2>1. PICK m \in Contexts : memory[c] = <<m>>
    <3>1. memory[c] # <<>>
      BY <1>3 DEF TakesCached, StillStands, Range
    <3> QED BY <3>1, MemoryIs
  <2>2. memory[c][1] = m /\ m.segments \in Seq(Found)
    BY <2>1 DEF Contexts
  <2>3. [pc |-> "built", segments |-> m.segments] \in Prompts
    BY <2>2 DEF Prompts
  <2>4. proc' = [proc EXCEPT ![c] = [pc |-> "built", segments |-> m.segments]]
        /\ UNCHANGED <<writes, rows, now, scene, memory>>
    BY <1>3, <2>2 DEF TakesCached, stores
  <2> QED BY <2>3, <2>4, MemoryIs, PromptActs
<1>4. CASE Caches(c)
  <2> DEFINE kept == Kept(proc[c].found)
             again == Known(c) \cup ({Readme} \cap DOMAIN proc[c].watches)
             watches == Over(Watch(again), proc[c].watches)
             m == [segments |-> kept, began |-> proc[c].began, ended |-> now, watches |-> watches]
             r == [pc |-> "built", segments |-> kept]
  <2>1. proc' = [proc EXCEPT ![c] = r] /\ memory' = [memory EXCEPT ![c] = <<m>>]
        /\ UNCHANGED <<writes, rows, now, scene>>
    BY <1>1, <1>4 DEF Caches, stores
  <2>2. kept \in Seq(Found) /\ Range(kept) \subseteq Range(proc[c].found)
    BY <1>2, KeptIs
  <2>3. \A s \in Range(proc[c].found) : s \in Found /\ s.guide \in Known(c) /\ s.guide \in ContextFiles
    <3>1. \A s \in Range(proc[c].found) : s \in Found
      BY <1>2, Entries
    <3> QED BY <3>1, ByPathIs DEF Known, Found
  <2>4. again \subseteq ContextFiles
    BY <2>3 DEF Known, ContextFiles
  <2>5. Watch(again) \in Watches
        /\ \A f \in again : There(f) => f \in DOMAIN Watch(again) /\ Watch(again)[f].at = Stat(f)
    BY <1>1, <2>4, WatchIs
  <2>6. watches \in Watches
        /\ \A f \in again : There(f) => f \in DOMAIN watches /\ watches[f].at = Stat(f)
    BY <1>2, <2>5, OverIs
  <2>7. ASSUME NEW s \in Range(kept) PROVE WatchedOK(s, m)
    <3>1. SeenOK(s, proc[c].began) /\ s.guide \in again /\ s.guide \in ContextFiles
      BY <1>2, <2>2, <2>3
    <3>2. CASE EditedIn(s.guide, proc[c].began, now)
      BY <3>2 DEF WatchedOK
    <3>3. CASE s.content = Disk(s.guide)
      <4>1. There(s.guide)
        BY <3>1, <3>3 DEF SeenOK, There
      <4>2. s.guide \in DOMAIN watches /\ watches[s.guide].at = Stat(s.guide)
        BY <2>6, <3>1, <4>1
      <4>3. /\ Len(writes[s.guide]) \in DOMAIN writes[s.guide]
            /\ writes[s.guide][Len(writes[s.guide])].content = s.content
            /\ writes[s.guide][Len(writes[s.guide])].at = Stat(s.guide)
        BY <1>1, <3>1, <3>3, WritesAre
      <4> HIDE DEF watches
      <4>4. s.guide \in DOMAIN m.watches /\ m.watches[s.guide].at = Stat(s.guide)
        BY <4>2
      <4> HIDE DEF m
      <4> QED BY <4>3, <4>4 DEF WatchedOK
    <3> QED BY <3>1, <3>2, <3>3 DEF SeenOK
  <2> HIDE DEF kept, again, watches
  <2>8. proc[c].began \in Nat
    BY <1>1, <1>2
  <2>9. m \in Contexts
    <3>1. m \in [segments : Seq(Found), began : Nat, ended : Nat, watches : Watches] /\ m.segments = kept
      BY <1>1, <2>2, <2>6, <2>8
    <3> HIDE DEF m
    <3> QED BY <2>7, <3>1 DEF Contexts
  <2>10. r \in Prompts
    BY <2>2 DEF Prompts
  <2> HIDE DEF m, r
  <2> QED BY <2>1, <2>9, <2>10, PromptActs
<1> QED BY <1>3, <1>4

LEMMA ConsoleRests ==
    ASSUME CodexInv, NEW c \in Consoles, proc' = [proc EXCEPT ![c] = Rest],
           UNCHANGED memory \/ memory' = [memory EXCEPT ![c] = <<>>], UNCHANGED stores
    PROVE  CodexInv'
<1>1. Rest \in Prompts
  BY DEF Prompts
<1> QED BY <1>1, PromptActs DEF stores

-----------------------------------------------------------------------------
(* The invariant, and what follows from it.                                 *)

LEMMA CodexInit_Inv == ASSUME CodexInit PROVE CodexInv
<1>1. PICK sc \in Scenes : CodexStart(sc)
  BY DEF CodexInit
<1>2. scene = sc /\ now = 1 /\ rows = {} /\ proc = [p \in Terminals \cup Consoles |-> Rest]
      /\ memory = [c \in Consoles |-> <<>>]
      /\ writes = [f \in ContextFiles |-> <<[content |-> sc.first[f], at |-> 0]>>]
  BY <1>1 DEF CodexStart
<1>3. 1 \in 1..MaxTime
  BY CodexAssumption
<1>4. ASSUME NEW f \in ContextFiles
      PROVE  /\ writes[f] \in Seq(Written) /\ writes[f] # <<>>
             /\ \A k \in 1..Len(writes[f]) : writes[f][k].at <= 1
             /\ \A j, k \in 1..Len(writes[f]) : j < k => writes[f][j].at < writes[f][k].at
  <2> DEFINE w == [content |-> sc.first[f], at |-> 0]
  <2>1. writes[f] = <<w>> /\ w \in Written /\ w.at = 0
    BY <1>2 DEF Written, Texts
  <2> HIDE DEF w
  <2> QED BY <2>1
<1>5. WritesOK
  BY <1>2, <1>3, <1>4 DEF WritesOK
<1>6. Rest \in Tasks /\ Rest \in Prompts
  BY DEF Tasks, Prompts
<1> QED BY <1>2, <1>5, <1>6 DEF CodexInv

LEMMA CodexStep_Inv == ASSUME CodexInv, [CodexStep]_codexVars PROVE CodexInv'
<1>1. WritesOK /\ scene \in Scenes /\ scene.edited \subseteq ContextFiles
  BY CodexAssumption DEF CodexInv
<1>2. ASSUME NEW f \in scene.edited, NEW content \in Contents \cup {Absent}, Edits(f, content) PROVE CodexInv'
  <2>1. WritesOK' /\ Grows
    BY <1>1, <1>2, EditGrows
  <2> QED BY <1>2, <2>1, FilesAct DEF Edits
<1>3. ASSUME Ticks PROVE CodexInv'
  <2>1. WritesOK' /\ Grows
    BY <1>1, <1>3, TickGrows
  <2> QED BY <1>3, <2>1, FilesAct DEF Ticks
<1>4. ASSUME NEW p \in Terminals,
             \/ \E kind \in scene.typed \ {"prompt"} : Starts(p, kind)
             \/ Clears(p) \/ LooksUp(p) \/ Scans(p)
             \/ Validates(p) \/ Validated(p) \/ Includes(p) \/ Builds(p)
             \/ Stores(p) \/ Fails(p) \/ FallsBack(p)
      PROVE  CodexInv'
  <2>1. CASE \E kind \in scene.typed \ {"prompt"} : Starts(p, kind)
    BY <2>1, TerminalStarts
  <2> QED BY <1>4, <2>1, TerminalClears, TerminalLooksUp, TerminalScans, TerminalValidates,
             TerminalValidated, TerminalIncludes, TerminalBuilds, TerminalStores, TerminalFails, TerminalFallsBack
<1>5. ASSUME NEW c \in Consoles,
             \/ "prompt" \in scene.typed /\ Starts(c, "prompt")
             \/ ReadsGuides(c) \/ WatchesGuides(c) \/ ReadsReadme(c) \/ FindsArtifacts(c)
             \/ TakesCached(c) \/ Caches(c) \/ Restarts(c)
      PROVE  CodexInv'
  <2>1. CASE Restarts(c)
    BY <2>1, ConsoleRests DEF Restarts
  <2> QED BY <1>5, <2>1, ConsoleStarts, ConsoleReadsGuides, ConsoleLooksAround, ConsoleBuilds
<1>6. ASSUME NEW p \in Terminals \cup Consoles, Closes(p) PROVE CodexInv'
  BY <1>6, TerminalRests, ConsoleRests DEF Closes
<1>7. CASE UNCHANGED codexVars
  <2>1. WritesOK' /\ Grows
    BY <1>1, <1>7, QuietGrows DEF codexVars
  <2> QED BY <1>7, <2>1, FilesAct DEF codexVars
<1> QED BY <1>2, <1>3, <1>4, <1>5, <1>6, <1>7 DEF CodexStep

LEMMA CodexInvHolds == CodexSpec => []CodexInv
<1>1. CodexInit => CodexInv
  BY CodexInit_Inv
<1>2. CodexInv /\ [CodexStep]_codexVars => CodexInv'
  BY CodexStep_Inv
<1> QED BY <1>1, <1>2, PTL DEF CodexSpec

LEMMA GuidesSound == ASSUME CodexInv, West <= 0 PROVE GuidesAreSound
<1> SUFFICES ASSUME NEW p \in Terminals, Answered(p)
             PROVE  /\ \A s \in Range(proc[p].answer.segments) :
                          /\ Held(s.guide, s.content, proc[p].answer.began)
                          /\ proc[p].kind # "legacy" /\ s.content.flaws # {} =>
                                \E k \in DOMAIN writes[s.guide] :
                                   /\ writes[s.guide][k].content.flaws = {}
                                   /\ Until(s.guide, k) \in proc[p].answer.began..proc[p].answer.at
                    /\ proc[p].began - proc[p].answer.at <= Ttl
  BY DEF GuidesAreSound, SegmentsWereThere, UnsoundOnlyByRace
<1>1. proc[p] \in Answering \cup Fallen /\ now \in Nat
  BY InvFacts, TaskIs DEF Answered
<1>2. CASE proc[p] \in Fallen
  <2>1. /\ proc[p].answer \in Readings /\ proc[p].began \in 0..now
        /\ proc[p].began <= proc[p].answer.at /\ proc[p].kind = "legacy"
    BY <1>2 DEF Fallen
  <2>2. proc[p].answer.at \in Nat
        /\ \A s \in Range(proc[p].answer.segments) : Held(s.guide, s.content, proc[p].answer.began)
    BY <2>1 DEF Readings
  <2>3. proc[p].began - proc[p].answer.at <= Ttl
    BY <1>1, <2>1, <2>2, CodexAssumption
  <2> QED BY <2>1, <2>2, <2>3
<1>3. CASE proc[p] \in Answering
  <2>1. /\ proc[p].answer \in Parses /\ proc[p].began \in 0..now
        /\ proc[p].began <= proc[p].answer.at \/ proc[p].began - (proc[p].answer.at + West) <= Ttl
    BY <1>3 DEF Answering
  <2>2. /\ \A s \in Range(proc[p].answer.segments) : SegmentOK(s, proc[p].answer.began, proc[p].answer.at)
        /\ proc[p].answer.at \in Nat
    BY <2>1 DEF Parses
  <2>3. proc[p].began - proc[p].answer.at <= Ttl
    <3>1. proc[p].began \in Nat
      BY <1>1, <2>1
    <3>2. \A b, a \in Nat : b <= a \/ b - (a + West) <= Ttl => b - a <= Ttl
      BY CodexAssumption
    <3> QED BY <2>1, <2>2, <3>1, <3>2
  <2> QED BY <2>2, <2>3 DEF SegmentOK, Raced
<1> QED BY <1>1, <1>2, <1>3

\* Every segment of the directives a command is given was in its file at some moment since the parse
\* that read it began, that parse is no older than the validity of a row, and an unsound file gets in
\* only if a sound one was replaced while it was parsed, or by way of the legacy parser after a failure
\* (src/instructions/parser.ts, src/cli/codex-context.ts), wherever the local clock is not behind UTC.
THEOREM GuidesStaySound == ASSUME West <= 0 PROVE CodexSpec => []GuidesAreSound
<1>1. CodexInv => GuidesAreSound
  BY GuidesSound
<1> QED BY <1>1, CodexInvHolds, PTL

LEMMA CachedIsCurrent ==
    ASSUME CodexInv, NEW c \in Consoles, TakesCached(c), NEW s \in Range(memory[c][1].segments)
    PROVE  Disk(s.guide) = s.content \/ EditedIn(s.guide, memory[c][1].began, memory[c][1].ended)
<1>1. PICK m \in Contexts : memory[c] = <<m>>
  <2>1. memory[c] # <<>>
    BY DEF TakesCached, StillStands, Range
  <2> QED BY <2>1, MemoryIs
<1>2. memory[c][1] = m /\ Range(memory[c]) = {m}
  BY <1>1 DEF Range
<1>3. s \in Range(m.segments) /\ m.segments \in Seq(Found) /\ WatchedOK(s, m)
  BY <1>2 DEF Contexts
<1>4. s.guide \in ContextFiles /\ WritesOK
  <2>1. s \in Found
    BY <1>3, Entries
  <2> QED BY <2>1, ByPathIs, InvFacts DEF Found
<1>5. CASE EditedIn(s.guide, m.began, m.ended)
  BY <1>2, <1>5
<1>6. CASE ~EditedIn(s.guide, m.began, m.ended)
  <2>1. s.guide \in DOMAIN m.watches
    BY <1>3, <1>6 DEF WatchedOK
  <2>2. PICK k \in DOMAIN writes[s.guide] :
           writes[s.guide][k].content = s.content /\ writes[s.guide][k].at = m.watches[s.guide].at
    BY <1>3, <1>6 DEF WatchedOK
  <2>3. Stat(s.guide) = m.watches[s.guide].at
    BY <1>2, <2>1 DEF TakesCached, StillStands, Unchanged
  <2>4. /\ DOMAIN writes[s.guide] = 1..Len(writes[s.guide]) /\ Len(writes[s.guide]) \in Nat \ {0}
        /\ \A j \in 1..Len(writes[s.guide]) : writes[s.guide][j].at \in Nat
        /\ Disk(s.guide) = writes[s.guide][Len(writes[s.guide])].content
        /\ Stat(s.guide) = writes[s.guide][Len(writes[s.guide])].at
    BY <1>4, WritesAre
  <2>5. \A i, j \in 1..Len(writes[s.guide]) : i < j => writes[s.guide][i].at < writes[s.guide][j].at
    BY <1>4 DEF WritesOK
  <2>6. k \in 1..Len(writes[s.guide]) /\ Len(writes[s.guide]) \in 1..Len(writes[s.guide])
    BY <2>4
  <2>7. writes[s.guide][k].at = writes[s.guide][Len(writes[s.guide])].at
    BY <2>2, <2>3, <2>4
  <2>8. ~(k < Len(writes[s.guide]))
    BY <2>4, <2>5, <2>6, <2>7
  <2>9. k = Len(writes[s.guide])
    BY <2>4, <2>6, <2>8
  <2> QED BY <2>2, <2>4, <2>9
<1> QED BY <1>5, <1>6

\* A context that is taken from memory holds what its guides hold now, unless one was edited while it
\* was put together: the watches taken at its end were not enough otherwise (src/cli/codex-context.ts).
THEOREM MemoryStaysCurrent == CodexSpec => MemoryIsCurrent
<1> DEFINE Current ==
        \A c \in Consoles :
          TakesCached(c) =>
              \A s \in Range(memory[c][1].segments) :
                  Disk(s.guide) = s.content \/ EditedIn(s.guide, memory[c][1].began, memory[c][1].ended)
<1>1. CodexInv => Current
  BY CachedIsCurrent
<1>2. CodexInv => [Current]_codexVars
  BY <1>1
<1> HIDE DEF Current
<1>3. []CodexInv => [][Current]_codexVars
  BY <1>2, PTL
<1> USE DEF Current
<1> QED BY <1>3, CodexInvHolds, PTL DEF MemoryIsCurrent
=============================================================================
