----------------------------- MODULE AiSessionProofs -----------------------------
(***************************************************************************)
(* Proofs about AiSession, for any sessions, terminals, calls and          *)
(* configurations.                                                         *)
(*                                                                         *)
(* The breaker is inductive by itself.  That a session's files and routing *)
(* agree is not: between the write of the files and the update of the      *)
(* registry the launch is only in the call that carries it, so the         *)
(* invariant says of every launch and switch under way that the files are   *)
(* its own, and of every session that it has at most one of them.           *)
(*                                                                         *)
(* What a launch writes, and what an entry of the model list stands for,    *)
(* is a matter of lists: which elements a list that is selected from,       *)
(* flattened, sorted or rid of repetitions has, and how often.  The first   *)
(* part says so, by induction on the sequences that are flattened; the      *)
(* second says it of the providers, models and agents of a configuration.   *)
(***************************************************************************)
EXTENDS AiSession, FiniteSetTheorems, WellFoundedInduction, TLAPS

-----------------------------------------------------------------------------
(* Lists                                                                   *)

(* A set of numbers has a least one: the induction of the lists below.     *)
LEMMA Least ==
  ASSUME NEW T \in SUBSET Nat, T # {}
  PROVE  \E m \in T : \A n \in T : m <= n
<1> DEFINE F == {0..n : n \in T}
<1>1. F \subseteq FiniteSubsetsOf(Nat) /\ F # {}
  <2>1. \A n \in T : 0..n \in SUBSET Nat /\ IsFiniteSet(0..n)
    BY FS_Interval
  <2>2. QED
    BY <2>1 DEF FiniteSubsetsOf
<1>2. PICK x \in F : \A y \in F : ~(<<y, x>> \in StrictSubsetOrdering(Nat))
  BY <1>1, FS_StrictSubsetOrderingWellFounded, WFMin
<1>3. PICK m \in T : x = 0..m
  BY <1>2
<1>4. ASSUME NEW n \in T, n < m PROVE FALSE
  <2>1. 0..n \in SUBSET Nat /\ 0..m \in SUBSET Nat
    OBVIOUS
  <2>2. 0..n \subseteq 0..m /\ m \in 0..m /\ m \notin 0..n
    BY <1>4
  <2>3. <<0..n, 0..m>> \in StrictSubsetOrdering(Nat)
    BY <2>1, <2>2 DEF StrictSubsetOrdering
  <2>4. QED
    BY <1>2, <1>3, <2>3
<1>5. QED
  BY <1>4

(* The flattening of the first i of the sequences ss, for each i to m.     *)
IsFlattening(ss, m, f) ==
  f = [i \in 1..m |-> IF i = 1 THEN ss[i] ELSE f[i - 1] \o ss[i]]

(* The flattening, which FlattenSeq defines by recursion, exists: a least  *)
(* number of sequences without one has none before it.                     *)
LEMMA FlatteningExists ==
  ASSUME NEW ss, NEW m \in Nat
  PROVE  \E f : IsFlattening(ss, m, f)
<1> DEFINE Bad == {n \in 0..m : ~\E f : IsFlattening(ss, n, f)}
<1>1. SUFFICES ASSUME Bad # {} PROVE FALSE
  OBVIOUS
<1>2. PICK n \in Bad : \A k \in Bad : n <= k
  <2>1. Bad \in SUBSET Nat
    OBVIOUS
  <2>2. QED
    BY <1>1, <2>1, Least
<1>3. n \in Nat /\ n <= m
  OBVIOUS
<1>4. CASE n = 0
  <2>1. IsFlattening(ss, 0, <<>>)
    BY DEF IsFlattening
  <2>2. QED
    BY <1>4, <2>1
<1>5. CASE n > 0
  <2>1. PICK f : IsFlattening(ss, n - 1, f)
    <3>1. n - 1 \in 0..m /\ ~(n <= n - 1)
      BY <1>3, <1>5
    <3>2. n - 1 \notin Bad
      BY <1>2, <3>1
    <3>3. QED
      BY <3>1, <3>2
  <2> DEFINE g == [i \in 1..n |-> IF i < n THEN f[i]
                                  ELSE IF i = 1 THEN ss[i] ELSE f[i - 1] \o ss[i]]
  <2>2. ASSUME NEW i \in 1..n
        PROVE  g[i] = IF i = 1 THEN ss[i] ELSE g[i - 1] \o ss[i]
    <3>1. CASE i < n
      <4>1. f[i] = IF i = 1 THEN ss[i] ELSE f[i - 1] \o ss[i]
        <5>1. i \in 1..(n - 1)
          BY <1>3, <3>1
        <5>2. f = [j \in 1..(n - 1) |-> IF j = 1 THEN ss[j] ELSE f[j - 1] \o ss[j]]
          BY <2>1 DEF IsFlattening
        <5> HIDE DEF g
        <5>3. QED
          BY <5>1, <5>2
      <4>2. g[i] = f[i] /\ (i # 1 => g[i - 1] = f[i - 1])
        BY <1>3, <3>1
      <4>3. QED
        BY <4>1, <4>2
    <3>2. CASE i = n
      <4>1. g[i] = IF i = 1 THEN ss[i] ELSE f[i - 1] \o ss[i]
        BY <1>3, <3>2
      <4>2. i # 1 => g[i - 1] = f[i - 1]
        BY <1>3, <3>2
      <4>3. QED
        BY <4>1, <4>2
    <3>3. QED
      BY <1>3, <3>1, <3>2
  <2>3. g = [i \in 1..n |-> IF i = 1 THEN ss[i] ELSE g[i - 1] \o ss[i]]
    <3>1. g = [i \in 1..n |-> g[i]]
      OBVIOUS
    <3> HIDE DEF g
    <3>2. QED
      BY <2>2, <3>1
  <2>4. IsFlattening(ss, n, g)
    <3> HIDE DEF g
    <3>1. QED
      BY <2>3 DEF IsFlattening
  <2>5. QED
    BY <2>4
<1>6. QED
  BY <1>3, <1>4, <1>5

(* So the flattening of a list of sequences is the last of its steps.      *)
LEMMA FlattenIs ==
  ASSUME NEW ss, Len(ss) \in Nat, Len(ss) # 0
  PROVE  \E f : IsFlattening(ss, Len(ss), f) /\ FlattenSeq(ss) = f[Len(ss)]
<1> DEFINE f == CHOOSE f : IsFlattening(ss, Len(ss), f)
<1>1. IsFlattening(ss, Len(ss), f)
  BY FlatteningExists
<1>2. FlattenSeq(ss) = f[Len(ss)]
  BY DEF FlattenSeq, IsFlattening
<1> HIDE DEF f
<1>3. QED
  BY <1>1, <1>2

(* What two sequences hold together, and when without repetition.          *)
LEMMA Concatenation ==
  ASSUME NEW U, NEW s \in Seq(U), NEW t \in Seq(U)
  PROVE  /\ s \o t \in Seq(U)
         /\ ToSet(s \o t) = ToSet(s) \cup ToSet(t)
         /\ IsInjective(s) /\ IsInjective(t) /\ ToSet(s) \cap ToSet(t) = {} => IsInjective(s \o t)
<1>1. s \o t \in Seq(U) /\ DOMAIN (s \o t) = 1..(Len(s) + Len(t))
  OBVIOUS
<1>2. /\ DOMAIN s = 1..Len(s) /\ DOMAIN t = 1..Len(t) /\ Len(s) \in Nat /\ Len(t) \in Nat
  OBVIOUS
<1>3. /\ \A i \in DOMAIN s : i \in DOMAIN (s \o t) /\ (s \o t)[i] = s[i]
      /\ \A i \in DOMAIN t : i + Len(s) \in DOMAIN (s \o t) /\ (s \o t)[i + Len(s)] = t[i]
      /\ \A i \in DOMAIN (s \o t) :
            \/ i \in DOMAIN s /\ (s \o t)[i] = s[i]
            \/ i \notin DOMAIN s /\ i - Len(s) \in DOMAIN t /\ (s \o t)[i] = t[i - Len(s)]
  BY <1>1, <1>2
<1>4. ToSet(s \o t) = ToSet(s) \cup ToSet(t)
  <2>1. ToSet(s \o t) \subseteq ToSet(s) \cup ToSet(t)
    BY <1>3 DEF ToSet
  <2>2. \A i \in DOMAIN s : s[i] \in ToSet(s \o t)
    BY <1>3 DEF ToSet
  <2>3. \A i \in DOMAIN t : t[i] \in ToSet(s \o t)
    BY <1>3 DEF ToSet
  <2>4. ToSet(s) \subseteq ToSet(s \o t)
    BY <2>2 DEF ToSet
  <2>5. ToSet(t) \subseteq ToSet(s \o t)
    BY <2>3 DEF ToSet
  <2>6. QED
    BY <2>1, <2>4, <2>5
<1>5. ASSUME IsInjective(s), IsInjective(t), ToSet(s) \cap ToSet(t) = {}
      PROVE  IsInjective(s \o t)
  <2>1. \A i \in DOMAIN s : \A j \in DOMAIN t : s[i] # t[j]
    BY <1>5 DEF ToSet
  <2>2. SUFFICES ASSUME NEW i \in DOMAIN (s \o t), NEW j \in DOMAIN (s \o t),
                        (s \o t)[i] = (s \o t)[j]
                 PROVE  i = j
    BY DEF IsInjective
  <2>3. CASE i \in DOMAIN s /\ j \in DOMAIN s
    BY <1>3, <1>5, <2>2, <2>3 DEF IsInjective
  <2>4. CASE i \notin DOMAIN s /\ j \notin DOMAIN s
    <3>1. i - Len(s) \in DOMAIN t /\ j - Len(s) \in DOMAIN t /\ t[i - Len(s)] = t[j - Len(s)]
      BY <1>3, <2>2, <2>4
    <3>2. i - Len(s) = j - Len(s)
      BY <1>5, <3>1 DEF IsInjective
    <3>3. QED
      BY <1>1, <1>2, <3>2
  <2>5. CASE i \in DOMAIN s /\ j \notin DOMAIN s
    BY <1>3, <2>1, <2>2, <2>5
  <2>6. CASE i \notin DOMAIN s /\ j \in DOMAIN s
    BY <1>3, <2>1, <2>2, <2>6
  <2>7. QED
    BY <2>3, <2>4, <2>5, <2>6
<1>6. QED
  BY <1>1, <1>4, <1>5

(* Pieces that repeat nothing, and share nothing with each other.          *)
AllDistinct(ss) ==
  /\ \A i \in DOMAIN ss : IsInjective(ss[i])
  /\ \A i, j \in DOMAIN ss : i # j => ToSet(ss[i]) \cap ToSet(ss[j]) = {}

(* The flattening holds what its sequences hold, without repetition when   *)
(* they have none and share nothing.                                       *)
LEMMA Flattening ==
  ASSUME NEW U, NEW n \in Nat, NEW ss \in [1..n -> Seq(U)]
  PROVE  /\ FlattenSeq(ss) \in Seq(U)
         /\ ToSet(FlattenSeq(ss)) = UNION {ToSet(ss[i]) : i \in 1..n}
         /\ AllDistinct(ss) => IsInjective(FlattenSeq(ss))
<1>1. Len(ss) = n /\ DOMAIN ss = 1..n /\ ss \in Seq(Seq(U))
  OBVIOUS
<1>2. CASE n = 0
  <2>1. FlattenSeq(ss) = ss /\ ss = <<>>
    BY <1>1, <1>2 DEF FlattenSeq
  <2>2. <<>> \in Seq(U) /\ ToSet(<<>>) = {} /\ IsInjective(<<>>)
    BY DEF ToSet, IsInjective
  <2>3. UNION {ToSet(ss[i]) : i \in 1..n} = {}
    BY <1>2
  <2>4. QED
    BY <2>1, <2>2, <2>3
<1>3. CASE n # 0
  <2>1. PICK f : IsFlattening(ss, n, f) /\ FlattenSeq(ss) = f[n]
    BY <1>1, <1>3, FlattenIs
  <2>2. /\ f[1] = ss[1]
        /\ \A i \in 1..n : i # 1 => f[i] = f[i - 1] \o ss[i]
    <3>1. f = [i \in 1..n |-> IF i = 1 THEN ss[i] ELSE f[i - 1] \o ss[i]]
      BY <2>1 DEF IsFlattening
    <3>2. \A i \in 1..n : f[i] = IF i = 1 THEN ss[i] ELSE f[i - 1] \o ss[i]
      BY <3>1
    <3>3. 1 \in 1..n
      BY <1>3
    <3>4. QED
      BY <3>2, <3>3
  <2> DEFINE Before(i) == UNION {ToSet(ss[j]) : j \in 1..i}
             Good(i) == /\ f[i] \in Seq(U) /\ ToSet(f[i]) = Before(i)
                        /\ AllDistinct(ss) => IsInjective(f[i])
             Bad == {i \in 1..n : ~Good(i)}
  <2>3. Good(1)
    <3>1. ss[1] \in Seq(U) /\ 1 \in DOMAIN ss
      BY <1>3, <1>1
    <3>2. Before(1) = ToSet(ss[1])
      OBVIOUS
    <3>3. AllDistinct(ss) => IsInjective(ss[1])
      BY <3>1 DEF AllDistinct
    <3>4. QED
      BY <2>2, <3>1, <3>2, <3>3
  <2>4. ASSUME NEW i \in 1..n, i # 1, Good(i - 1) PROVE Good(i)
    <3>1. /\ i - 1 \in 1..n /\ f[i] = f[i - 1] \o ss[i] /\ ss[i] \in Seq(U)
          /\ f[i - 1] \in Seq(U)
      BY <2>2, <2>4
    <3>2. /\ f[i] \in Seq(U) /\ ToSet(f[i]) = ToSet(f[i - 1]) \cup ToSet(ss[i])
      BY <3>1, Concatenation
    <3>3. 1..i = 1..(i - 1) \cup {i}
      OBVIOUS
    <3>4. Before(i) = Before(i - 1) \cup ToSet(ss[i])
      BY <3>3
    <3>5. ASSUME AllDistinct(ss) PROVE IsInjective(f[i])
      <4>1. IsInjective(f[i - 1]) /\ IsInjective(ss[i])
        BY <1>1, <2>4, <3>5 DEF AllDistinct
      <4>2. \A j \in 1..(i - 1) : ToSet(ss[j]) \cap ToSet(ss[i]) = {}
        <5>1. \A j \in 1..(i - 1) : j \in DOMAIN ss /\ j # i
          BY <1>1
        <5>2. QED
          BY <1>1, <3>5, <5>1 DEF AllDistinct
      <4>3. Before(i - 1) \cap ToSet(ss[i]) = {}
        BY <4>2
      <4>4. ToSet(f[i - 1]) \cap ToSet(ss[i]) = {}
        BY <2>4, <4>3
      <4>5. QED
        BY <3>1, <4>1, <4>4, Concatenation
    <3>6. QED
      BY <2>4, <3>2, <3>4, <3>5
  <2>5. Bad = {}
    <3>1. SUFFICES ASSUME Bad # {} PROVE FALSE
      OBVIOUS
    <3>2. Bad \in SUBSET Nat
      OBVIOUS
    <3>3. PICK i \in Bad : \A j \in Bad : i <= j
      BY <3>1, <3>2, Least
    <3>4. i \in 1..n /\ ~Good(i)
      OBVIOUS
    <3>5. i # 1
      BY <2>3, <3>4
    <3>6. i - 1 \in 1..n /\ ~(i <= i - 1)
      BY <3>4, <3>5
    <3>7. Good(i - 1)
      BY <3>3, <3>6
    <3> HIDE DEF Good
    <3>8. QED
      BY <2>4, <3>4, <3>5, <3>7
  <2>6. Good(n)
    <3>1. \A i \in 1..n : Good(i)
      <4> HIDE DEF Good
      <4>1. QED
        BY <2>5
    <3>2. n \in 1..n
      BY <1>3
    <3> HIDE DEF Good
    <3>3. QED
      BY <3>1, <3>2
  <2>7. QED
    BY <2>1, <2>6
<1>4. QED
  BY <1>2, <1>3

(* The elements of s at the places T, in their order.                       *)
Keep(s, T) == FlattenSeq([i \in DOMAIN s |-> IF i \in T THEN <<s[i]>> ELSE <<>>])

(* Keeping some of the elements repeats nothing.                            *)
LEMMA Kept ==
  ASSUME NEW U, NEW s \in Seq(U), NEW T
  PROVE  /\ Keep(s, T) \in Seq(U)
         /\ ToSet(Keep(s, T)) = {s[i] : i \in DOMAIN s \cap T}
         /\ IsInjective(s) => IsInjective(Keep(s, T))
<1> DEFINE ss == [i \in DOMAIN s |-> IF i \in T THEN <<s[i]>> ELSE <<>>]
<1>1. /\ DOMAIN s = 1..Len(s) /\ Len(s) \in Nat /\ DOMAIN ss = 1..Len(s)
      /\ \A i \in DOMAIN s : s[i] \in U
  OBVIOUS
<1>2. \A i \in DOMAIN s : /\ ss[i] \in Seq(U)
                          /\ ToSet(ss[i]) = IF i \in T THEN {s[i]} ELSE {}
                          /\ IsInjective(ss[i])
  <2>1. ASSUME NEW x \in U PROVE <<x>> \in Seq(U) /\ ToSet(<<x>>) = {x} /\ IsInjective(<<x>>)
    BY DEF ToSet, IsInjective
  <2>2. <<>> \in Seq(U) /\ ToSet(<<>>) = {} /\ IsInjective(<<>>)
    BY DEF ToSet, IsInjective
  <2>3. QED
    BY <1>1, <2>1, <2>2
<1>3. ss \in [1..Len(s) -> Seq(U)]
  BY <1>1, <1>2
<1> HIDE DEF ss
<1>4. /\ FlattenSeq(ss) \in Seq(U)
      /\ ToSet(FlattenSeq(ss)) = UNION {ToSet(ss[i]) : i \in 1..Len(s)}
      /\ AllDistinct(ss) => IsInjective(FlattenSeq(ss))
  BY <1>1, <1>3, Flattening
<1>5. UNION {ToSet(ss[i]) : i \in 1..Len(s)} = {s[i] : i \in DOMAIN s \cap T}
  BY <1>1, <1>2
<1>6. ASSUME IsInjective(s) PROVE AllDistinct(ss)
  <2>1. ASSUME NEW i \in DOMAIN s, NEW j \in DOMAIN s, i # j PROVE s[i] # s[j]
    BY <1>6, <2>1 DEF IsInjective
  <2>2. QED
    BY <1>1, <1>2, <2>1 DEF AllDistinct
<1>7. Keep(s, T) = FlattenSeq(ss)
  BY DEF Keep, ss
<1>8. QED
  BY <1>4, <1>5, <1>6, <1>7

(* Of indices there is a first.                                            *)
LEMMA FirstIndex ==
  ASSUME NEW I \in SUBSET Nat, I # {}
  PROVE  Min(I) \in I /\ \A j \in I : Min(I) <= j
<1>1. \E m \in I : \A n \in I : m <= n
  BY Least
<1>2. QED
  BY <1>1 DEF Min

-----------------------------------------------------------------------------
(* The models of providers                                                 *)

IsList(s) == s \in Seq(ToSet(s))

Choice(p, m) == [provider |-> p.id, model |-> m.id, efforts |-> m.efforts]
Offers(p) == {Choice(p, m) : m \in {m \in ToSet(p.models) : p.enabled /\ m.enabled /\ m.text}}
Offered(ps) == UNION {Offers(p) : p \in ToSet(ps)}

(* Lists of providers with lists of models.                                *)
AreProviders(ps) == IsList(ps) /\ \A p \in ToSet(ps) : IsList(p.models)

(* Ids of their own: one element of the list for each id.                  *)
LEMMA Unique ==
  ASSUME NEW s, IsList(s), ensure_unique_ids(s)
  PROVE  IsInjective(s) /\ \A x, y \in ToSet(s) : x.id = y.id => x = y
<1>1. \A i, j \in DOMAIN s : s[i].id = s[j].id => i = j
  BY Zenon DEF ensure_unique_ids
<1>2. QED
  BY <1>1 DEF IsInjective, ToSet

(* Sound providers are lists of distinct providers of distinct models.     *)
LEMMA Sound ==
  ASSUME NEW ps, SoundProviders(ps)
  PROVE  /\ AreProviders(ps) /\ IsInjective(ps)
         /\ \A p, q \in ToSet(ps) : p.id = q.id => p = q
         /\ \A p \in ToSet(ps) : /\ IsInjective(p.models) /\ p.id \in ToSet(NameOrder)
                                 /\ \A m, n \in ToSet(p.models) : m.id = n.id => m = n
  BY Unique DEF SoundProviders, AreProviders, IsList

(* What a provider offers: its enabled text models, each once.             *)
LEMMA ModelsOf ==
  ASSUME NEW p, IsList(p.models)
  PROVE  /\ OfferedModels(p) \in Seq(Offers(p)) /\ ToSet(OfferedModels(p)) = Offers(p)
         /\ IsInjective(p.models) /\ (\A m, n \in ToSet(p.models) : m.id = n.id => m = n)
                => IsInjective(OfferedModels(p))
<1> DEFINE ms == p.models
           T == {i \in DOMAIN ms : p.enabled /\ ms[i].enabled /\ ms[i].text}
           usable == Filter(ms, LAMBDA m : p.enabled /\ m.enabled /\ m.text)
           offered == [j \in DOMAIN usable |-> [provider |-> p.id, model |-> usable[j].id,
                                                efforts |-> usable[j].efforts]]
           Usable == {m \in ToSet(ms) : p.enabled /\ m.enabled /\ m.text}
<1>1. usable = Keep(ms, T)
  <2>1. [i \in DOMAIN ms |-> IF i \in T THEN <<ms[i]>> ELSE <<>>]
          = [i \in DOMAIN ms |-> IF p.enabled /\ ms[i].enabled /\ ms[i].text
                                 THEN <<ms[i]>> ELSE <<>>]
    OBVIOUS
  <2>2. QED
    BY <2>1 DEF Filter, Keep
<1>2. ms \in Seq(ToSet(ms))
  BY DEF IsList
<1>3. /\ usable \in Seq(ToSet(ms)) /\ ToSet(usable) = {ms[i] : i \in DOMAIN ms \cap T}
      /\ IsInjective(ms) => IsInjective(usable)
  <2> HIDE DEF usable, T, ms
  <2>1. QED
    BY <1>1, <1>2, Kept
<1>4. ToSet(usable) = Usable
  <2> HIDE DEF usable
  <2>1. QED
    BY <1>3 DEF ToSet
<1> HIDE DEF usable
<1>5. \A j \in DOMAIN usable : offered[j] = Choice(p, usable[j]) /\ usable[j] \in Usable
  BY <1>4 DEF ToSet, Choice
<1>6. DOMAIN offered = 1..Len(usable) /\ Len(usable) \in Nat /\ DOMAIN usable = 1..Len(usable)
  BY <1>3
<1>7. Offers(p) = {Choice(p, m) : m \in Usable}
  BY DEF Offers
<1>8. \A j \in DOMAIN usable : offered[j] \in Offers(p)
  BY <1>5, <1>7
<1>9. offered \in Seq(Offers(p))
  <2>1. offered = [j \in 1..Len(usable) |-> offered[j]]
    BY <1>6
  <2> HIDE DEF offered
  <2>2. QED
    BY <1>6, <1>8, <2>1
<1>10. ToSet(offered) = Offers(p)
  <2> HIDE DEF offered, Usable
  <2>1. \A m \in Usable : \E j \in DOMAIN usable : usable[j] = m
    BY <1>4 DEF ToSet
  <2>2. \A c \in Offers(p) : \E j \in DOMAIN offered : offered[j] = c
    BY <1>5, <1>6, <1>7, <2>1
  <2>3. \A j \in DOMAIN offered : offered[j] \in Offers(p)
    BY <1>6, <1>8
  <2>4. QED
    BY <2>2, <2>3 DEF ToSet
<1>11. ASSUME IsInjective(ms), \A m, n \in ToSet(ms) : m.id = n.id => m = n
       PROVE  IsInjective(offered)
  <2>1. SUFFICES ASSUME NEW i \in DOMAIN offered, NEW j \in DOMAIN offered,
                        offered[i] = offered[j]
                 PROVE  i = j
    BY DEF IsInjective
  <2>2. i \in DOMAIN usable /\ j \in DOMAIN usable
    BY <1>6
  <2>3. usable[i] \in ToSet(ms) /\ usable[j] \in ToSet(ms)
    BY <1>5, <2>2
  <2>4. Choice(p, usable[i]) = Choice(p, usable[j])
    BY <1>5, <2>1, <2>2
  <2>5. usable[i].id = usable[j].id
    BY <2>4 DEF Choice
  <2>6. usable[i] = usable[j]
    BY <1>11, <2>3, <2>5
  <2>7. QED
    BY <1>3, <1>11, <2>2, <2>6 DEF IsInjective
<1>12. OfferedModels(p) = offered
  BY DEF OfferedModels, usable
<1>13. QED
  BY <1>9, <1>10, <1>11, <1>12

(* The text models of a list of providers.                                 *)
LEMMA TextModelsAre ==
  ASSUME NEW ps, AreProviders(ps)
  PROVE  /\ TextModels(ps) \in Seq(Offered(ps)) /\ ToSet(TextModels(ps)) = Offered(ps)
         /\ SoundProviders(ps) => IsInjective(TextModels(ps))
<1> DEFINE ss == [i \in DOMAIN ps |-> OfferedModels(ps[i])]
<1>1. /\ DOMAIN ps = 1..Len(ps) /\ Len(ps) \in Nat
      /\ \A i \in DOMAIN ps : ps[i] \in ToSet(ps)
  BY DEF AreProviders, IsList, ToSet
<1>2. ASSUME NEW p \in ToSet(ps)
      PROVE  OfferedModels(p) \in Seq(Offered(ps)) /\ ToSet(OfferedModels(p)) = Offers(p)
  <2>1. OfferedModels(p) \in Seq(Offers(p)) /\ ToSet(OfferedModels(p)) = Offers(p)
    BY ModelsOf DEF AreProviders
  <2>2. Offers(p) \subseteq Offered(ps)
    BY DEF Offered
  <2>3. QED
    BY <2>1, <2>2
<1>3. ss \in [1..Len(ps) -> Seq(Offered(ps))]
  BY <1>1, <1>2
<1>4. /\ DOMAIN ss = DOMAIN ps
      /\ \A i \in DOMAIN ps : ss[i] = OfferedModels(ps[i]) /\ ToSet(ss[i]) = Offers(ps[i])
  BY <1>1, <1>2
<1>5. TextModels(ps) = FlattenSeq(ss)
  BY DEF TextModels
<1> HIDE DEF ss
<1>6. /\ TextModels(ps) \in Seq(Offered(ps))
      /\ ToSet(TextModels(ps)) = UNION {ToSet(ss[i]) : i \in 1..Len(ps)}
      /\ AllDistinct(ss) => IsInjective(TextModels(ps))
  <2>1. Len(ps) \in Nat
    BY <1>1
  <2>2. /\ FlattenSeq(ss) \in Seq(Offered(ps))
        /\ ToSet(FlattenSeq(ss)) = UNION {ToSet(ss[i]) : i \in 1..Len(ps)}
        /\ AllDistinct(ss) => IsInjective(FlattenSeq(ss))
    BY ONLY <1>3, <2>1, Flattening
  <2>3. QED
    BY <1>5, <2>2
<1>7. UNION {ToSet(ss[i]) : i \in 1..Len(ps)} = Offered(ps)
  <2>1. UNION {ToSet(ss[i]) : i \in 1..Len(ps)} = UNION {Offers(ps[i]) : i \in DOMAIN ps}
    BY <1>1, <1>4
  <2>2. QED
    BY <2>1 DEF Offered, ToSet
<1>8. ASSUME SoundProviders(ps) PROVE AllDistinct(ss)
  <2>1. \A i \in DOMAIN ps : IsInjective(ss[i])
    BY <1>1, <1>4, <1>8, Sound, ModelsOf DEF AreProviders
  <2>2. ASSUME NEW i \in DOMAIN ps, NEW j \in DOMAIN ps, i # j
        PROVE  Offers(ps[i]) \cap Offers(ps[j]) = {}
    <3>1. ps[i].id # ps[j].id
      BY <1>1, <1>8, <2>2, Sound DEF IsInjective
    <3>2. \A c \in Offers(ps[i]) : c.provider = ps[i].id
      BY DEF Offers, Choice
    <3>3. \A c \in Offers(ps[j]) : c.provider = ps[j].id
      BY DEF Offers, Choice
    <3>4. QED
      BY <3>1, <3>2, <3>3
  <2>3. QED
    BY <1>4, <2>1, <2>2 DEF AllDistinct
<1>9. QED
  BY <1>6, <1>7, <1>8

(* A choice is known by its provider and its model.                         *)
LEMMA ChoiceIsUnique ==
  ASSUME NEW ps, SoundProviders(ps), NEW c \in Offered(ps), NEW d \in Offered(ps),
         c.provider = d.provider, c.model = d.model
  PROVE  c = d
<1>1. PICK p \in ToSet(ps) : \E m \in ToSet(p.models) : c = Choice(p, m)
  BY DEF Offered, Offers
<1>2. PICK q \in ToSet(ps) : \E n \in ToSet(q.models) : d = Choice(q, n)
  BY DEF Offered, Offers
<1>3. PICK m \in ToSet(p.models), n \in ToSet(q.models) : c = Choice(p, m) /\ d = Choice(q, n)
  BY <1>1, <1>2
<1>4. p.id = q.id /\ m.id = n.id
  BY <1>3 DEF Choice
<1>5. p = q
  BY <1>4, Sound
<1>6. m = n
  BY <1>4, <1>5, Sound
<1>7. QED
  BY <1>3, <1>5, <1>6

(* Ids that several providers offer.                                       *)
Shared(cs) == {c.model : c \in {c \in cs : \E d \in cs : d # c /\ d.model = c.model}}

(* The ids that are told apart by their provider are those that more than  *)
(* one of the offered models has, whatever the order of the providers.     *)
LEMMA DuplicatesAre ==
  ASSUME NEW ps, SoundProviders(ps)
  PROVE  duplicate_session_text_model_ids(ps) = Shared(Offered(ps))
<1> DEFINE t == TextModels(ps)
           D == {i \in DOMAIN t : \E j \in DOMAIN t : j # i /\ t[j].model = t[i].model}
<1>1. ToSet(t) = Offered(ps) /\ IsInjective(t)
  BY Sound, TextModelsAre
<1>2. duplicate_session_text_model_ids(ps) = {t[i].model : i \in D}
  BY DEF duplicate_session_text_model_ids
<1> HIDE DEF t
<1>3. ASSUME NEW i \in D PROVE t[i].model \in Shared(Offered(ps))
  <2>1. PICK j \in DOMAIN t : j # i /\ t[j].model = t[i].model
    OBVIOUS
  <2>2. t[j] # t[i] /\ t[j] \in Offered(ps) /\ t[i] \in Offered(ps)
    BY <1>1, <2>1 DEF IsInjective, ToSet
  <2>3. QED
    BY <2>1, <2>2 DEF Shared
<1>4. ASSUME NEW c \in Offered(ps), NEW d \in Offered(ps), d # c, d.model = c.model
      PROVE  \E i \in D : t[i].model = c.model
  <2>1. PICK i \in DOMAIN t, j \in DOMAIN t : t[i] = c /\ t[j] = d
    BY <1>1 DEF ToSet
  <2>2. i \in D
    BY <1>4, <2>1
  <2>3. QED
    BY <2>1, <2>2
<1> HIDE DEF D
<1>5. Shared(Offered(ps)) \subseteq {t[i].model : i \in D}
  BY <1>4 DEF Shared
<1>6. {t[i].model : i \in D} \subseteq Shared(Offered(ps))
  BY <1>3
<1>7. QED
  BY <1>2, <1>5, <1>6

(* The picker tells choices apart.                                         *)
LEMMA PickerIdsDiffer ==
  ASSUME NEW ps, SoundProviders(ps), NEW c \in Offered(ps), NEW d \in Offered(ps),
         session_picker_model_id(ps, c) = session_picker_model_id(ps, d)
  PROVE  c = d
<1> DEFINE S == Shared(Offered(ps))
<1>1. /\ session_picker_model_id(ps, c)
           = IF c.model \in S THEN <<c.model, c.provider>> ELSE <<c.model>>
      /\ session_picker_model_id(ps, d)
           = IF d.model \in S THEN <<d.model, d.provider>> ELSE <<d.model>>
  BY DuplicatesAre DEF session_picker_model_id
<1> HIDE DEF S
<1>2. /\ c.model = d.model
      /\ c.model \in S => c.provider = d.provider
  <2>1. CASE c.model \in S /\ d.model \in S
    <3>1. \A a, b, x, y : <<a, b>> = <<x, y>> => a = x /\ b = y
      OBVIOUS
    <3>2. <<c.model, c.provider>> = <<d.model, d.provider>>
      BY <1>1, <2>1, Zenon
    <3>3. QED
      BY <3>1, <3>2, Zenon
  <2>2. CASE c.model \notin S /\ d.model \notin S
    <3>1. \A a, x : <<a>> = <<x>> => a = x
      OBVIOUS
    <3>2. <<c.model>> = <<d.model>>
      BY <1>1, <2>2, Zenon
    <3>3. QED
      BY <2>2, <3>1, <3>2, Zenon
  <2>3. CASE ~(c.model \in S <=> d.model \in S)
    <3>1. \A a, b, m : <<a, b>> # <<m>>
      <4>1. \A a, b, m : Len(<<a, b>>) = 2 /\ Len(<<m>>) = 1
        OBVIOUS
      <4>2. QED
        BY <4>1, Zenon
    <3>2. QED
      BY <1>1, <2>3, <3>1
  <2>4. QED
    BY <2>1, <2>2, <2>3
<1>3. CASE c.model \in S
  BY <1>2, <1>3, ChoiceIsUnique
<1>4. CASE c.model \notin S
  BY <1>2, <1>4 DEF S, Shared
<1>5. QED
  BY <1>3, <1>4

(* Those of s whose id is not before at another place: one of each id.      *)
LEMMA Deduped ==
  ASSUME NEW U, NEW s \in Seq(U)
  PROVE  /\ dedup_by_id(s) \in Seq(U) /\ ToSet(dedup_by_id(s)) \subseteq ToSet(s)
         /\ \A x \in ToSet(s) : \E y \in ToSet(dedup_by_id(s)) : y.id = x.id
<1> DEFINE T == {i \in DOMAIN s : \A j \in 1..(i - 1) : s[j].id # s[i].id}
<1>1. dedup_by_id(s) = Keep(s, T)
  BY DEF dedup_by_id, Keep
<1>2. DOMAIN s = 1..Len(s) /\ Len(s) \in Nat
  OBVIOUS
<1>3. dedup_by_id(s) \in Seq(U) /\ ToSet(dedup_by_id(s)) = {s[i] : i \in DOMAIN s \cap T}
  <2> HIDE DEF T
  <2>1. QED
    BY <1>1, Kept
<1>4. ASSUME NEW k \in DOMAIN s PROVE \E i \in T : s[i].id = s[k].id
  <2> DEFINE I == {i \in DOMAIN s : s[i].id = s[k].id}
  <2>1. I \in SUBSET Nat /\ I # {}
    BY <1>2
  <2>2. PICK i \in I : \A j \in I : i <= j
    BY <2>1, Least
  <2>3. \A j \in 1..(i - 1) : j \in DOMAIN s /\ ~(i <= j)
    BY <1>2
  <2>4. \A j \in 1..(i - 1) : s[j].id # s[i].id
    BY <2>2, <2>3
  <2>5. QED
    BY <2>2, <2>4
<1>5. T \subseteq DOMAIN s
  OBVIOUS
<1> HIDE DEF T
<1>6. \A x \in ToSet(s) : \E i \in T : s[i].id = x.id
  BY <1>4 DEF ToSet
<1>7. \A i \in T : s[i] \in ToSet(dedup_by_id(s))
  BY <1>3, <1>5
<1>8. ToSet(dedup_by_id(s)) \subseteq ToSet(s)
  BY <1>3 DEF ToSet
<1>9. QED
  BY <1>3, <1>6, <1>7, <1>8

(* Sorting loses nothing whose name is known.                              *)
LEMMA Sorted ==
  ASSUME NEW U, NEW s \in Seq(U), \A x \in ToSet(s) : x.id \in ToSet(NameOrder)
  PROVE  SortByName(s) \in Seq(U) /\ ToSet(SortByName(s)) = ToSet(s)
<1> DEFINE Named(n) == Filter(s, LAMBDA x : x.id = n)
           ss == [i \in DOMAIN NameOrder |-> Named(NameOrder[i])]
           N == Len(NameOrder)
<1>1. DOMAIN NameOrder = 1..N /\ N \in Nat
  BY ConfigsAssumption
<1>2. ASSUME NEW n
      PROVE  Named(n) \in Seq(U) /\ ToSet(Named(n)) = {x \in ToSet(s) : x.id = n}
  <2> DEFINE T == {i \in DOMAIN s : s[i].id = n}
  <2>1. [i \in DOMAIN s |-> IF i \in T THEN <<s[i]>> ELSE <<>>]
          = [i \in DOMAIN s |-> IF s[i].id = n THEN <<s[i]>> ELSE <<>>]
    OBVIOUS
  <2>2. Named(n) = Keep(s, T)
    BY <2>1 DEF Filter, Keep
  <2>3. Named(n) \in Seq(U) /\ ToSet(Named(n)) = {s[i] : i \in DOMAIN s \cap T}
    <3> HIDE DEF T, Named
    <3>1. QED
      BY <2>2, Kept
  <2>4. {s[i] : i \in DOMAIN s \cap T} = {x \in ToSet(s) : x.id = n}
    BY DEF ToSet
  <2> HIDE DEF Named, T
  <2>5. QED
    BY <2>3, <2>4
<1>3. SortByName(s) = FlattenSeq(ss)
  BY DEF SortByName
<1> HIDE DEF Named
<1>4. ss \in [1..N -> Seq(U)] /\ \A i \in 1..N : ss[i] = Named(NameOrder[i])
  BY <1>1, <1>2
<1> HIDE DEF ss, N
<1>5. SortByName(s) \in Seq(U) /\ ToSet(SortByName(s)) = UNION {ToSet(ss[i]) : i \in 1..N}
  <2>1. FlattenSeq(ss) \in Seq(U) /\ ToSet(FlattenSeq(ss)) = UNION {ToSet(ss[i]) : i \in 1..N}
    <3>1. N \in Nat /\ ss \in [1..N -> Seq(U)]
      BY <1>1, <1>4
    <3>2. QED
      BY <3>1, Flattening
  <2>2. QED
    BY <1>3, <2>1
<1>6. ASSUME NEW x \in ToSet(s) PROVE \E i \in 1..N : x \in ToSet(ss[i])
  <2>1. PICK i \in 1..N : NameOrder[i] = x.id
    BY <1>1 DEF ToSet
  <2>2. QED
    BY <1>2, <1>4, <2>1
<1>7. \A i \in 1..N : ToSet(ss[i]) \subseteq ToSet(s)
  BY <1>2, <1>4
<1>8. QED
  BY <1>5, <1>6, <1>7

(* What a list of providers offers depends on its members only.             *)
LEMMA OfferedBySame ==
  ASSUME NEW ps, NEW qs, ToSet(ps) = ToSet(qs)
  PROVE  Offered(ps) = Offered(qs)
  BY DEF Offered

(* The order of the bridge's list: the active provider, then by name.       *)
LEMMA Ordered ==
  ASSUME NEW ps, SoundProviders(ps), NEW active
  PROVE  AreProviders(ActiveFirst(ps, active)) /\ ToSet(ActiveFirst(ps, active)) = ToSet(ps)
<1> DEFINE A == {i \in DOMAIN ps : ps[i].id = active}
           B == {i \in DOMAIN ps : ps[i].id # active}
           first == Filter(ps, LAMBDA p : p.id = active)
           rest == Filter(ps, LAMBDA p : p.id # active)
           ordered == first \o SortByName(rest)
           U == ToSet(ps)
<1>1. first = Keep(ps, A) /\ rest = Keep(ps, B)
  <2>1. [i \in DOMAIN ps |-> IF i \in A THEN <<ps[i]>> ELSE <<>>]
          = [i \in DOMAIN ps |-> IF ps[i].id = active THEN <<ps[i]>> ELSE <<>>]
    OBVIOUS
  <2>2. [i \in DOMAIN ps |-> IF i \in B THEN <<ps[i]>> ELSE <<>>]
          = [i \in DOMAIN ps |-> IF ps[i].id # active THEN <<ps[i]>> ELSE <<>>]
    OBVIOUS
  <2>3. QED
    BY <2>1, <2>2 DEF Filter, Keep
<1>2. ps \in Seq(U) /\ \A p \in U : p.id \in ToSet(NameOrder)
  BY DEF SoundProviders
<1>3. /\ first \in Seq(U) /\ ToSet(first) = {ps[i] : i \in DOMAIN ps \cap A}
      /\ rest \in Seq(U) /\ ToSet(rest) = {ps[i] : i \in DOMAIN ps \cap B}
  <2> HIDE DEF A, B, U, first, rest
  <2>1. QED
    BY <1>1, <1>2, Kept
<1>4. ToSet(first) \cup ToSet(rest) = U
  <2> HIDE DEF first, rest
  <2>1. QED
    BY <1>3 DEF ToSet
<1> HIDE DEF first, rest
<1>5. SortByName(rest) \in Seq(U) /\ ToSet(SortByName(rest)) = ToSet(rest)
  BY <1>2, <1>3, <1>4, Sorted
<1>6. ordered \in Seq(U) /\ ToSet(ordered) = U
  <2> HIDE DEF U
  <2>1. PICK t : t = SortByName(rest)
    OBVIOUS
  <2>2. first \o t \in Seq(U) /\ ToSet(first \o t) = ToSet(first) \cup ToSet(t)
    BY <1>3, <1>5, <2>1, Concatenation
  <2>3. QED
    BY <1>4, <1>5, <2>1, <2>2
<1> HIDE DEF ordered
<1>7. AreProviders(ordered)
  BY <1>6, Sound DEF AreProviders, IsList
<1>8. QED
  BY <1>6, <1>7 DEF ordered, first, rest, ActiveFirst

-----------------------------------------------------------------------------
(* The list of the picker                                                  *)

(* An entry of the bridge for each choice.                                 *)
Entry(ps, c) == [id |-> session_picker_model_id(ps, c), shows |-> c]

(* The models of a bridge are an entry for each text model of its providers.*)
LEMMA BridgeModels ==
  ASSUME NEW ps, SoundProviders(ps), NEW active
  PROVE  LET list == build_bridge_models_for_session(ps, active)
         IN  ToSet(list) = {Entry(ps, c) : c \in Offered(ps)}
<1> DEFINE ordered == ActiveFirst(ps, active)
           offered == TextModels(ordered)
           entries == [i \in DOMAIN offered |->
                         [id |-> session_picker_model_id(ps, offered[i]), shows |-> offered[i]]]
           list == dedup_by_id(entries)
           E == {Entry(ps, c) : c \in Offered(ps)}
<1>1. build_bridge_models_for_session(ps, active) = list
  BY DEF build_bridge_models_for_session
<1>2. AreProviders(ordered) /\ ToSet(ordered) = ToSet(ps)
  BY Ordered
<1> HIDE DEF ordered
<1>3. offered \in Seq(Offered(ps)) /\ ToSet(offered) = Offered(ps)
  BY <1>2, TextModelsAre, OfferedBySame
<1> HIDE DEF offered
<1>4. /\ DOMAIN offered = 1..Len(offered) /\ Len(offered) \in Nat
      /\ \A i \in DOMAIN offered : entries[i] = Entry(ps, offered[i])
                                  /\ offered[i] \in Offered(ps)
  BY <1>3 DEF Entry
<1>5. entries \in Seq(E)
  <2>1. entries = [i \in 1..Len(offered) |-> entries[i]]
    BY <1>4
  <2>2. \A i \in 1..Len(offered) : entries[i] \in E
    BY <1>4
  <2> HIDE DEF entries
  <2>3. QED
    BY <1>4, <2>1, <2>2
<1>6. ToSet(entries) = E
  <2>1. \A c \in Offered(ps) : \E i \in DOMAIN offered : offered[i] = c
    BY <1>3 DEF ToSet
  <2>2. DOMAIN entries = DOMAIN offered
    OBVIOUS
  <2> HIDE DEF entries
  <2>3. \A x \in E : \E i \in DOMAIN entries : entries[i] = x
    BY <1>4, <2>1, <2>2
  <2>4. \A i \in DOMAIN entries : entries[i] \in E
    BY <1>4, <2>2
  <2> HIDE DEF E
  <2>5. QED
    BY <2>3, <2>4 DEF ToSet
<1> HIDE DEF entries
<1>7. /\ ToSet(list) \subseteq E
      /\ \A x \in E : \E y \in ToSet(list) : y.id = x.id
  BY <1>5, <1>6, Deduped
<1>8. ASSUME NEW x \in E, NEW y \in E, x.id = y.id PROVE x = y
  <2>1. PICK c \in Offered(ps), d \in Offered(ps) : x = Entry(ps, c) /\ y = Entry(ps, d)
    OBVIOUS
  <2>2. session_picker_model_id(ps, c) = session_picker_model_id(ps, d)
    BY <1>8, <2>1 DEF Entry
  <2>3. QED
    BY <2>1, <2>2, PickerIdsDiffer
<1> HIDE DEF E, list
<1>9. ToSet(list) = E
  BY <1>7, <1>8
<1>10. QED
  BY <1>1, <1>9 DEF E

(* The id of a choice is resolved to it.                                   *)
LEMMA PickerResolves ==
  ASSUME NEW ps, SoundProviders(ps), NEW c \in Offered(ps)
  PROVE  resolve_session_picker_model(ps, session_picker_model_id(ps, c)) = c
<1> DEFINE t == TextModels(ps)
           picked == session_picker_model_id(ps, c)
           I == {i \in 1..Len(t) : session_picker_model_id(ps, t[i]) = picked}
<1>1. /\ t \in Seq(Offered(ps)) /\ ToSet(t) = Offered(ps)
  BY Sound, TextModelsAre
<1>2. resolve_session_picker_model(ps, picked)
        = LET i == IF I # {} THEN Min(I) ELSE 0 IN IF i = 0 THEN None ELSE t[i]
  BY DEF resolve_session_picker_model, First, At, SelectInSeq
<1> HIDE DEF t
<1>3. DOMAIN t = 1..Len(t) /\ \A i \in 1..Len(t) : t[i] \in Offered(ps)
  BY <1>1
<1>4. I \in SUBSET Nat /\ I # {}
  <2>1. PICK i \in DOMAIN t : t[i] = c
    BY <1>1 DEF ToSet
  <2>2. i \in I
    BY <1>3, <2>1
  <2>3. QED
    BY <2>2
<1>5. Min(I) \in I
  BY <1>4, FirstIndex
<1>6. Min(I) # 0 /\ t[Min(I)] \in Offered(ps) /\ session_picker_model_id(ps, t[Min(I)]) = picked
  BY <1>3, <1>5
<1>7. t[Min(I)] = c
  BY <1>6, PickerIdsDiffer
<1> HIDE DEF I, picked
<1>8. resolve_session_picker_model(ps, picked) = c
  BY <1>2, <1>4, <1>6, <1>7
<1>9. QED
  BY <1>8 DEF picked

(* A routing to sound providers has a picker that keeps its word.          *)
LEMMA PickerIsSound ==
  ASSUME NEW ps, SoundProviders(ps), NEW active
  PROVE  LET list == build_bridge_models_for_session(ps, active)
         IN  /\ {list[i].shows : i \in DOMAIN list} = ToSet(TextModels(ps))
             /\ \A i \in DOMAIN list :
                   resolve_session_picker_model(ps, list[i].id) = list[i].shows
<1> DEFINE list == build_bridge_models_for_session(ps, active)
<1>1. ToSet(list) = {Entry(ps, c) : c \in Offered(ps)}
  BY BridgeModels
<1> HIDE DEF list
<1>2. ToSet(TextModels(ps)) = Offered(ps)
  BY Sound, TextModelsAre
<1>3. \A i \in DOMAIN list : \E c \in Offered(ps) : list[i] = Entry(ps, c)
  BY <1>1 DEF ToSet
<1>4. \A c \in Offered(ps) : \E i \in DOMAIN list : list[i] = Entry(ps, c)
  BY <1>1 DEF ToSet
<1>5. \A c : Entry(ps, c).shows = c /\ Entry(ps, c).id = session_picker_model_id(ps, c)
  BY DEF Entry
<1>6. {list[i].shows : i \in DOMAIN list} = Offered(ps)
  BY <1>3, <1>4, <1>5
<1>7. \A i \in DOMAIN list : resolve_session_picker_model(ps, list[i].id) = list[i].shows
  BY <1>3, <1>5, PickerResolves
<1>8. QED
  BY <1>2, <1>6, <1>7 DEF list

-----------------------------------------------------------------------------
(* The bridge of a launch                                                  *)

Enabled(ps) == Filter(ps, LAMBDA p : p.enabled)

(* The providers of a session are as sound as those of its configuration,   *)
(* and offer the same.                                                     *)
LEMMA EnabledProviders ==
  ASSUME NEW ps, SoundProviders(ps)
  PROVE  SoundProviders(Enabled(ps)) /\ Offered(Enabled(ps)) = Offered(ps)
<1> DEFINE T == {i \in DOMAIN ps : ps[i].enabled}
           qs == Enabled(ps)
<1>1. qs = Keep(ps, T)
  <2>1. [i \in DOMAIN ps |-> IF i \in T THEN <<ps[i]>> ELSE <<>>]
          = [i \in DOMAIN ps |-> IF ps[i].enabled THEN <<ps[i]>> ELSE <<>>]
    OBVIOUS
  <2>2. QED
    BY <2>1 DEF Enabled, Filter, Keep
<1>2. ps \in Seq(ToSet(ps)) /\ IsInjective(ps)
  BY Sound DEF SoundProviders
<1>3. /\ qs \in Seq(ToSet(ps)) /\ ToSet(qs) = {ps[i] : i \in DOMAIN ps \cap T}
      /\ IsInjective(qs)
  <2> HIDE DEF T, qs
  <2>1. QED
    BY <1>1, <1>2, Kept
<1> HIDE DEF qs
<1>4. ToSet(qs) = {p \in ToSet(ps) : p.enabled}
  BY <1>3 DEF ToSet
<1> HIDE DEF T
<1>5. qs \in Seq(ToSet(qs))
  <2>1. DOMAIN qs = 1..Len(qs) /\ Len(qs) \in Nat /\ qs = [i \in 1..Len(qs) |-> qs[i]]
    BY <1>3
  <2>2. \A i \in 1..Len(qs) : qs[i] \in ToSet(qs)
    BY <2>1 DEF ToSet
  <2>3. QED
    BY <2>1, <2>2
<1>6. \A i, j \in DOMAIN qs : qs[i].id = qs[j].id => i = j
  <2>1. SUFFICES ASSUME NEW i \in DOMAIN qs, NEW j \in DOMAIN qs, qs[i].id = qs[j].id
                 PROVE  i = j
    OBVIOUS
  <2>2. qs[i] \in ToSet(ps) /\ qs[j] \in ToSet(ps)
    BY <1>4 DEF ToSet
  <2>3. qs[i] = qs[j]
    BY <2>1, <2>2, Sound
  <2>4. QED
    BY <1>3, <2>3 DEF IsInjective
<1>7. ensure_unique_ids(qs)
  <2>1. \A p \in ToSet(ps) : p.id # ""
    BY Zenon DEF SoundProviders, ensure_unique_ids, ToSet
  <2>2. \A i \in DOMAIN qs : qs[i] \in ToSet(ps)
    BY <1>4 DEF ToSet
  <2>3. QED
    BY <1>6, <2>1, <2>2, Zenon DEF ensure_unique_ids
<1>8. SoundProviders(qs)
  BY <1>4, <1>5, <1>7 DEF SoundProviders
<1>9. \A p \in ToSet(ps) : ~p.enabled => Offers(p) = {}
  BY DEF Offers
<1>10. Offered(qs) = Offered(ps)
  BY <1>4, <1>9 DEF Offered
<1>11. QED
  BY <1>8, <1>10 DEF qs

(* What First finds at the places I.                                       *)
FirstOf(t, I) ==
  LET i == IF I # {} THEN Min(I) ELSE 0 IN IF i = 0 THEN None ELSE t[i]

(* The first that passes a test is one of the list.                        *)
LEMMA FirstOfIn ==
  ASSUME NEW t, NEW I \in SUBSET (1..Len(t)), t \in Seq(ToSet(t))
  PROVE  FirstOf(t, I) \in ToSet(t) \cup {None}
<1>1. I \in SUBSET Nat /\ DOMAIN t = 1..Len(t)
  OBVIOUS
<1>2. CASE I = {}
  BY <1>2 DEF FirstOf
<1>3. CASE I # {}
  <2>1. Min(I) \in I
    BY <1>1, <1>3, FirstIndex
  <2>2. t[Min(I)] \in ToSet(t)
    BY <1>1, <2>1 DEF ToSet
  <2>3. QED
    BY <2>1, <2>2, <1>3 DEF FirstOf
<1>4. QED
  BY <1>2, <1>3

(* The model of an agent is offered, or there is none.                      *)
LEMMA AgentModel ==
  ASSUME NEW c, AreProviders(c.providers), NEW agent
  PROVE  resolve_agent_model(c, agent) \in Offered(c.providers) \cup {None}
<1> DEFINE t == TextModels(c.providers)
<1>1. t \in Seq(ToSet(t)) /\ ToSet(t) = Offered(c.providers)
  BY TextModelsAre
<1>2. ASSUME NEW a PROVE resolve_explicit_agent_model(c.providers, a) \in ToSet(t) \cup {None}
  <2> DEFINE I == {i \in 1..Len(t) : a.model_id # "" /\ t[i].model = a.model_id
                                     /\ a.provider_id \in {"", t[i].provider}}
  <2>1. resolve_explicit_agent_model(c.providers, a) = FirstOf(t, I)
    BY DEF resolve_explicit_agent_model, First, At, SelectInSeq, FirstOf
  <2>2. I \in SUBSET (1..Len(t))
    BY Zenon
  <2> HIDE DEF I, t
  <2>3. QED
    BY <1>1, <2>1, <2>2, FirstOfIn
<1>3. first_enabled_text_model(c.providers) \in ToSet(t) \cup {None}
  <2> DEFINE I == {i \in 1..Len(t) : TRUE}
  <2>1. first_enabled_text_model(c.providers) = FirstOf(t, I)
    BY DEF first_enabled_text_model, First, At, SelectInSeq, FirstOf
  <2>2. I \in SUBSET (1..Len(t))
    OBVIOUS
  <2> HIDE DEF I, t
  <2>3. QED
    BY <1>1, <2>1, <2>2, FirstOfIn
<1> HIDE DEF t
<1>4. resolve_cli_default_model(c) \in ToSet(t) \cup {None}
  BY <1>2, <1>3 DEF resolve_cli_default_model, OrElse
<1>5. QED
  BY <1>1, <1>2, <1>4 DEF resolve_agent_model, OrElse

(* The agents of a scope that may be launched.                              *)
Launchable(c) == {a \in ToSet(c.agents) : a.enabled /\ is_agent_launchable(c, a)}

(* Sub-agents are agents of the scope that may be launched.                 *)
LEMMA SubAgents ==
  ASSUME NEW c, c.agents \in Seq(ToSet(c.agents)), NEW agent
  PROVE  /\ selected_agent_sub_agents(c, agent) \in Seq(ToSet(c.agents))
         /\ ToSet(selected_agent_sub_agents(c, agent)) \subseteq Launchable(c)
<1> DEFINE s == c.agents
           Chosen(a) == /\ agent.sub_agents_enabled /\ a.id # agent.id
                        /\ agent.sub_agent_ids = {} \/ a.id \in agent.sub_agent_ids
                        /\ a.enabled /\ is_agent_launchable(c, a)
           T == {i \in DOMAIN s : Chosen(s[i])}
           r == selected_agent_sub_agents(c, agent)
<1>1. r = Keep(s, T)
  <2>1. [i \in DOMAIN s |-> IF i \in T THEN <<s[i]>> ELSE <<>>]
          = [i \in DOMAIN s |-> IF Chosen(s[i]) THEN <<s[i]>> ELSE <<>>]
    <3> HIDE DEF Chosen
    <3>1. QED
      OBVIOUS
  <2>2. QED
    BY <2>1 DEF selected_agent_sub_agents, Filter, Keep
<1>2. \A i \in T : s[i].enabled /\ is_agent_launchable(c, s[i])
  OBVIOUS
<1> HIDE DEF Chosen, T, r
<1>3. r \in Seq(ToSet(s)) /\ ToSet(r) = {s[i] : i \in DOMAIN s \cap T}
  BY <1>1, Kept
<1>4. ToSet(r) \subseteq Launchable(c)
  BY <1>2, <1>3 DEF Launchable, ToSet
<1>5. QED
  BY <1>3, <1>4 DEF r

(* A role for each agent of the scope that may be launched.                 *)
LEMMA RolesAre ==
  ASSUME NEW c, c.agents \in Seq(ToSet(c.agents))
  PROVE  LET roles == write_sirix_agent_role_files(c) IN
         /\ {roles[i].id : i \in DOMAIN roles} = {a.id : a \in Launchable(c)}
         /\ \A i \in DOMAIN roles : \E a \in Launchable(c) :
               /\ roles[i].model = session_picker_model_id(c.providers, resolve_agent_model(c, a))
               /\ roles[i].agents = {b.id : b \in ToSet(selected_agent_sub_agents(c, a))}
<1> DEFINE s == c.agents
           T == {i \in DOMAIN s : s[i].enabled /\ is_agent_launchable(c, s[i])}
           r == Filter(s, LAMBDA a : a.enabled /\ is_agent_launchable(c, a))
           RoleModel(a) == session_picker_model_id(c.providers, resolve_agent_model(c, a))
           Effort(a) == agent_model_reasoning_effort_for_model(a, resolve_agent_model(c, a))
           Subs(a) == {b.id : b \in ToSet(selected_agent_sub_agents(c, a))}
           Role(a) == [id |-> a.id, model |-> RoleModel(a), effort |-> Effort(a),
                       agents |-> Subs(a)]
           roles == write_sirix_agent_role_files(c)
<1>1. r = Keep(s, T)
  <2>1. [i \in DOMAIN s |-> IF i \in T THEN <<s[i]>> ELSE <<>>]
          = [i \in DOMAIN s |-> IF s[i].enabled /\ is_agent_launchable(c, s[i])
                                THEN <<s[i]>> ELSE <<>>]
    OBVIOUS
  <2>2. QED
    BY <2>1 DEF Filter, Keep
<1>2. roles = [i \in DOMAIN r |-> Role(r[i])]
  BY DEF write_sirix_agent_role_files
<1> HIDE DEF r
<1>3. ToSet(r) = {s[i] : i \in DOMAIN s \cap T}
  <2> HIDE DEF T
  <2>1. QED
    BY <1>1, Kept
<1>4. ToSet(r) = Launchable(c)
  BY <1>3 DEF Launchable, ToSet
<1> HIDE DEF RoleModel, Effort, Subs, roles, T
<1>5. DOMAIN roles = DOMAIN r /\ \A i \in DOMAIN r : roles[i] = Role(r[i])
  BY <1>2
<1>6. \A a : Role(a).id = a.id /\ Role(a).model = RoleModel(a) /\ Role(a).agents = Subs(a)
  OBVIOUS
<1> HIDE DEF Role
<1>7. \A i \in DOMAIN roles : \E a \in Launchable(c) :
         roles[i].id = a.id /\ roles[i].model = RoleModel(a) /\ roles[i].agents = Subs(a)
  BY <1>4, <1>5, <1>6 DEF ToSet
<1>8. \A a \in Launchable(c) : \E i \in DOMAIN roles : roles[i].id = a.id
  BY <1>4, <1>5, <1>6 DEF ToSet
<1>9. {roles[i].id : i \in DOMAIN roles} = {a.id : a \in Launchable(c)}
  BY <1>7, <1>8
<1>10. QED
  BY <1>7, <1>9 DEF roles, RoleModel, Subs

(* The bridge of any launch of a configuration is closed.                   *)
LEMMA BridgeClosed ==
  ASSUME NEW c \in Configs, NEW a, LaunchConfig(c, a) # None
  PROVE  BridgeIsClosed(build_codex_bridge_toml(c, LaunchConfig(c, a)))
<1> DEFINE launch == LaunchConfig(c, a)
           agent == launch.agent
           scoped == RoleScoped(c, agent)
           b == build_codex_bridge_toml(c, launch)
           ps == c.providers
<1>1. /\ c = SirixConfig(c.default_agent_id, c.close, c.providers, c.agents)
      /\ c.agents \in Seq(ToSet(c.agents)) /\ SoundProviders(ps)
  BY ConfigsAssumption
<1>2. launch.session_providers = Enabled(ps)
  BY DEF LaunchConfig, Launch, Enabled
<1> HIDE DEF launch
<1>3. /\ b.roles = write_sirix_agent_role_files(scoped)
      /\ b.agents = {x.id : x \in ToSet(selected_agent_sub_agents(scoped, agent))}
      /\ b.models = build_bridge_models_for_session(Enabled(ps), launch.model.provider)
  BY <1>2 DEF build_codex_bridge_toml
<1> HIDE DEF b, agent
<1>4. /\ scoped.providers = ps
      /\ scoped.agents = <<agent>> \o selected_agent_sub_agents(c, agent)
  BY <1>1 DEF RoleScoped, SirixConfig
<1> HIDE DEF scoped
<1>5. scoped.agents \in Seq(ToSet(scoped.agents))
  <2> DEFINE U == ToSet(c.agents) \cup {agent}
  <2>1. selected_agent_sub_agents(c, agent) \in Seq(U) /\ <<agent>> \in Seq(U)
    <3>1. selected_agent_sub_agents(c, agent) \in Seq(ToSet(c.agents))
      BY <1>1, SubAgents
    <3>2. QED
      BY <3>1
  <2>2. scoped.agents \in Seq(U)
    BY <1>4, <2>1
  <2>3. QED
    BY <2>2 DEF ToSet
<1>6. \A x : ToSet(selected_agent_sub_agents(scoped, x)) \subseteq Launchable(scoped)
  BY <1>5, SubAgents
<1>7. /\ {b.roles[i].id : i \in DOMAIN b.roles} = {x.id : x \in Launchable(scoped)}
      /\ \A i \in DOMAIN b.roles : \E x \in Launchable(scoped) :
            /\ b.roles[i].model = session_picker_model_id(ps, resolve_agent_model(scoped, x))
            /\ b.roles[i].agents = {y.id : y \in ToSet(selected_agent_sub_agents(scoped, x))}
  <2> DEFINE roles == write_sirix_agent_role_files(scoped)
  <2>1. /\ {roles[i].id : i \in DOMAIN roles} = {x.id : x \in Launchable(scoped)}
        /\ \A i \in DOMAIN roles : \E x \in Launchable(scoped) :
              /\ roles[i].model
                   = session_picker_model_id(scoped.providers, resolve_agent_model(scoped, x))
              /\ roles[i].agents = {y.id : y \in ToSet(selected_agent_sub_agents(scoped, x))}
    BY <1>5, RolesAre
  <2>2. b.roles = roles /\ scoped.providers = ps
    BY <1>3, <1>4
  <2> HIDE DEF roles, ps
  <2>3. QED
    BY <2>1, <2>2
<1>8. SoundProviders(Enabled(ps)) /\ Offered(Enabled(ps)) = Offered(ps)
  BY <1>1, EnabledProviders
<1>9. ASSUME NEW x \in Launchable(scoped)
      PROVE  \E j \in DOMAIN b.models :
                b.models[j].id = session_picker_model_id(ps, resolve_agent_model(scoped, x))
  <2> DEFINE m == resolve_agent_model(scoped, x)
  <2>1. m \in Offered(ps)
    <3>1. m \in Offered(scoped.providers) \cup {None}
      BY <1>1, <1>4, AgentModel, Sound
    <3>2. m # None
      BY DEF Launchable, is_agent_launchable
    <3>3. QED
      BY <1>4, <3>1, <3>2
  <2> HIDE DEF m
  <2>2. Entry(Enabled(ps), m) \in ToSet(b.models)
    BY <1>3, <1>8, <2>1, BridgeModels
  <2>3. session_picker_model_id(Enabled(ps), m) = session_picker_model_id(ps, m)
    BY <1>1, <1>8, DuplicatesAre DEF session_picker_model_id
  <2>4. \E j \in DOMAIN b.models : b.models[j] = Entry(Enabled(ps), m)
    BY <2>2 DEF ToSet
  <2>5. QED
    BY <2>3, <2>4 DEF Entry, m
<1>10. \A i \in DOMAIN b.roles : \E j \in DOMAIN b.models : b.models[j].id = b.roles[i].model
  BY <1>7, <1>9
<1>11. /\ b.agents \subseteq {b.roles[i].id : i \in DOMAIN b.roles}
       /\ \A i \in DOMAIN b.roles :
             b.roles[i].agents \subseteq {b.roles[j].id : j \in DOMAIN b.roles}
  <2> DEFINE ids == {b.roles[i].id : i \in DOMAIN b.roles}
             Subs(x) == {y.id : y \in ToSet(selected_agent_sub_agents(scoped, x))}
  <2>1. \A x : Subs(x) \subseteq {y.id : y \in Launchable(scoped)}
    BY <1>6
  <2>2. \A x : Subs(x) \subseteq ids
    BY <1>7, <2>1
  <2>3. b.agents = Subs(agent)
    BY <1>3
  <2>4. \A i \in DOMAIN b.roles : \E x : b.roles[i].agents = Subs(x)
    BY <1>7
  <2> HIDE DEF Subs, ids
  <2>5. b.agents \subseteq ids /\ \A i \in DOMAIN b.roles : b.roles[i].agents \subseteq ids
    BY <2>2, <2>3, <2>4
  <2>6. QED
    BY <2>5 DEF ids
<1>12. QED
  BY <1>10, <1>11 DEF BridgeIsClosed, b, launch

-----------------------------------------------------------------------------
(* A launch is possible                                                    *)

(* Agents, lists of them, and configurations have the fields of their kind. *)
IsAgent(a) ==
  a = [id |-> a.id, provider_id |-> a.provider_id, model_id |-> a.model_id,
       fallback |-> a.fallback, effort |-> a.effort, enabled |-> a.enabled, stock |-> a.stock,
       sub_agents_enabled |-> a.sub_agents_enabled, sub_agent_ids |-> a.sub_agent_ids]

AreAgents(s) == IsList(s) /\ \A a \in ToSet(s) : IsAgent(a)

IsConfig(c) ==
  /\ c = SirixConfig(c.default_agent_id, c.close, c.providers, c.agents)
  /\ AreProviders(c.providers) /\ AreAgents(c.agents)

(* None is no agent, no model of a provider and no launch.                  *)
NoneIsApart ==
  /\ \A a : IsAgent(a) => a # None
  /\ \A p, m : Choice(p, m) # None
  /\ \A a, m, ps : [agent |-> a, model |-> m, session_providers |-> ps] # None

(* The built-in profile, and it is enabled.                                 *)
IsCodex(a) == a.id = DEFAULT_AGENT_ID /\ a.enabled = TRUE

(* Every codex of a list is enabled.                                        *)
CodexEnabled(s) == \A a \in ToSet(s) : a.id = DEFAULT_AGENT_ID => IsCodex(a)

(* What passes a test is found, if anything does.                           *)
LEMMA FirstOfFound ==
  ASSUME NEW t, NEW I \in SUBSET (1..Len(t)), t \in Seq(ToSet(t)), None \notin ToSet(t), I # {}
  PROVE  FirstOf(t, I) # None
<1>1. I \in SUBSET Nat /\ DOMAIN t = 1..Len(t) /\ Min(I) \in I
  BY FirstIndex
<1>2. t[Min(I)] \in ToSet(t)
  BY <1>1 DEF ToSet
<1>3. QED
  BY <1>1, <1>2 DEF FirstOf

(* With a text model on offer there is a first.                            *)
LEMMA FirstModel ==
  ASSUME NoneIsApart, NEW ps, AreProviders(ps), TextModels(ps) # <<>>
  PROVE  first_enabled_text_model(ps) # None
<1> DEFINE t == TextModels(ps)
           I == {i \in 1..Len(t) : TRUE}
<1>1. t \in Seq(ToSet(t)) /\ ToSet(t) = Offered(ps) /\ t # <<>>
  BY TextModelsAre
<1>2. first_enabled_text_model(ps) = FirstOf(t, I)
  BY DEF first_enabled_text_model, First, At, SelectInSeq, FirstOf
<1>3. None \notin Offered(ps)
  BY DEF NoneIsApart, Offered, Offers
<1> HIDE DEF t
<1>4. I \in SUBSET (1..Len(t)) /\ I # {}
  <2>1. Len(t) \in Nat /\ Len(t) # 0
    BY <1>1
  <2>2. 1 \in I
    BY <2>1
  <2>3. QED
    BY <2>2
<1> HIDE DEF I
<1>5. QED
  BY <1>1, <1>2, <1>3, <1>4, FirstOfFound

(* So every agent has a model.                                             *)
LEMMA ModelForAll ==
  ASSUME NoneIsApart, NEW c, AreProviders(c.providers), TextModels(c.providers) # <<>>, NEW agent
  PROVE  is_agent_launchable(c, agent)
<1>1. resolve_cli_default_model(c) # None
  BY FirstModel DEF resolve_cli_default_model, OrElse
<1>2. QED
  BY <1>1 DEF is_agent_launchable, resolve_agent_model, OrElse

(* An enabled agent that can be launched makes a launch.                    *)
LEMMA AgentFound ==
  ASSUME NEW c, c.agents \in Seq(ToSet(c.agents)), None \notin ToSet(c.agents),
         NEW a \in Launchable(c), NEW preferred
  PROVE  resolve_agent(c, preferred) # None
<1> DEFINE s == c.agents
           T == {i \in DOMAIN s : s[i].enabled /\ is_agent_launchable(c, s[i])}
           usable == Filter(s, LAMBDA x : x.enabled /\ is_agent_launchable(c, x))
<1>1. usable = Keep(s, T)
  <2>1. [i \in DOMAIN s |-> IF i \in T THEN <<s[i]>> ELSE <<>>]
          = [i \in DOMAIN s |-> IF s[i].enabled /\ is_agent_launchable(c, s[i])
                                THEN <<s[i]>> ELSE <<>>]
    OBVIOUS
  <2>2. QED
    BY <2>1 DEF Filter, Keep
<1>2. \E i \in T : TRUE
  BY DEF Launchable, ToSet
<1>3. \A i \in T : i \in DOMAIN s
  OBVIOUS
<1> DEFINE ids == <<preferred, c.default_agent_id, DEFAULT_AGENT_ID>>
           three == [i \in DOMAIN ids |-> First(usable, LAMBDA x : x.id = ids[i])]
           l == three \o usable
           I == {i \in 1..Len(l) : l[i] # None}
<1>4. resolve_agent(c, preferred) = FirstOf(l, I)
  BY DEF resolve_agent, FirstNamed, First, At, SelectInSeq, FirstOf
<1>5. three = [i \in 1..3 |-> three[i]]
  OBVIOUS
<1> HIDE DEF T, usable, three, l, s
<1>6. usable \in Seq(ToSet(s)) /\ ToSet(usable) = {s[i] : i \in DOMAIN s \cap T}
  <2>1. s \in Seq(ToSet(s))
    BY DEF s
  <2>2. QED
    BY <1>1, <2>1, Kept
<1>7. \E x \in ToSet(usable) : x # None
  <2>1. PICK i \in T : TRUE
    BY <1>2
  <2>2. i \in DOMAIN s
    BY <1>3, <2>1
  <2>3. s[i] \in ToSet(usable) /\ s[i] \in ToSet(s)
    BY <1>6, <2>1, <2>2 DEF ToSet
  <2>4. None \notin ToSet(s)
    BY DEF s
  <2>5. QED
    BY <2>3, <2>4
<1> DEFINE U == ToSet(s) \cup ToSet(three)
<1>8. three \in Seq(U) /\ usable \in Seq(U)
  <2>1. \A i \in 1..3 : three[i] \in ToSet(three)
    BY <1>5 DEF ToSet
  <2>2. three \in Seq(ToSet(three))
    BY <1>5, <2>1
  <2>3. QED
    BY <1>6, <2>2
<1> HIDE DEF U
<1>9. l \in Seq(U) /\ ToSet(l) = ToSet(three) \cup ToSet(usable)
  BY <1>8, Concatenation DEF l
<1>10. I \in SUBSET Nat /\ I # {}
  <2>1. PICK x : x \in ToSet(l) /\ x # None
    BY <1>7, <1>9
  <2>2. PICK i \in DOMAIN l : l[i] = x
    BY <2>1 DEF ToSet
  <2>3. i \in I
    BY <1>9, <2>1, <2>2
  <2>4. QED
    BY <2>3
<1>11. Min(I) \in I
  BY <1>10, FirstIndex
<1>12. Min(I) # 0 /\ l[Min(I)] # None
  BY <1>11
<1> HIDE DEF I
<1>13. QED
  BY <1>4, <1>10, <1>12 DEF FirstOf

(* Normalising an agent keeps it one, by the same name.                     *)
LEMMA Normalised ==
  ASSUME NEW a, IsAgent(a)
  PROVE  LET n == normalize_builtin_codex_agent(a) IN
         /\ IsAgent(n) /\ n.id = a.id /\ (a.id = DEFAULT_AGENT_ID => IsCodex(n))
<1>1. CASE a.id = DEFAULT_AGENT_ID
  BY <1>1 DEF IsAgent, normalize_builtin_codex_agent, IsCodex
<1>2. CASE a.id # DEFAULT_AGENT_ID
  BY <1>2 DEF normalize_builtin_codex_agent, IsCodex
<1>3. QED
  BY <1>1, <1>2

(* A list over the places of another.                                       *)
LEMMA Listed ==
  ASSUME NEW s, IsList(s), NEW t, t = [i \in DOMAIN s |-> t[i]]
  PROVE  /\ IsList(t) /\ DOMAIN t = DOMAIN s
         /\ \A i \in DOMAIN t : t[i] \in ToSet(t)
         /\ \A x \in ToSet(t) : \E i \in DOMAIN s : x = t[i]
<1>1. DOMAIN s = 1..Len(s) /\ Len(s) \in Nat
  BY DEF IsList
<1>2. t = [i \in 1..Len(s) |-> t[i]] /\ \A i \in 1..Len(s) : t[i] \in ToSet(t)
  BY <1>1 DEF ToSet
<1>3. QED
  BY <1>1, <1>2 DEF IsList, ToSet

(* A sequence is a list of what it holds.                                  *)
LEMMA Relisted ==
  ASSUME NEW U, NEW s \in Seq(U)
  PROVE  IsList(s)
<1>1. s = [i \in 1..Len(s) |-> s[i]] /\ Len(s) \in Nat
  OBVIOUS
<1>2. \A i \in 1..Len(s) : s[i] \in ToSet(s)
  BY <1>1 DEF ToSet
<1>3. QED
  BY <1>1, <1>2 DEF IsList

(* So does normalising a list of agents.                                    *)
LEMMA AllNormalised ==
  ASSUME NEW s, AreAgents(s), NEW t,
         t = [i \in DOMAIN s |-> normalize_builtin_codex_agent(s[i])]
  PROVE  /\ AreAgents(t) /\ CodexEnabled(t)
         /\ {t[i].id : i \in DOMAIN t} = {s[i].id : i \in DOMAIN s}
<1>1. \A i \in DOMAIN s : IsAgent(s[i])
  BY DEF AreAgents, ToSet
<1>2. \A i \in DOMAIN s : /\ IsAgent(t[i]) /\ t[i].id = s[i].id
                          /\ s[i].id = DEFAULT_AGENT_ID => IsCodex(t[i])
  BY <1>1, Normalised
<1>3. /\ IsList(t) /\ DOMAIN t = DOMAIN s
      /\ \A x \in ToSet(t) : \E i \in DOMAIN s : x = t[i]
  BY Listed DEF AreAgents
<1>4. AreAgents(t) /\ CodexEnabled(t)
  BY <1>2, <1>3 DEF AreAgents, CodexEnabled
<1>5. QED
  BY <1>2, <1>3, <1>4

(* The agents of before codex had its name.                                 *)
LEMMA Migrated ==
  ASSUME NEW s, AreAgents(s)
  PROVE  AreAgents(migrate_default_agent_to_codex(s))
<1> DEFINE m == migrate_default_agent_to_codex(s)
           T == {i \in DOMAIN s : s[i].id # LEGACY_DEFAULT_AGENT_ID}
           l == SelectInSeq(s, LAMBDA a : a.id = LEGACY_DEFAULT_AGENT_ID)
<1>1. \/ m = Keep(s, T)
      \/ m = s
      \/ m = [s EXCEPT ![l].id = DEFAULT_AGENT_ID]
  <2>1. [i \in DOMAIN s |-> IF i \in T THEN <<s[i]>> ELSE <<>>]
          = [i \in DOMAIN s |-> IF s[i].id # LEGACY_DEFAULT_AGENT_ID THEN <<s[i]>> ELSE <<>>]
    OBVIOUS
  <2>2. Filter(s, LAMBDA a : a.id # LEGACY_DEFAULT_AGENT_ID) = Keep(s, T)
    BY <2>1 DEF Filter, Keep
  <2>3. QED
    BY <2>2 DEF migrate_default_agent_to_codex
<1> HIDE DEF m, T, l
<1>2. CASE m = Keep(s, T)
  <2>1. m \in Seq(ToSet(s)) /\ ToSet(m) = {s[i] : i \in DOMAIN s \cap T}
    BY <1>2, Kept DEF AreAgents, IsList
  <2>2. m \in Seq(ToSet(m)) /\ ToSet(m) \subseteq ToSet(s)
    <3>1. m = [i \in 1..Len(m) |-> m[i]] /\ Len(m) \in Nat
      BY <2>1
    <3>2. \A i \in 1..Len(m) : m[i] \in ToSet(m)
      BY <3>1 DEF ToSet
    <3>3. QED
      BY <2>1, <3>1, <3>2 DEF ToSet
  <2>3. QED
    BY <2>2 DEF AreAgents, IsList, m
<1>3. CASE m = [s EXCEPT ![l].id = DEFAULT_AGENT_ID]
  <2>1. m = [i \in DOMAIN s |-> m[i]]
        /\ \A i \in DOMAIN s : m[i] = s[i] \/ m[i] = [s[i] EXCEPT !.id = DEFAULT_AGENT_ID]
    BY <1>3 DEF AreAgents, IsList
  <2>2. \A i \in DOMAIN s : IsAgent(s[i])
    BY DEF AreAgents, ToSet
  <2>3. \A i \in DOMAIN s : IsAgent(m[i])
    <3>1. ASSUME NEW a, IsAgent(a) PROVE IsAgent([a EXCEPT !.id = DEFAULT_AGENT_ID])
      BY <3>1 DEF IsAgent
    <3>2. QED
      BY <2>1, <2>2, <3>1
  <2>4. QED
    BY <2>1, <2>3, Listed DEF AreAgents, m
<1>4. QED
  BY <1>1, <1>2, <1>3 DEF m

(* Two lists of agents, one after the other.                                *)
LEMMA Joined ==
  ASSUME NEW s, AreAgents(s), NEW t, AreAgents(t)
  PROVE  AreAgents(s \o t) /\ ToSet(s \o t) = ToSet(s) \cup ToSet(t)
<1> DEFINE U == ToSet(s) \cup ToSet(t)
<1>1. s \in Seq(U) /\ t \in Seq(U)
  BY DEF AreAgents, IsList
<1> HIDE DEF U
<1>2. ToSet(s \o t) = ToSet(s) \cup ToSet(t) /\ s \o t \in Seq(U)
  BY <1>1, Concatenation
<1>3. QED
  BY <1>2 DEF U, AreAgents, IsList

(* The codex made anew, with sub-agents.                                    *)
NewCodex(p, m, ids) == [AgentConfig(DEFAULT_AGENT_ID, p, m) EXCEPT !.sub_agent_ids = ids]

(* It is enabled.                                                          *)
LEMMA NewCodexIs ==
  ASSUME NEW p, NEW m, NEW ids, NEW codex, codex = NewCodex(p, m, ids)
  PROVE  IsAgent(codex) /\ IsCodex(codex)
<1>1. PICK f, e :
        AgentConfig(DEFAULT_AGENT_ID, p, m)
          = [id |-> DEFAULT_AGENT_ID, provider_id |-> p, model_id |-> m, fallback |-> f,
             effort |-> e, enabled |-> TRUE, stock |-> TRUE,
             sub_agents_enabled |-> TRUE, sub_agent_ids |-> {}]
  BY Zenon DEF AgentConfig
<1>2. PICK r : r = AgentConfig(DEFAULT_AGENT_ID, p, m)
  OBVIOUS
<1>3. IsAgent(r) /\ r.id = DEFAULT_AGENT_ID /\ r.enabled = TRUE
  BY <1>1, <1>2 DEF IsAgent
<1>4. codex = [r EXCEPT !.sub_agent_ids = ids]
  BY <1>2 DEF NewCodex
<1>5. QED
  BY <1>3, <1>4 DEF IsAgent, IsCodex

(* A normalised configuration has an enabled codex, if it offers a text     *)
(* model.                                                                  *)
LEMMA CodexIsThere ==
  ASSUME NoneIsApart, NEW g, IsConfig(g), NEW presets
  PROVE  LET n == normalize_sirix_config(g, presets) IN
         /\ IsConfig(n) /\ n.providers = g.providers /\ CodexEnabled(n.agents)
         /\ TextModels(g.providers) # <<>> => \E a \in ToSet(n.agents) : IsCodex(a)
<1> DEFINE m == migrate_default_agent_to_codex(g.agents)
           agents == [i \in DOMAIN m |-> normalize_builtin_codex_agent(m[i])]
           ids == {agents[i].id : i \in DOMAIN agents}
           first == first_enabled_text_model(g.providers)
           codex == [AgentConfig(DEFAULT_AGENT_ID, first.provider, first.model) EXCEPT
                       !.sub_agent_ids = {presets[i].id : i \in DOMAIN presets} \cap ids]
           n == normalize_sirix_config(g, presets)
<1>1. AreAgents(agents) /\ CodexEnabled(agents)
  <2>1. AreAgents(m)
    BY Migrated DEF IsConfig
  <2> HIDE DEF m
  <2>2. QED
    BY <2>1, AllNormalised
<1>2. IsAgent(codex) /\ IsCodex(codex)
  <2>1. PICK q, w, subs : codex = NewCodex(q, w, subs)
    BY Zenon DEF NewCodex
  <2> HIDE DEF codex
  <2>2. QED
    BY <2>1, NewCodexIs
<1>3. /\ n.providers = g.providers
      /\ n = SirixConfig(n.default_agent_id, n.close, n.providers, n.agents)
      /\ n.agents = IF DEFAULT_AGENT_ID \in ids \/ first = None THEN agents
                    ELSE <<codex>> \o agents
  <2> DEFINE A == IF DEFAULT_AGENT_ID \in ids \/ first = None THEN agents
                  ELSE <<codex>> \o agents
  <2>1. PICK d : n = [g EXCEPT !.default_agent_id = d, !.agents = A]
    BY Zenon DEF normalize_sirix_config
  <2> HIDE DEF A, n
  <2>2. g = SirixConfig(g.default_agent_id, g.close, g.providers, g.agents)
    BY DEF IsConfig
  <2>3. /\ n.providers = g.providers /\ n.agents = A
        /\ n = SirixConfig(n.default_agent_id, n.close, n.providers, n.agents)
    BY <2>1, <2>2 DEF SirixConfig
  <2>4. QED
    BY <2>3 DEF A
<1>4. \A i \in DOMAIN agents : agents[i] \in ToSet(agents)
  BY DEF ToSet
<1> HIDE DEF agents, codex, n
<1>5. CASE DEFAULT_AGENT_ID \in ids
  <2>1. n.agents = agents
    BY <1>3, <1>5
  <2>2. \E a \in ToSet(agents) : IsCodex(a)
    BY <1>1, <1>4, <1>5 DEF CodexEnabled
  <2>3. QED
    BY <1>1, <1>3, <2>1, <2>2 DEF IsConfig, n
<1>6. CASE DEFAULT_AGENT_ID \notin ids /\ first = None
  <2>1. n.agents = agents
    BY <1>3, <1>6
  <2>2. TextModels(g.providers) = <<>>
    BY <1>6, FirstModel DEF IsConfig
  <2>3. QED
    BY <1>1, <1>3, <2>1, <2>2 DEF IsConfig, n
<1>7. CASE DEFAULT_AGENT_ID \notin ids /\ first # None
  <2>1. n.agents = <<codex>> \o agents
    BY <1>3, <1>7
  <2>2. AreAgents(<<codex>>) /\ ToSet(<<codex>>) = {codex}
    BY <1>2 DEF AreAgents, IsList, ToSet
  <2>3. AreAgents(n.agents) /\ ToSet(n.agents) = {codex} \cup ToSet(agents)
    BY <1>1, <2>1, <2>2, Joined
  <2>4. QED
    BY <1>1, <1>2, <1>3, <2>3 DEF CodexEnabled, IsConfig, n
<1>8. QED
  BY <1>5, <1>6, <1>7

(* So has the default configuration.                                       *)
LEMMA DefaultHasCodex ==
  ASSUME NEW presets, AreAgents(presets), CodexEnabled(presets)
  PROVE  LET n == DefaultConfig(presets) IN
         IsConfig(n) /\ CodexEnabled(n.agents) /\ \E a \in ToSet(n.agents) : IsCodex(a)
<1> DEFINE n == DefaultConfig(presets)
           codex == [AgentConfig(DEFAULT_AGENT_ID, "openai", "gpt5") EXCEPT
                       !.sub_agent_ids = {presets[i].id : i \in DOMAIN presets}]
           m == Model("gpt5", TRUE, TRUE, None)
           p == Provider("openai", TRUE, <<m>>)
<1>1. IsAgent(codex) /\ IsCodex(codex)
  <2>1. PICK q, w, subs : codex = NewCodex(q, w, subs)
    BY Zenon DEF NewCodex
  <2> HIDE DEF codex
  <2>2. QED
    BY <2>1, NewCodexIs
<1>2. /\ n.agents = <<codex>> \o presets /\ n.providers = <<p>>
      /\ n = SirixConfig(n.default_agent_id, n.close, n.providers, n.agents)
  BY DEF DefaultConfig, default_agent_catalog, SirixConfig
<1>3. p.models = <<m>>
  BY DEF Provider
<1> HIDE DEF n, codex, p, m
<1>4. ToSet(<<p>>) = {p} /\ IsList(<<p>>) /\ IsList(<<m>>)
  BY DEF IsList, ToSet
<1>5. AreProviders(<<p>>)
  BY <1>3, <1>4 DEF AreProviders
<1>6. AreAgents(<<codex>>) /\ ToSet(<<codex>>) = {codex}
  BY <1>1 DEF AreAgents, IsList, ToSet
<1>7. AreAgents(n.agents) /\ ToSet(n.agents) = {codex} \cup ToSet(presets)
  BY <1>2, <1>6, Joined
<1>8. QED
  BY <1>1, <1>2, <1>5, <1>7 DEF IsConfig, CodexEnabled, n

(* What a workspace declares is a list of agents, without providers.        *)
LEMMA Overlay ==
  ASSUME NEW o, AreAgents(o.agents)
  PROVE  LET w == normalize_workspace_editable_config(o)
         IN  AreAgents(w.agents) /\ CodexEnabled(w.agents) /\ w.providers = <<>>
<1> DEFINE t == [i \in DOMAIN o.agents |-> normalize_workspace_agent(o.agents[i])]
           w == normalize_workspace_editable_config(o)
           d == dedup_by_id(t)
<1>1. w.agents = d /\ w.providers = <<>>
  BY DEF normalize_workspace_editable_config, WorkspaceEditable, SirixConfig
<1>2. AreAgents(t) /\ CodexEnabled(t)
  BY AllNormalised DEF normalize_workspace_agent
<1> HIDE DEF t, w
<1>3. d \in Seq(ToSet(t)) /\ ToSet(d) \subseteq ToSet(t)
  BY <1>2, Deduped DEF AreAgents, IsList
<1> HIDE DEF d
<1>4. IsList(d)
  BY <1>3, Relisted
<1>5. QED
  BY <1>1, <1>2, <1>3, <1>4 DEF AreAgents, CodexEnabled, w

(* Merging keeps an enabled codex.                                         *)
LEMMA MergedAgents ==
  ASSUME NEW base, AreAgents(base), CodexEnabled(base), NEW over, AreAgents(over),
         CodexEnabled(over), \E a \in ToSet(base) : IsCodex(a)
  PROVE  LET m == merge_items_by_id(base, over)
         IN  AreAgents(m) /\ \E a \in ToSet(m) : IsCodex(a)
<1> DEFINE Own(i) == {j \in DOMAIN over : over[j].id = base[i].id}
           own(i) == Filter(over, LAMBDA x : x.id = base[i].id)
           left == [i \in DOMAIN base |-> IF own(i) = <<>> THEN base[i] ELSE Last(own(i))]
           T == {j \in DOMAIN over : \A i \in DOMAIN base : base[i].id # over[j].id}
           right == Filter(over, LAMBDA x : \A i \in DOMAIN base : base[i].id # x.id)
           m == merge_items_by_id(base, over)
<1>1. m = left \o right
  BY DEF merge_items_by_id
<1>2. \A i : own(i) = Keep(over, Own(i))
  <2>1. ASSUME NEW i
        PROVE  [j \in DOMAIN over |-> IF j \in Own(i) THEN <<over[j]>> ELSE <<>>]
                 = [j \in DOMAIN over |-> IF over[j].id = base[i].id THEN <<over[j]>> ELSE <<>>]
    OBVIOUS
  <2>2. QED
    BY <2>1 DEF Filter, Keep
<1>3. right = Keep(over, T)
  <2>1. [j \in DOMAIN over |-> IF j \in T THEN <<over[j]>> ELSE <<>>]
          = [j \in DOMAIN over |-> IF \A i \in DOMAIN base : base[i].id # over[j].id
                                   THEN <<over[j]>> ELSE <<>>]
    OBVIOUS
  <2>2. QED
    BY <2>1 DEF Filter, Keep
<1>4. \A i : \A j \in DOMAIN over \cap Own(i) : over[j].id = base[i].id
  OBVIOUS
<1> HIDE DEF own, Own, T, right, m
<1>5. over \in Seq(ToSet(over))
  BY DEF AreAgents, IsList
<1>6. ASSUME NEW i
      PROVE  /\ own(i) \in Seq(ToSet(over))
             /\ \A x \in ToSet(own(i)) : x \in ToSet(over) /\ x.id = base[i].id
  <2>1. /\ Keep(over, Own(i)) \in Seq(ToSet(over))
        /\ ToSet(Keep(over, Own(i))) = {over[j] : j \in DOMAIN over \cap Own(i)}
    BY <1>5, Kept
  <2>2. own(i) = Keep(over, Own(i))
    BY <1>2
  <2>3. ASSUME NEW x \in ToSet(own(i)) PROVE x \in ToSet(over) /\ x.id = base[i].id
    <3>1. PICK j \in DOMAIN over \cap Own(i) : x = over[j]
      BY <2>1, <2>2, <2>3
    <3>2. QED
      BY <1>4, <3>1 DEF ToSet
  <2>4. QED
    BY <2>1, <2>2, <2>3
<1>7. AreAgents(right)
  <2>1. right \in Seq(ToSet(over)) /\ ToSet(right) = {over[j] : j \in DOMAIN over \cap T}
    BY <1>3, <1>5, Kept
  <2>2. ToSet(right) \subseteq ToSet(over)
    BY <2>1 DEF ToSet
  <2>3. QED
    BY <2>1, <2>2, Relisted DEF AreAgents
<1>8. ASSUME NEW i \in DOMAIN base
      PROVE  /\ IsAgent(left[i]) /\ left[i].id = base[i].id
             /\ base[i].id = DEFAULT_AGENT_ID => IsCodex(left[i])
  <2>1. base[i] \in ToSet(base)
    BY DEF ToSet
  <2>2. CASE own(i) = <<>>
    BY <2>1, <2>2 DEF AreAgents, CodexEnabled
  <2>3. CASE own(i) # <<>>
    <3>1. Last(own(i)) \in ToSet(own(i))
      <4>1. Len(own(i)) \in DOMAIN own(i)
        BY <1>6, <2>3
      <4>2. QED
        BY <4>1 DEF Last, ToSet
    <3>2. left[i] = Last(own(i))
      BY <2>3
    <3> HIDE DEF left
    <3>3. left[i] \in ToSet(over) /\ left[i].id = base[i].id
      BY <1>6, <3>1, <3>2
    <3>4. QED
      BY <3>3 DEF AreAgents, CodexEnabled
  <2>4. QED
    BY <2>2, <2>3
<1>9. left = [i \in DOMAIN base |-> left[i]]
  OBVIOUS
<1> HIDE DEF left
<1>10. /\ IsList(left) /\ \A i \in DOMAIN left : left[i] \in ToSet(left)
       /\ \A x \in ToSet(left) : \E i \in DOMAIN base : x = left[i]
       /\ DOMAIN left = DOMAIN base
  BY <1>9, Listed DEF AreAgents
<1>11. AreAgents(left)
  BY <1>8, <1>10 DEF AreAgents
<1>12. \E a \in ToSet(left) : IsCodex(a)
  <2>1. PICK i \in DOMAIN base : base[i].id = DEFAULT_AGENT_ID
    BY DEF ToSet, IsCodex
  <2>2. QED
    BY <1>8, <1>10, <2>1
<1>13. AreAgents(m) /\ ToSet(m) = ToSet(left) \cup ToSet(right)
  BY <1>1, <1>7, <1>11, Joined
<1>14. QED
  BY <1>12, <1>13 DEF m

(* A launch finds an agent and a model for it, as long as a text model is   *)
(* on offer: without a file, with one of any contents and whichever agents  *)
(* are left beside it, and with whatever a workspace declares.  The name it *)
(* asks for may be of no agent (load_global, effective_for_workspace).      *)
THEOREM LaunchFindsAgent ==
  ASSUME NoneIsApart,
         NEW presets, AreAgents(presets), CodexEnabled(presets), NEW g, IsConfig(g),
         NEW global, global \in {DefaultConfig(presets), normalize_sirix_config(g, presets)},
         NEW o, AreAgents(o.agents),
         NEW merged, merged = merge_sirix_config(global, normalize_workspace_editable_config(o)),
         NEW close, NEW c, c \in {global, merged, [merged EXCEPT !.close = close]},
         TextModels(c.providers) # <<>>, NEW preferred
  PROVE  LaunchConfig(c, preferred) # None
<1>1. /\ IsConfig(global) /\ CodexEnabled(global.agents)
      /\ TextModels(global.providers) # <<>> => \E a \in ToSet(global.agents) : IsCodex(a)
  BY CodexIsThere, DefaultHasCodex
<1> DEFINE w == normalize_workspace_editable_config(o)
<1>2. AreAgents(w.agents) /\ CodexEnabled(w.agents) /\ w.providers = <<>>
  BY Overlay
<1> HIDE DEF w
<1>3. /\ merged.providers = global.providers
      /\ merged.agents = merge_items_by_id(global.agents, w.agents)
      /\ [merged EXCEPT !.close = close].providers = merged.providers
      /\ [merged EXCEPT !.close = close].agents = merged.agents
  BY <1>2 DEF merge_sirix_config, SirixConfig, w
<1>4. /\ c.providers = global.providers
      /\ c.agents = global.agents \/ c.agents = merge_items_by_id(global.agents, w.agents)
  BY <1>3
<1>5. \E a \in ToSet(global.agents) : IsCodex(a)
  BY <1>1, <1>4
<1>6. AreAgents(c.agents) /\ \E a \in ToSet(c.agents) : IsCodex(a)
  BY <1>1, <1>2, <1>4, <1>5, MergedAgents DEF IsConfig
<1>7. PICK a \in ToSet(c.agents) : IsCodex(a)
  BY <1>6
<1>8. a \in Launchable(c)
  BY <1>1, <1>4, <1>7, ModelForAll DEF Launchable, IsCodex, IsConfig
<1>9. resolve_agent(c, preferred) # None
  BY <1>6, <1>8, AgentFound DEF AreAgents, IsList, NoneIsApart
<1>10. QED
  BY <1>9 DEF LaunchConfig, Launch, NoneIsApart

USE BoundsAssumption, NoneAssumption

-----------------------------------------------------------------------------
(* The invariant                                                           *)

(* Records of the registry and of a call have the fields they are made of. *)
IsFallback(f) ==
  /\ f = [primary |-> f.primary, fallback |-> f.fallback, count |-> f.count,
          disabled |-> f.disabled]
  /\ f.count \in Nat /\ f.disabled \in {"no", "yes", "past"}

IsRouting(r) ==
  /\ r = [active |-> r.active, providers |-> r.providers, agent |-> r.agent,
          fallback |-> r.fallback]
  /\ IsFallback(r.fallback)

IsCall(c) ==
  /\ c.session \in Sessions
  /\ \/ /\ c.kind = "launch"
        /\ c = [kind |-> "launch", session |-> c.session, terminal |-> c.terminal,
                agent |-> c.agent, launch |-> c.launch, new |-> c.new]
        /\ c.terminal \in Terminals /\ c.agent \in AgentNames
     \/ /\ c.kind = "switch"
        /\ c = [kind |-> "switch", session |-> c.session, launch |-> c.launch]
     \/ /\ c.kind = "proxy"
        /\ c = [kind |-> "proxy", session |-> c.session, requested |-> c.requested,
                slug |-> c.slug, alias |-> c.alias, effective |-> c.effective,
                provider |-> c.provider]

Typed ==
  /\ config \in Configs /\ served \in Nat /\ crossed \subseteq Sessions
  /\ sessions \in [Sessions -> Terminals \cup {None}]
  /\ terminal_index = [t \in Terminals |-> terminal_index[t]]
  /\ provider_index = [s \in Sessions |-> provider_index[s]]
  /\ files = [s \in Sessions |-> files[s]]
  /\ calls = [k \in Calls |-> calls[k]]
  /\ \A k \in Calls : calls[k] # None => IsCall(calls[k])
  /\ \A s \in Sessions : Live(s) => IsRouting(provider_index[s])

(* Files `f` were written for `launch`, under some configuration.          *)
WrittenFor(f, launch) ==
  \E c \in Configs : \E a \in AgentNames :
     /\ LaunchConfig(c, a) # None /\ launch = LaunchConfig(c, a)
     /\ f = LaunchFiles(c, launch)

(* Call k works on session s, in the given way.                            *)
Works(kind, k, s) == calls[k] # None /\ calls[k].kind = kind /\ calls[k].session = s

(* A session is launched once, before it is there; it is switched once it   *)
(* was there.                                                              *)
OneLaunch(s) ==
  \A k \in Calls : Works("launch", k, s) =>
     /\ ~Live(s)
     /\ \A j \in Calls : Works("launch", j, s) => j = k
     /\ \A j \in Calls : ~Works("switch", j, s)
     /\ calls[k].launch # None => WrittenFor(files[s], calls[k].launch)

(* Who was there, or is being switched, has files.                         *)
KeepsFiles(s) ==
  Live(s) \/ (\E k \in Calls : Works("switch", k, s)) => files[s] # None

(* Unless two switches of it ran at once, a session has at most one, whose  *)
(* files are written; without one, its routing is that of its files.       *)
OneSwitch(s) ==
  s \notin crossed =>
    /\ \A k, j \in Calls : Works("switch", k, s) /\ Works("switch", j, s) => j = k
    /\ \A k \in Calls : Works("switch", k, s) /\ Live(s) => WrittenFor(files[s], calls[k].launch)
    /\ Live(s) /\ (\A k \in Calls : ~Works("switch", k, s)) =>
         \E launch : /\ WrittenFor(files[s], launch)
                     /\ provider_index[s].agent = launch.agent.id
                     /\ provider_index[s].providers = launch.session_providers
                     /\ provider_index[s].active = launch.model.provider
                     /\ provider_index[s].fallback.primary = launch.model.model

FilesFollow == \A s \in Sessions : OneLaunch(s) /\ KeepsFiles(s) /\ OneSwitch(s)

(* What a call carries to the registry.                                     *)
Carries(c) == c.kind = "switch" \/ (c.kind = "launch" /\ c.launch # None)

(* Sessions, and calls on their way to the registry, have sound providers.   *)
RoutingIsSound ==
  /\ \A s \in Sessions : Live(s) => SoundProviders(provider_index[s].providers)
  /\ \A k \in Calls :
        calls[k] # None /\ Carries(calls[k]) => SoundProviders(calls[k].launch.session_providers)

IInv == Typed /\ BreakerEarned /\ FilesFollow /\ RoutingIsSound

-----------------------------------------------------------------------------
(* Operators                                                               *)

(* The agents of the configuration in force are known.                     *)
LEMMA KnownAgent == ASSUME Typed, NEW a \in AgentIds(config) PROVE a \in AgentNames
  BY DEF Typed, AgentNames

(* A launch of a known agent has files, and its bridge is closed.           *)
LEMMA LaunchHasFiles ==
  ASSUME Typed, NEW a \in AgentNames, LaunchConfig(config, a) # None
  PROVE  WrittenFor(LaunchFiles(config, LaunchConfig(config, a)), LaunchConfig(config, a))
  BY DEF Typed, WrittenFor

(* Files that were written are there and closed.                            *)
LEMMA WrittenFiles ==
  ASSUME NEW f, NEW launch, WrittenFor(f, launch)
  PROVE  /\ f # None /\ f.agent = launch.agent.id
         /\ f.bridge.model = launch.model.model
         /\ f.bridge.models
              = build_bridge_models_for_session(launch.session_providers, launch.model.provider)
         /\ BridgeIsClosed(f.bridge)
<1>1. PICK c \in Configs, a \in AgentNames :
        /\ LaunchConfig(c, a) # None /\ launch = LaunchConfig(c, a)
        /\ f = LaunchFiles(c, launch)
  BY DEF WrittenFor
<1>2. f # None /\ BridgeIsClosed(build_codex_bridge_toml(c, launch))
  BY <1>1, LaunchAssumption, BridgeClosed
<1>3. f.agent = launch.agent.id /\ f.bridge = build_codex_bridge_toml(c, launch)
  BY <1>1 DEF LaunchFiles
<1>4. QED
  BY <1>2, <1>3 DEF build_codex_bridge_toml

(* What a launch is routed to.                                             *)
LEMMA RoutingOf ==
  ASSUME NEW launch
  PROVE  LET r == Routing(launch) IN
         /\ IsRouting(r) /\ r.fallback.disabled = "no"
         /\ r.agent = launch.agent.id /\ r.providers = launch.session_providers
         /\ r.active = launch.model.provider /\ r.fallback.primary = launch.model.model
  BY DEF Routing, SessionFallbackState, IsRouting, IsFallback

(* The count stops at its bound, which is not below the threshold.          *)
LEMMA CountStep ==
  ASSUME NEW n \in Nat, NEW m, m = IF n < MaxFailures THEN n + 1 ELSE n
  PROVE  m \in Nat /\ (n + 1 >= 3 => m >= 3) /\ (n >= 3 => m >= 3)
  OBVIOUS

(* A breaker that is open has failures and a fallback behind it.           *)
Earned(f) == f.disabled # "no" => f.count >= 3 /\ f.fallback # ""

(* The property, by the routing of each session, before and after a step.   *)
AllEarned == \A s \in Sessions : Live(s) => Earned(provider_index[s].fallback)

(* It is the property.                                                     *)
LEMMA EachIsEarned == (BreakerEarned <=> AllEarned) /\ (BreakerEarned' <=> AllEarned')
  BY DEF BreakerEarned, AllEarned, Earned

(* An answer of the provider changes the count and the breaker only, and    *)
(* the breaker opens at the third failure.                                 *)
LEMMA AfterAnswer ==
  ASSUME NEW f, IsFallback(f), NEW slug,
         Earned(f),
         NEW after \in {record_primary_model_success(f, slug),
                        record_primary_model_failure(f, slug)}
  PROVE  /\ IsFallback(after) /\ after.primary = f.primary
         /\ Earned(after)
<1>1. CASE after = f
  BY <1>1
<1>2. CASE after = [f EXCEPT !.count = 0, !.disabled = "no"]
  <2>1. /\ after.primary = f.primary /\ after.count = 0 /\ after.disabled = "no"
    BY <1>2 DEF IsFallback
  <2>2. after = [primary |-> after.primary, fallback |-> after.fallback,
                 count |-> after.count, disabled |-> after.disabled]
    BY <1>2 DEF IsFallback
  <2>3. after.count \in Nat
    <3>1. 0 \in Nat
      OBVIOUS
    <3>2. QED
      BY <2>1, <3>1, Zenon
  <2>4. IsFallback(after)
    BY <2>1, <2>2, <2>3 DEF IsFallback
  <2>5. QED
    BY <2>1, <2>4 DEF Earned
<1>3. CASE /\ f.fallback # ""
           /\ after = [f EXCEPT !.count = IF @ < MaxFailures THEN @ + 1 ELSE @,
                                !.disabled = IF f.count + 1 >= 3 THEN "yes" ELSE @]
  <2>1. /\ after.primary = f.primary /\ after.fallback = f.fallback
        /\ after.count = IF f.count < MaxFailures THEN f.count + 1 ELSE f.count
        /\ after.disabled = IF f.count + 1 >= 3 THEN "yes" ELSE f.disabled
        /\ after = [primary |-> after.primary, fallback |-> after.fallback,
                    count |-> after.count, disabled |-> after.disabled]
    BY <1>3 DEF IsFallback
  <2>2. f.count \in Nat
    BY DEF IsFallback
  <2>3. after.count \in Nat /\ (f.count + 1 >= 3 => after.count >= 3)
        /\ (f.count >= 3 => after.count >= 3)
    <3>1. after.count = IF f.count < MaxFailures THEN f.count + 1 ELSE f.count
      BY <2>1
    <3>2. QED
      BY <2>2, <3>1, CountStep
  <2>4. f.disabled # "no" => f.count >= 3
    BY DEF Earned
  <2>5. after.disabled # "no" => after.count >= 3
    BY <2>1, <2>3, <2>4
  <2>6. after.disabled \in {"no", "yes", "past"}
    BY <2>1 DEF IsFallback
  <2>7. IsFallback(after)
    BY <2>1, <2>3, <2>6 DEF IsFallback
  <2>8. Earned(after)
    BY <1>3, <2>1, <2>5 DEF Earned
  <2>9. QED
    BY <2>1, <2>7, <2>8
<1>4. QED
  BY <1>1, <1>2, <1>3 DEF record_primary_model_success, record_primary_model_failure

-----------------------------------------------------------------------------
(* Types                                                                   *)

(* A call that begins, changes or ends leaves the others as they are.       *)
LEMMA CallStep ==
  ASSUME Typed, NEW k \in Calls, NEW call, calls' = [calls EXCEPT ![k] = call]
  PROVE  /\ calls' = [j \in Calls |-> calls'[j]]
         /\ calls'[k] = call /\ \A j \in Calls \ {k} : calls'[j] = calls[j]
         /\ (call # None => IsCall(call)) => \A j \in Calls : calls'[j] # None => IsCall(calls'[j])
  BY DEF Typed

(* The initial states have the types.                                      *)
LEMMA TypedInit == Init => Typed
  BY DEF Init, Typed, Live

(* A provider's answer leaves a breaker as it may be.                       *)
LEMMA AnswerTaken ==
  ASSUME Typed, BreakerEarned, NEW k \in Calls, FinishProxy(k), Live(calls[k].session)
  PROVE  LET s == calls[k].session IN
         \E after : /\ IsFallback(after) /\ after.primary = provider_index[s].fallback.primary
                    /\ Earned(after)
                    /\ provider_index' = [provider_index EXCEPT ![s] =
                                            [provider_index[s] EXCEPT !.fallback = after]]
<1> DEFINE s == calls[k].session
           f == provider_index[s].fallback
<1>1. s \in Sessions
  BY DEF FinishProxy, Typed, IsCall
<1>2. IsFallback(f) /\ Earned(f)
  BY <1>1, EachIsEarned DEF AllEarned, Typed, IsRouting
<1>3. PICK after \in {record_primary_model_success(f, calls[k].slug[1]),
                      record_primary_model_failure(f, calls[k].slug[1])} :
        provider_index' = [provider_index EXCEPT ![s].fallback = after]
  BY DEF FinishProxy
<1>4. provider_index' = [provider_index EXCEPT ![s] =
                           [provider_index[s] EXCEPT !.fallback = after]]
  BY <1>1, <1>3 DEF Typed
<1> HIDE DEF s, f
<1>5. /\ IsFallback(after) /\ after.primary = f.primary
      /\ Earned(after)
  <2> DEFINE slug == calls[k].slug[1]
  <2>1. after \in {record_primary_model_success(f, slug), record_primary_model_failure(f, slug)}
    BY <1>3
  <2> HIDE DEF slug
  <2>2. QED
    BY <1>2, <2>1, AfterAnswer
<1>6. QED
  BY <1>4, <1>5 DEF s, f

(* The same when the hour is over.                                         *)
LEMMA HourTaken ==
  ASSUME Typed, BreakerEarned, NEW s \in Sessions, HourPasses(s)
  PROVE  \E after : /\ IsFallback(after) /\ after.primary = provider_index[s].fallback.primary
                    /\ Earned(after)
                    /\ provider_index' = [provider_index EXCEPT ![s] =
                                            [provider_index[s] EXCEPT !.fallback = after]]
<1> DEFINE f == provider_index[s].fallback
           after == [f EXCEPT !.disabled = "past"]
<1>1. /\ IsFallback(f) /\ IsRouting(provider_index[s]) /\ f.disabled = "yes"
      /\ Earned(f)
  BY EachIsEarned DEF AllEarned, HourPasses, Typed, IsRouting
<1>2. provider_index' = [provider_index EXCEPT ![s] =
                           [provider_index[s] EXCEPT !.fallback = after]]
  BY <1>1 DEF HourPasses, Typed, IsRouting
<1>3. PICK p, b, n, d : f = [primary |-> p, fallback |-> b, count |-> n, disabled |-> d]
  BY <1>1 DEF IsFallback
<1>4. after = [primary |-> p, fallback |-> b, count |-> n, disabled |-> "past"]
  BY <1>3
<1>5. f.count = n /\ f.fallback = b /\ f.primary = p
  BY <1>3
<1>6. n \in Nat
  BY <1>1, <1>5, Zenon DEF IsFallback
<1>7. IsFallback(after) /\ after.primary = p /\ after.count = n /\ after.fallback = b
  BY <1>4, <1>6 DEF IsFallback
<1>8. Earned(after)
  BY <1>1, <1>4, <1>5, <1>7 DEF Earned
<1>9. QED
  BY <1>2, <1>5, <1>7, <1>8

(* What the breaker learns changes nothing else of the routing.            *)
LEMMA BreakerChange ==
  ASSUME Typed, NEW s \in Sessions, Live(s), NEW f, IsFallback(f),
         provider_index' = [provider_index EXCEPT ![s] = [provider_index[s] EXCEPT !.fallback = f]]
  PROVE  /\ provider_index' = [x \in Sessions |-> provider_index'[x]]
         /\ IsRouting(provider_index'[s]) /\ provider_index'[s].fallback = f
         /\ provider_index'[s].agent = provider_index[s].agent
         /\ provider_index'[s].providers = provider_index[s].providers
         /\ provider_index'[s].active = provider_index[s].active
         /\ \A x \in Sessions \ {s} : provider_index'[x] = provider_index[x]
<1>1. IsRouting(provider_index[s])
  BY DEF Typed
<1>2. provider_index'[s] = [provider_index[s] EXCEPT !.fallback = f]
  BY DEF Typed
<1>3. /\ provider_index' = [x \in Sessions |-> provider_index'[x]]
      /\ \A x \in Sessions \ {s} : provider_index'[x] = provider_index[x]
  BY DEF Typed
<1>4. QED
  BY <1>1, <1>2, <1>3 DEF IsRouting

(* A registered session is there, with the routing of its launch; another   *)
(* is as it was, or gone.                                                  *)
LEMMA Inserted ==
  ASSUME Typed, NEW s \in Sessions, NEW t \in Terminals, NEW launch, insert(s, t, launch)
  PROVE  /\ sessions' \in [Sessions -> Terminals \cup {None}] /\ sessions'[s] # None
         /\ terminal_index' = [x \in Terminals |-> terminal_index'[x]]
         /\ provider_index' = [x \in Sessions |-> provider_index'[x]]
         /\ provider_index'[s] = Routing(launch)
         /\ \A x \in Sessions \ {s} :
               \/ sessions'[x] = None
               \/ sessions'[x] = sessions[x] /\ provider_index'[x] = provider_index[x]
  BY DEF Typed, insert

(* A proxied request that goes on, or ends, is a proxied request.           *)
LEMMA ProxyStep ==
  ASSUME Typed, NEW k \in Calls, calls[k] # None, calls[k].kind = "proxy",
         NEW v, \/ calls' = [calls EXCEPT ![k].effective = v]
                \/ calls' = [calls EXCEPT ![k].provider = v]
                \/ calls' = [calls EXCEPT ![k] = None]
  PROVE  /\ calls' = [j \in Calls |-> calls'[j]]
         /\ \A j \in Calls : calls'[j] # None => IsCall(calls'[j])
         /\ \A j \in Calls : \/ calls'[j] = calls[j]
                             \/ calls'[j] = None
                             \/ calls'[j].kind = "proxy" /\ calls[j].kind = "proxy"
                                /\ calls'[j].session = calls[j].session
         /\ \A j \in Calls \ {k} : calls'[j] = calls[j]
<1> DEFINE c == calls[k]
<1>1. IsCall(c)
  BY DEF Typed
<1>2. /\ c = [kind |-> "proxy", session |-> c.session, requested |-> c.requested,
              slug |-> c.slug, alias |-> c.alias, effective |-> c.effective,
              provider |-> c.provider]
      /\ c.session \in Sessions
  BY <1>1 DEF IsCall
<1> HIDE DEF c
<1>3. ASSUME NEW d, d \in {[c EXCEPT !.effective = v], [c EXCEPT !.provider = v]}
      PROVE  IsCall(d) /\ d.kind = "proxy" /\ d.session = c.session
  BY <1>2, <1>3 DEF IsCall
<1>4. ASSUME NEW d \in {[c EXCEPT !.effective = v], [c EXCEPT !.provider = v]},
             calls' = [calls EXCEPT ![k] = d]
      PROVE  /\ calls' = [j \in Calls |-> calls'[j]] /\ calls'[k] = d
             /\ \A j \in Calls \ {k} : calls'[j] = calls[j]
             /\ \A j \in Calls : calls'[j] # None => IsCall(calls'[j])
  BY <1>3, <1>4, CallStep
<1>5. CASE \E d \in {[c EXCEPT !.effective = v], [c EXCEPT !.provider = v]} :
             calls' = [calls EXCEPT ![k] = d]
  BY <1>2, <1>3, <1>4, <1>5 DEF c
<1>6. CASE calls' = [calls EXCEPT ![k] = None]
  BY <1>6, CallStep
<1>7. QED
  BY <1>5, <1>6 DEF c

(* Every step keeps the types.                                             *)
LEMMA TypedStep == ASSUME Typed, BreakerEarned, [Next]_vars PROVE Typed'
<1> USE DEF Registry
<1>1. ASSUME NEW k \in Calls, NEW s \in Sessions, NEW t \in Terminals, launch_ai_session(k, s, t)
      PROVE  Typed'
  <2>1. PICK a \in AgentIds(config) :
          /\ calls' = [calls EXCEPT ![k] = [kind |-> "launch", session |-> s, terminal |-> t,
                                            agent |-> a, launch |-> None, new |-> TRUE]]
          /\ served' = served + 1
    BY <1>1 DEF launch_ai_session, Begin
  <2>2. IsCall([kind |-> "launch", session |-> s, terminal |-> t, agent |-> a,
                launch |-> None, new |-> TRUE])
    BY KnownAgent DEF IsCall
  <2>3. served' \in Nat
    BY <2>1 DEF Typed
  <2>4. UNCHANGED <<config, sessions, terminal_index, provider_index, files, crossed>>
    BY <1>1 DEF launch_ai_session
  <2>5. QED
    BY <2>1, <2>2, <2>3, <2>4, CallStep DEF Typed, Live
<1>2. ASSUME NEW k \in Calls, NEW s \in Sessions, NEW t \in Terminals,
             launch_ai_session_in_current_terminal(k, s, t)
      PROVE  Typed'
  <2>1. PICK a \in AgentIds(config) :
          /\ calls' = [calls EXCEPT ![k] = [kind |-> "launch", session |-> s, terminal |-> t,
                                            agent |-> a, launch |-> None, new |-> FALSE]]
          /\ served' = served + 1
    BY <1>2 DEF launch_ai_session_in_current_terminal, Begin
  <2>2. IsCall([kind |-> "launch", session |-> s, terminal |-> t, agent |-> a,
                launch |-> None, new |-> FALSE])
    BY KnownAgent DEF IsCall
  <2>3. served' \in Nat
    BY <2>1 DEF Typed
  <2>4. UNCHANGED <<config, sessions, terminal_index, provider_index, files, crossed>>
    BY <1>2 DEF launch_ai_session_in_current_terminal
  <2>5. QED
    BY <2>1, <2>2, <2>3, <2>4, CallStep DEF Typed, Live
<1>3. ASSUME NEW k \in Calls, NEW s \in Sessions, NEW a \in AgentIds(config), NEW n \in Tokens,
             reconfigure_ai_session_agent(k, s, a, n)
      PROVE  Typed'
  <2>1. PICK launch :
          /\ calls' = [calls EXCEPT ![k] = SwitchCall(s, launch)]
          /\ served' = served + 1
          /\ files' = [files EXCEPT ![s] = prepare_session_launch_files(launch)]
    BY <1>3 DEF reconfigure_ai_session_agent, Begin
  <2>2. IsCall(SwitchCall(s, launch))
    BY DEF IsCall, SwitchCall
  <2>3. crossed' \subseteq Sessions
    BY <1>3 DEF reconfigure_ai_session_agent, Typed
  <2>4. UNCHANGED <<config, sessions, terminal_index, provider_index>>
    BY <1>3 DEF reconfigure_ai_session_agent
  <2>5. served' \in Nat
    BY <2>1 DEF Typed
  <2>6. QED
    BY <2>1, <2>2, <2>3, <2>4, <2>5, CallStep DEF Typed, Live
<1>4. ASSUME NEW k \in Calls, NEW s \in Sessions, NEW m, proxy_compatible_responses(k, s, m)
      PROVE  Typed'
  <2>1. PICK slug, alias :
          /\ calls' = [calls EXCEPT ![k] =
               [kind |-> "proxy", session |-> s, requested |-> m, slug |-> slug,
                alias |-> alias, effective |-> None, provider |-> None]]
          /\ served' = served + 1
    BY <1>4 DEF proxy_compatible_responses, Begin
  <2>2. IsCall([kind |-> "proxy", session |-> s, requested |-> m, slug |-> slug,
                alias |-> alias, effective |-> None, provider |-> None])
    BY DEF IsCall
  <2>3. UNCHANGED <<config, sessions, terminal_index, provider_index, files, crossed>>
    BY <1>4 DEF proxy_compatible_responses
  <2>4. served' \in Nat
    BY <2>1 DEF Typed
  <2>5. QED
    BY <2>1, <2>2, <2>3, <2>4, CallStep DEF Typed, Live
<1>5. ASSUME NEW k \in Calls, WriteLaunchFiles(k)
      PROVE  Typed'
  <2>1. /\ calls[k] # None /\ calls[k].kind = "launch" /\ IsCall(calls[k])
        /\ UNCHANGED <<config, served, crossed, sessions, terminal_index, provider_index>>
    BY <1>5 DEF WriteLaunchFiles, Typed
  <2>2. CASE calls' = [calls EXCEPT ![k] = None] /\ UNCHANGED files
    BY <2>1, <2>2, CallStep DEF Typed, Live
  <2>3. CASE \E launch : /\ calls' = [calls EXCEPT ![k].launch = launch]
                         /\ files' = [files EXCEPT ![calls[k].session] =
                                        prepare_session_launch_files(launch)]
    <3>1. PICK launch : /\ calls' = [calls EXCEPT ![k] = [calls[k] EXCEPT !.launch = launch]]
                        /\ files' = [files EXCEPT ![calls[k].session] =
                                       prepare_session_launch_files(launch)]
      BY <2>3 DEF Typed
    <3>2. IsCall([calls[k] EXCEPT !.launch = launch])
      BY <2>1 DEF IsCall
    <3>3. QED
      BY <2>1, <3>1, <3>2, CallStep DEF Typed, Live
  <2>4. QED
    BY <1>5, <2>2, <2>3 DEF WriteLaunchFiles
<1>6. ASSUME NEW k \in Calls, create_codex_terminal(k)
      PROVE  Typed'
  <2>1. /\ calls[k] # None /\ calls[k].kind = "launch" /\ IsCall(calls[k])
        /\ UNCHANGED <<config, served, crossed, sessions, terminal_index, provider_index, files>>
    BY <1>6 DEF create_codex_terminal, Typed
  <2>2. CASE calls' = [calls EXCEPT ![k] = None]
    BY <2>1, <2>2, CallStep DEF Typed, Live
  <2>3. CASE calls' = [calls EXCEPT ![k] = [calls[k] EXCEPT !.new = FALSE]]
    <3>1. IsCall([calls[k] EXCEPT !.new = FALSE])
      <4>1. /\ calls[k] = [kind |-> "launch", session |-> calls[k].session,
                           terminal |-> calls[k].terminal, agent |-> calls[k].agent,
                           launch |-> calls[k].launch, new |-> calls[k].new]
            /\ calls[k].session \in Sessions /\ calls[k].terminal \in Terminals
            /\ calls[k].agent \in AgentNames
        BY <2>1 DEF IsCall
      <4>2. PICK s, t, a, l, n :
              calls[k] = [kind |-> "launch", session |-> s, terminal |-> t, agent |-> a,
                          launch |-> l, new |-> n]
        BY <4>1
      <4>3. [calls[k] EXCEPT !.new = FALSE]
              = [kind |-> "launch", session |-> s, terminal |-> t, agent |-> a,
                 launch |-> l, new |-> FALSE]
        <5>1. ASSUME NEW b
              PROVE  [calls[k] EXCEPT !.new = b]
                       = [kind |-> "launch", session |-> s, terminal |-> t, agent |-> a,
                          launch |-> l, new |-> b]
          BY <4>2
        <5>2. QED
          BY <5>1, Zenon
      <4>4. s \in Sessions /\ t \in Terminals /\ a \in AgentNames
        <5>1. calls[k].session = s /\ calls[k].terminal = t /\ calls[k].agent = a
          BY <4>2
        <5>2. QED
          BY <4>1, <5>1
      <4>5. QED
        BY <4>3, <4>4 DEF IsCall
    <3>2. QED
      BY <2>1, <2>3, <3>1, CallStep DEF Typed, Live
  <2>4. QED
    BY <1>6, <2>2, <2>3 DEF create_codex_terminal, Typed
<1>7. ASSUME NEW k \in Calls, RegisterSession(k)
      PROVE  Typed'
  <2>1. /\ calls[k].session \in Sessions /\ calls[k].terminal \in Terminals
        /\ insert(calls[k].session, calls[k].terminal, calls[k].launch)
        /\ calls' = [calls EXCEPT ![k] = None]
        /\ UNCHANGED <<config, files, served, crossed>>
    BY <1>7 DEF RegisterSession, Typed, IsCall
  <2>2. ASSUME NEW x \in Sessions, sessions'[x] # None PROVE IsRouting(provider_index'[x])
    <3>1. CASE x = calls[k].session
      BY <2>1, <3>1, Inserted, RoutingOf
    <3>2. CASE x # calls[k].session
      BY <2>1, <2>2, <3>2, Inserted DEF Typed, Live
    <3>3. QED
      BY <3>1, <3>2
  <2>3. QED
    BY <2>1, <2>2, Inserted, CallStep DEF Typed, Live
<1>8. ASSUME NEW k \in Calls, FinishSwitch(k)
      PROVE  Typed'
  <2>1. /\ calls[k].session \in Sessions /\ calls' = [calls EXCEPT ![k] = None]
        /\ UNCHANGED <<config, files, served, crossed, sessions, terminal_index>>
    BY <1>8 DEF FinishSwitch, Typed, IsCall
  <2>2. CASE provider_index' = [provider_index EXCEPT ![calls[k].session] =
                                  Routing(calls[k].launch)]
    <3>1. \A x \in Sessions : sessions'[x] # None => IsRouting(provider_index'[x])
      BY <2>1, <2>2, RoutingOf DEF Typed, Live
    <3>2. QED
      BY <2>1, <2>2, <3>1, CallStep DEF Typed, Live
  <2>3. CASE UNCHANGED provider_index
    BY <2>1, <2>3, CallStep DEF Typed, Live
  <2>4. QED
    BY <1>8, <2>2, <2>3 DEF FinishSwitch, update_runtime
<1>9. ASSUME NEW k \in Calls, ChooseEffectiveModel(k)
      PROVE  Typed'
  <2>1. PICK v : calls' = [calls EXCEPT ![k].effective = v]
    BY <1>9 DEF ChooseEffectiveModel
  <2>2. QED
    BY <1>9, <2>1, ProxyStep DEF ChooseEffectiveModel, Typed, Live
<1>10. ASSUME NEW k \in Calls, ChooseProvider(k)
       PROVE  Typed'
  <2>1. PICK v : \/ calls' = [calls EXCEPT ![k].provider = v]
                 \/ calls' = [calls EXCEPT ![k] = None]
    BY <1>10 DEF ChooseProvider
  <2>2. QED
    BY <1>10, <2>1, ProxyStep DEF ChooseProvider, Typed, Live
<1>11. ASSUME NEW k \in Calls, FinishProxy(k)
       PROVE  Typed'
  <2>1. /\ calls[k].session \in Sessions /\ calls' = [calls EXCEPT ![k] = None]
        /\ UNCHANGED <<config, files, served, crossed, sessions, terminal_index>>
    BY <1>11 DEF FinishProxy, Typed, IsCall
  <2>2. CASE UNCHANGED provider_index
    BY <2>1, <2>2, CallStep DEF Typed, Live
  <2>3. CASE Live(calls[k].session) /\ ~UNCHANGED provider_index
    <3>1. PICK after : /\ IsFallback(after)
                       /\ provider_index' = [provider_index EXCEPT ![calls[k].session] =
                            [provider_index[calls[k].session] EXCEPT !.fallback = after]]
      BY <1>11, <2>1, <2>3, AnswerTaken
    <3>2. QED
      BY <2>1, <2>3, <3>1, BreakerChange, CallStep DEF Typed, Live
  <2>4. QED
    BY <1>11, <2>2, <2>3 DEF FinishProxy
<1>12. ASSUME NEW s \in Sessions, HourPasses(s)
       PROVE  Typed'
  BY <1>12, HourTaken, BreakerChange DEF HourPasses, Typed, Live
<1>13. CASE SaveSettings
  BY <1>13 DEF SaveSettings, Typed, Live
<1>14. CASE UNCHANGED vars
  BY <1>14 DEF vars, Typed, Live
<1>15. QED
  BY <1>1, <1>2, <1>3, <1>4, <1>5, <1>6, <1>7, <1>8, <1>9, <1>10, <1>11, <1>12, <1>13, <1>14
     DEF Next

-----------------------------------------------------------------------------
(* The breaker                                                             *)

(* A primary model is disabled only by three failures, and only if there is *)
(* a fallback: the registry is written by a launch and a switch, that reset *)
(* the breaker, and by a provider's answer and the hour.                    *)
LEMMA BreakerStep == ASSUME Typed, BreakerEarned, [Next]_vars PROVE BreakerEarned'
<1> USE DEF Registry
<1>1. ASSUME UNCHANGED <<sessions, provider_index>> PROVE BreakerEarned'
  BY <1>1 DEF BreakerEarned, Live
<1>2. ASSUME NEW k \in Calls, RegisterSession(k)
      PROVE  BreakerEarned'
  <2>1. /\ calls[k].session \in Sessions /\ calls[k].terminal \in Terminals
        /\ insert(calls[k].session, calls[k].terminal, calls[k].launch)
    BY <1>2 DEF RegisterSession, Typed, IsCall
  <2>2. provider_index'[calls[k].session].fallback.disabled = "no"
    BY <2>1, Inserted, RoutingOf
  <2>3. \A x \in Sessions \ {calls[k].session} :
           \/ sessions'[x] = None
           \/ sessions'[x] = sessions[x] /\ provider_index'[x] = provider_index[x]
    BY <2>1, Inserted
  <2>4. QED
    <3>1. Earned(provider_index'[calls[k].session].fallback)
      BY <2>2 DEF Earned
    <3>2. QED
      BY <2>3, <3>1, EachIsEarned DEF AllEarned, Live
<1>3. ASSUME NEW k \in Calls, FinishSwitch(k)
      PROVE  BreakerEarned'
  <2>1. CASE UNCHANGED provider_index
    BY <1>1, <1>3, <2>1 DEF FinishSwitch
  <2>2. CASE provider_index' = [provider_index EXCEPT ![calls[k].session] =
                                  Routing(calls[k].launch)]
    <3>1. /\ calls[k].session \in Sessions
          /\ provider_index'[calls[k].session].fallback.disabled = "no"
          /\ \A x \in Sessions \ {calls[k].session} : provider_index'[x] = provider_index[x]
      BY <1>3, <2>2, RoutingOf DEF FinishSwitch, Typed, IsCall
    <3>2. Earned(provider_index'[calls[k].session].fallback)
      BY <3>1 DEF Earned
    <3>3. QED
      BY <1>3, <3>1, <3>2, EachIsEarned DEF FinishSwitch, AllEarned, Live
  <2>3. QED
    BY <1>3, <2>1, <2>2 DEF FinishSwitch, update_runtime
<1>4. ASSUME NEW s \in Sessions, NEW after, Live(s), UNCHANGED sessions, IsFallback(after),
             Earned(after),
             provider_index' = [provider_index EXCEPT ![s] =
                                  [provider_index[s] EXCEPT !.fallback = after]]
      PROVE  BreakerEarned'
  <2>1. /\ provider_index'[s].fallback = after
        /\ \A x \in Sessions \ {s} : provider_index'[x] = provider_index[x]
    BY <1>4, BreakerChange
  <2>2. QED
    BY <1>4, <2>1, EachIsEarned DEF AllEarned, Live
<1>5. ASSUME NEW k \in Calls, FinishProxy(k)
      PROVE  BreakerEarned'
  <2>1. CASE ~Live(calls[k].session)
    BY <1>1, <1>5, <2>1 DEF FinishProxy
  <2>2. CASE Live(calls[k].session)
    <3>1. calls[k].session \in Sessions /\ UNCHANGED sessions
      BY <1>5 DEF FinishProxy, Typed, IsCall
    <3>2. PICK after :
             /\ IsFallback(after)
             /\ Earned(after)
             /\ provider_index' = [provider_index EXCEPT ![calls[k].session] =
                                     [provider_index[calls[k].session] EXCEPT !.fallback = after]]
      BY <1>5, <2>2, AnswerTaken
    <3>3. QED
      BY <1>4, <2>2, <3>1, <3>2
  <2>3. QED
    BY <2>1, <2>2
<1>6. ASSUME NEW s \in Sessions, HourPasses(s)
      PROVE  BreakerEarned'
  <2>1. Live(s) /\ UNCHANGED sessions
    BY <1>6 DEF HourPasses
  <2>2. PICK after :
           /\ IsFallback(after)
           /\ Earned(after)
           /\ provider_index' = [provider_index EXCEPT ![s] =
                                   [provider_index[s] EXCEPT !.fallback = after]]
    BY <1>6, HourTaken
  <2>3. QED
    BY <1>4, <2>1, <2>2
<1>7. \/ UNCHANGED <<sessions, provider_index>>
      \/ \E k \in Calls : RegisterSession(k) \/ FinishSwitch(k) \/ FinishProxy(k)
      \/ \E s \in Sessions : HourPasses(s)
  <2>1. CASE UNCHANGED vars
    BY <2>1 DEF vars
  <2>2. CASE SaveSettings
    BY <2>2 DEF SaveSettings
  <2>3. ASSUME NEW k \in Calls, NEW s \in Sessions,
               \/ \E t \in Terminals : \/ launch_ai_session(k, s, t)
                                      \/ launch_ai_session_in_current_terminal(k, s, t)
               \/ \E a, n : reconfigure_ai_session_agent(k, s, a, n)
               \/ \E m : proxy_compatible_responses(k, s, m)
        PROVE  UNCHANGED <<sessions, provider_index>>
    BY <2>3 DEF launch_ai_session, launch_ai_session_in_current_terminal,
                reconfigure_ai_session_agent, proxy_compatible_responses
  <2>4. ASSUME NEW k \in Calls, \/ WriteLaunchFiles(k) \/ create_codex_terminal(k)
                                \/ ChooseEffectiveModel(k) \/ ChooseProvider(k)
        PROVE  UNCHANGED <<sessions, provider_index>>
    BY <2>4 DEF WriteLaunchFiles, create_codex_terminal, ChooseEffectiveModel, ChooseProvider
  <2>5. QED
    BY <2>1, <2>2, <2>3, <2>4, Zenon DEF Next
<1>8. QED
  BY <1>1, <1>2, <1>3, <1>5, <1>6, <1>7

-----------------------------------------------------------------------------
(* Files and routing                                                       *)

(* What the invariant says of one session.                                 *)
Follows(s) == OneLaunch(s) /\ KeepsFiles(s) /\ OneSwitch(s)

(* The routing of a session, as far as its files tell it.                   *)
SameRouting(x) ==
  /\ provider_index'[x].agent = provider_index[x].agent
  /\ provider_index'[x].providers = provider_index[x].providers
  /\ provider_index'[x].active = provider_index[x].active
  /\ provider_index'[x].fallback.primary = provider_index[x].fallback.primary

(* Call j is neither a launch nor a switch of session x.                    *)
Idle(j, x) == ~Works("launch", j, x) /\ ~Works("switch", j, x)

(* The invariant stays true of a session whose files, routing, launch and   *)
(* switch a step leaves alone, or that it forgets.                          *)
LEMMA FollowFrame ==
  ASSUME NEW x \in Sessions, Follows(x),
         \A j \in Calls : calls'[j] = calls[j] \/ (Idle(j, x) /\ Idle(j, x)'),
         files'[x] = files[x], Live(x)' => Live(x) /\ SameRouting(x),
         x \in crossed => x \in crossed'
  PROVE  Follows(x)'
<1>1. /\ \A j \in Calls : Works("launch", j, x)' => Works("launch", j, x) /\ calls'[j] = calls[j]
      /\ \A j \in Calls : Works("switch", j, x)' => Works("switch", j, x) /\ calls'[j] = calls[j]
      /\ \A j \in Calls : Works("switch", j, x) => Works("switch", j, x)'
  BY DEF Idle, Works
<1>2. OneLaunch(x)'
  BY <1>1 DEF Follows, OneLaunch
<1>3. KeepsFiles(x)'
  BY <1>1 DEF Follows, KeepsFiles
<1>4. OneSwitch(x)'
  <2>1. SUFFICES ASSUME x \notin crossed' PROVE OneSwitch(x)'
    BY DEF OneSwitch
  <2>2. x \notin crossed
    BY <2>1 DEF Idle, Works
  <2>3. /\ \A k, j \in Calls : Works("switch", k, x)' /\ Works("switch", j, x)' => j = k
        /\ \A k \in Calls : Works("switch", k, x)' /\ Live(x)'
                               => WrittenFor(files'[x], calls'[k].launch)
    BY <1>1, <2>2 DEF Follows, OneSwitch
  <2>4. ASSUME Live(x)', \A k \in Calls : ~Works("switch", k, x)'
        PROVE  \E launch : /\ WrittenFor(files'[x], launch)
                           /\ provider_index'[x].agent = launch.agent.id
                           /\ provider_index'[x].providers = launch.session_providers
                           /\ provider_index'[x].active = launch.model.provider
                           /\ provider_index'[x].fallback.primary = launch.model.model
    <3>1. PICK launch : /\ WrittenFor(files[x], launch)
                        /\ provider_index[x].agent = launch.agent.id
                        /\ provider_index[x].providers = launch.session_providers
                        /\ provider_index[x].active = launch.model.provider
                        /\ provider_index[x].fallback.primary = launch.model.model
      BY <1>1, <2>2, <2>4 DEF Follows, OneSwitch
    <3>2. QED
      BY <2>4, <3>1 DEF SameRouting
  <2>5. QED
    BY <2>3, <2>4 DEF OneSwitch
<1>5. QED
  BY <1>2, <1>3, <1>4 DEF Follows

(* A launch ends, and nothing else changes.                                *)
LEMMA LaunchEnds ==
  ASSUME Typed, NEW x \in Sessions, Follows(x), NEW k \in Calls, calls[k].kind = "launch",
         calls' = [calls EXCEPT ![k] = None], UNCHANGED <<files, sessions, provider_index, crossed>>
  PROVE  Follows(x)'
<1>1. calls'[k] = None /\ \A j \in Calls \ {k} : calls'[j] = calls[j]
  BY DEF Typed
<1>2. /\ \A j \in Calls : Works("launch", j, x)' => Works("launch", j, x) /\ calls'[j] = calls[j]
      /\ \A j \in Calls : Works("switch", j, x)' <=> Works("switch", j, x)
      /\ \A j \in Calls : Works("switch", j, x)' => calls'[j] = calls[j]
  BY <1>1 DEF Works
<1>3. /\ files'[x] = files[x] /\ (Live(x)' <=> Live(x)) /\ provider_index' = provider_index
      /\ crossed' = crossed
  BY DEF Live
<1>4. OneLaunch(x)' /\ KeepsFiles(x)'
  BY <1>2, <1>3 DEF Follows, OneLaunch, KeepsFiles
<1>5. OneSwitch(x)'
  BY <1>2, <1>3 DEF Follows, OneSwitch
<1>6. QED
  BY <1>4, <1>5 DEF Follows

(* A fresh session has neither a launch nor a switch under way.             *)
LEMMA FreshIsIdle ==
  ASSUME NEW s \in Sessions, Fresh(s), Follows(s)
  PROVE  ~Live(s) /\ \A j \in Calls : Idle(j, s)
  BY DEF Fresh, Follows, KeepsFiles, Idle, Works, Serving, Live

(* A launch of a fresh session begins.                                     *)
LEMMA LaunchBegins ==
  ASSUME Typed, FilesFollow, NEW k \in Calls, NEW s \in Sessions, NEW call,
         Fresh(s), calls[k] = None,
         call.kind = "launch", call.session = s, call.launch = None,
         calls' = [calls EXCEPT ![k] = call], UNCHANGED <<files, sessions, provider_index, crossed>>
  PROVE  FilesFollow'
<1>1. calls'[k] = call /\ \A j \in Calls \ {k} : calls'[j] = calls[j]
  BY DEF Typed
<1>2. ASSUME NEW x \in Sessions, x # s PROVE Follows(x)'
  <2>1. Idle(k, x) /\ Idle(k, x)'
    BY <1>1, <1>2 DEF Idle, Works
  <2>2. \A j \in Calls : calls'[j] = calls[j] \/ (Idle(j, x) /\ Idle(j, x)')
    BY <1>1, <2>1
  <2>3. Follows(x) /\ (Live(x)' => Live(x) /\ SameRouting(x))
    BY DEF FilesFollow, Follows, Live, SameRouting
  <2>4. QED
    BY <2>2, <2>3, FollowFrame
<1>3. Follows(s)'
  <2>1. ~Live(s) /\ \A j \in Calls : Idle(j, s)
    BY FreshIsIdle DEF FilesFollow, Follows
  <2>2. /\ ~Live(s)' /\ \A j \in Calls : ~Works("switch", j, s)'
        /\ \A j \in Calls : Works("launch", j, s)' => j = k
    BY <1>1, <2>1 DEF Live, Idle, Works
  <2>3. QED
    BY <1>1, <2>2 DEF Follows, OneLaunch, KeepsFiles, OneSwitch
<1>4. QED
  BY <1>2, <1>3 DEF FilesFollow, Follows

(* Only proxied requests change, and of the routing only the breaker.       *)
LEMMA ProxiesChange ==
  ASSUME FilesFollow, UNCHANGED <<files, crossed, sessions>>,
         \A j \in Calls : \/ calls'[j] = calls[j]
                          \/ /\ calls[j] = None \/ calls[j].kind = "proxy"
                             /\ calls'[j] = None \/ calls'[j].kind = "proxy",
         \A x \in Sessions : Live(x) => SameRouting(x)
  PROVE  FilesFollow'
<1>1. ASSUME NEW x \in Sessions PROVE Follows(x)'
  <2>1. ASSUME NEW j \in Calls, calls'[j] # calls[j] PROVE Idle(j, x) /\ Idle(j, x)'
    BY <2>1 DEF Idle, Works
  <2>2. \A j \in Calls : calls'[j] = calls[j] \/ (Idle(j, x) /\ Idle(j, x)')
    BY <2>1
  <2>3. Follows(x) /\ (Live(x)' => Live(x) /\ SameRouting(x))
    BY DEF FilesFollow, Follows, Live
  <2>4. QED
    BY <2>2, <2>3, FollowFrame
<1>2. QED
  BY <1>1 DEF FilesFollow, Follows

(* The switch of a session begins: its files are written at once.           *)
LEMMA SwitchBegins ==
  ASSUME Typed, FilesFollow, NEW k \in Calls, NEW s \in Sessions, NEW a \in AgentIds(config),
         NEW n \in Tokens, reconfigure_ai_session_agent(k, s, a, n)
  PROVE  FilesFollow'
<1> DEFINE launch == LaunchConfig(config, a)
           call == SwitchCall(s, launch)
<1>1. /\ calls[k] = None /\ Live(s) /\ launch # None
      /\ calls' = [calls EXCEPT ![k] = call]
      /\ files' = [files EXCEPT ![s] = LaunchFiles(config, launch)]
      /\ UNCHANGED <<sessions, provider_index>>
  BY DEF reconfigure_ai_session_agent, Free, Begin, Registry, prepare_session_launch_files
<1>2. /\ crossed \subseteq crossed'
      /\ s \notin crossed' => s \notin crossed /\ \A j \in Calls : ~Works("switch", j, s)
  BY DEF reconfigure_ai_session_agent, Serving, Works
<1>3. WrittenFor(LaunchFiles(config, launch), launch)
  BY <1>1, KnownAgent, LaunchHasFiles
<1>4. /\ calls'[k].kind = "switch" /\ calls'[k].session = s /\ calls'[k].launch = launch
      /\ calls'[k] # None /\ \A j \in Calls \ {k} : calls'[j] = calls[j]
      /\ files'[s] = LaunchFiles(config, launch)
      /\ \A x \in Sessions \ {s} : files'[x] = files[x]
  <2>1. /\ calls'[k] = call /\ \A j \in Calls \ {k} : calls'[j] = calls[j]
        /\ files'[s] = LaunchFiles(config, launch)
        /\ \A x \in Sessions \ {s} : files'[x] = files[x]
    BY <1>1 DEF Typed
  <2>2. call.kind = "switch" /\ call.session = s /\ call.launch = launch
    BY DEF SwitchCall
  <2>3. config \in Configs /\ a \in AgentNames
    BY KnownAgent DEF Typed
  <2>4. call # None
    BY <1>1, <2>3, LaunchAssumption
  <2>5. QED
    BY <2>1, <2>2, <2>4
<1> HIDE DEF launch, call
<1>5. ASSUME NEW x \in Sessions, x # s PROVE Follows(x)'
  <2>1. Idle(k, x) /\ Idle(k, x)'
    BY <1>1, <1>4, <1>5 DEF Idle, Works
  <2>2. \A j \in Calls : calls'[j] = calls[j] \/ (Idle(j, x) /\ Idle(j, x)')
    BY <1>4, <2>1
  <2>3. Follows(x) /\ (Live(x)' => Live(x) /\ SameRouting(x))
    BY <1>1 DEF FilesFollow, Follows, Live, SameRouting
  <2>4. files'[x] = files[x] /\ (x \in crossed => x \in crossed')
    BY <1>2, <1>4, <1>5
  <2>5. QED
    BY <2>2, <2>3, <2>4, FollowFrame
<1>6. OneLaunch(s)'
  <2>1. \A j \in Calls : ~Works("launch", j, s)
    BY <1>1 DEF FilesFollow, OneLaunch
  <2>2. ASSUME NEW j \in Calls PROVE ~Works("launch", j, s)'
    BY <1>4, <2>1 DEF Works
  <2>3. QED
    BY <2>2 DEF OneLaunch
<1>7. KeepsFiles(s)'
  BY <1>3, <1>4, WrittenFiles DEF KeepsFiles
<1>8. OneSwitch(s)'
  <2>1. SUFFICES ASSUME s \notin crossed' PROVE OneSwitch(s)'
    BY DEF OneSwitch
  <2>2. ASSUME NEW j \in Calls, Works("switch", j, s)' PROVE j = k
    BY <1>2, <1>4, <2>1, <2>2 DEF Works
  <2>3. Works("switch", k, s)'
    BY <1>4 DEF Works
  <2>4. QED
    BY <1>3, <1>4, <2>2, <2>3 DEF OneSwitch
<1>9. QED
  BY <1>5, <1>6, <1>7, <1>8 DEF FilesFollow, Follows

(* A launch goes on: what it carries is what its files were written for.     *)
LEMMA LaunchGoesOn ==
  ASSUME Typed, FilesFollow, NEW k \in Calls, Works("launch", k, calls[k].session),
         NEW call, call.kind = "launch", call.session = calls[k].session,
         calls' = [calls EXCEPT ![k] = call], UNCHANGED <<sessions, provider_index, crossed>>,
         \A x \in Sessions \ {call.session} : files'[x] = files[x],
         call.launch # None => WrittenFor(files'[call.session], call.launch)
  PROVE  FilesFollow'
<1> DEFINE s == calls[k].session
<1>1. /\ calls'[k] = call /\ \A j \in Calls \ {k} : calls'[j] = calls[j]
      /\ s \in Sessions
  BY DEF Typed, IsCall, Works
<1>2. ASSUME NEW x \in Sessions, x # s PROVE Follows(x)'
  <2>1. Idle(k, x) /\ Idle(k, x)'
    BY <1>1, <1>2 DEF Idle, Works
  <2>2. \A j \in Calls : calls'[j] = calls[j] \/ (Idle(j, x) /\ Idle(j, x)')
    BY <1>1, <2>1
  <2>3. Follows(x) /\ (Live(x)' => Live(x) /\ SameRouting(x))
    BY DEF FilesFollow, Follows, Live, SameRouting
  <2>4. files'[x] = files[x] /\ (x \in crossed => x \in crossed')
    BY <1>2
  <2>5. QED
    BY <2>2, <2>3, <2>4, FollowFrame
<1>3. Follows(s)'
  <2>1. /\ ~Live(s) /\ \A j \in Calls : Works("launch", j, s) => j = k
        /\ \A j \in Calls : ~Works("switch", j, s)
    BY <1>1 DEF FilesFollow, OneLaunch
  <2>2. /\ ~Live(s)' /\ \A j \in Calls : ~Works("switch", j, s)'
        /\ \A j \in Calls : Works("launch", j, s)' => j = k
    BY <1>1, <2>1 DEF Live, Works
  <2>3. QED
    BY <1>1, <2>2 DEF Follows, OneLaunch, KeepsFiles, OneSwitch
<1>4. QED
  BY <1>2, <1>3 DEF FilesFollow, Follows

(* A launch is registered: the routing is that of its files.                *)
LEMMA LaunchRegistered ==
  ASSUME Typed, FilesFollow, NEW k \in Calls, RegisterSession(k)
  PROVE  FilesFollow'
<1>1. PICK s, launch : s = calls[k].session /\ launch = calls[k].launch
  OBVIOUS
<1>2. /\ s \in Sessions /\ calls[k].terminal \in Terminals /\ Works("launch", k, s)
      /\ insert(s, calls[k].terminal, launch) /\ launch # None
      /\ calls' = [calls EXCEPT ![k] = None] /\ UNCHANGED <<files, crossed>>
  BY <1>1 DEF RegisterSession, Typed, IsCall, Works
<1>3. calls'[k] = None /\ \A j \in Calls \ {k} : calls'[j] = calls[j]
  BY <1>2 DEF Typed
<1>4. /\ provider_index'[s] = Routing(launch)
      /\ \A x \in Sessions \ {s} :
            \/ sessions'[x] = None
            \/ sessions'[x] = sessions[x] /\ provider_index'[x] = provider_index[x]
  BY <1>2, Inserted
<1>5. /\ WrittenFor(files[s], launch) /\ \A j \in Calls : Works("launch", j, s) => j = k
      /\ \A j \in Calls : ~Works("switch", j, s)
  BY <1>1, <1>2 DEF FilesFollow, OneLaunch
<1>6. ASSUME NEW x \in Sessions, x # s PROVE Follows(x)'
  <2>1. Idle(k, x) /\ Idle(k, x)'
    BY <1>2, <1>3, <1>6 DEF Idle, Works
  <2>2. \A j \in Calls : calls'[j] = calls[j] \/ (Idle(j, x) /\ Idle(j, x)')
    BY <1>3, <2>1
  <2>3. Follows(x) /\ (Live(x)' => Live(x) /\ SameRouting(x))
    BY <1>4, <1>6 DEF FilesFollow, Follows, Live, SameRouting
  <2>4. files'[x] = files[x] /\ (x \in crossed => x \in crossed')
    BY <1>2
  <2>5. QED
    BY <2>2, <2>3, <2>4, FollowFrame
<1>7. \A j \in Calls : ~Works("launch", j, s)' /\ ~Works("switch", j, s)'
  BY <1>3, <1>5 DEF Works
<1>8. files'[s] = files[s] /\ files[s] # None
  BY <1>2, <1>5, WrittenFiles
<1>9. /\ provider_index'[s].agent = launch.agent.id
      /\ provider_index'[s].providers = launch.session_providers
      /\ provider_index'[s].active = launch.model.provider
      /\ provider_index'[s].fallback.primary = launch.model.model
  BY <1>4, RoutingOf
<1>10. Follows(s)'
  <2>1. OneLaunch(s)' /\ KeepsFiles(s)'
    BY <1>7, <1>8 DEF OneLaunch, KeepsFiles
  <2>2. OneSwitch(s)'
    BY <1>5, <1>7, <1>8, <1>9 DEF OneSwitch
  <2>3. QED
    BY <2>1, <2>2 DEF Follows
<1>11. QED
  BY <1>6, <1>10 DEF FilesFollow, Follows

(* A switch is finished: if it was the only one, the files are its own.     *)
LEMMA SwitchFinished ==
  ASSUME Typed, FilesFollow, NEW k \in Calls, FinishSwitch(k)
  PROVE  FilesFollow'
<1>1. PICK s, launch : s = calls[k].session /\ launch = calls[k].launch
  OBVIOUS
<1>2. /\ s \in Sessions /\ Works("switch", k, s)
      /\ provider_index' = IF Live(s) THEN [provider_index EXCEPT ![s] = Routing(launch)]
                           ELSE provider_index
      /\ calls' = [calls EXCEPT ![k] = None] /\ UNCHANGED <<files, crossed, sessions>>
  BY <1>1 DEF FinishSwitch, update_runtime, Typed, IsCall, Works
<1>3. calls'[k] = None /\ \A j \in Calls \ {k} : calls'[j] = calls[j]
  BY <1>2 DEF Typed
<1>4. /\ Live(s) => provider_index'[s] = Routing(launch)
      /\ \A x \in Sessions \ {s} : provider_index'[x] = provider_index[x]
  BY <1>2 DEF Typed
<1>5. ASSUME NEW x \in Sessions, x # s PROVE Follows(x)'
  <2>1. Idle(k, x) /\ Idle(k, x)'
    BY <1>2, <1>3, <1>5 DEF Idle, Works
  <2>2. \A j \in Calls : calls'[j] = calls[j] \/ (Idle(j, x) /\ Idle(j, x)')
    BY <1>3, <2>1
  <2>3. Follows(x) /\ (Live(x)' => Live(x) /\ SameRouting(x))
    BY <1>2, <1>4, <1>5 DEF FilesFollow, Follows, Live, SameRouting
  <2>4. files'[x] = files[x] /\ (x \in crossed => x \in crossed')
    BY <1>2
  <2>5. QED
    BY <2>2, <2>3, <2>4, FollowFrame
<1>6. \A j \in Calls : ~Works("launch", j, s)'
  BY <1>2, <1>3 DEF FilesFollow, OneLaunch, Works
<1>7. files'[s] = files[s] /\ files[s] # None
  BY <1>2 DEF FilesFollow, KeepsFiles
<1>8. OneSwitch(s)'
  <2>1. SUFFICES ASSUME s \notin crossed' PROVE OneSwitch(s)'
    BY DEF OneSwitch
  <2>2. /\ \A j \in Calls : Works("switch", j, s) => j = k
        /\ Live(s) => WrittenFor(files[s], launch)
    BY <1>1, <1>2, <2>1 DEF FilesFollow, OneSwitch
  <2>3. \A j \in Calls : ~Works("switch", j, s)'
    BY <1>3, <2>2 DEF Works
  <2>4. Live(s)' => /\ WrittenFor(files'[s], launch)
                    /\ provider_index'[s].agent = launch.agent.id
                    /\ provider_index'[s].providers = launch.session_providers
                    /\ provider_index'[s].active = launch.model.provider
                    /\ provider_index'[s].fallback.primary = launch.model.model
    BY <1>2, <1>4, <1>7, <2>2, RoutingOf DEF Live
  <2>5. QED
    BY <2>3, <2>4 DEF OneSwitch
<1>9. QED
  BY <1>5, <1>6, <1>7, <1>8 DEF FilesFollow, Follows, OneLaunch, KeepsFiles

(* Every step keeps the files and the routing of every session together.    *)
LEMMA FollowStep == ASSUME Typed, BreakerEarned, FilesFollow, [Next]_vars PROVE FilesFollow'
<1> USE DEF Registry
<1>1. ASSUME NEW k \in Calls, NEW s \in Sessions, NEW t \in Terminals, launch_ai_session(k, s, t)
      PROVE  FilesFollow'
  <2>1. PICK a, b :
          calls' = [calls EXCEPT ![k] = [kind |-> "launch", session |-> s, terminal |-> t,
                                         agent |-> a, launch |-> None, new |-> b]]
    BY <1>1 DEF launch_ai_session, Begin
  <2>2. QED
    BY <1>1, <2>1, LaunchBegins DEF launch_ai_session, Free
<1>2. ASSUME NEW k \in Calls, NEW s \in Sessions, NEW t \in Terminals,
             launch_ai_session_in_current_terminal(k, s, t)
      PROVE  FilesFollow'
  <2>1. PICK a, b :
          calls' = [calls EXCEPT ![k] = [kind |-> "launch", session |-> s, terminal |-> t,
                                         agent |-> a, launch |-> None, new |-> b]]
    BY <1>2 DEF launch_ai_session_in_current_terminal, Begin
  <2>2. QED
    BY <1>2, <2>1, LaunchBegins DEF launch_ai_session_in_current_terminal, Free
<1>3. ASSUME NEW k \in Calls, WriteLaunchFiles(k)
      PROVE  FilesFollow'
  <2>1. /\ Works("launch", k, calls[k].session) /\ IsCall(calls[k])
        /\ UNCHANGED <<sessions, provider_index, crossed>>
    BY <1>3 DEF WriteLaunchFiles, Typed, Works
  <2>2. CASE calls' = [calls EXCEPT ![k] = None] /\ UNCHANGED files
    <3>1. \A x \in Sessions : Follows(x)'
      BY <2>1, <2>2, LaunchEnds DEF FilesFollow, Follows, Works
    <3>2. QED
      BY <3>1 DEF FilesFollow, Follows
  <2>3. CASE ~(calls' = [calls EXCEPT ![k] = None] /\ UNCHANGED files)
    <3>1. PICK launch : /\ launch = LaunchConfig(config, calls[k].agent) /\ launch # None
                        /\ calls' = [calls EXCEPT ![k] = [calls[k] EXCEPT !.launch = launch]]
                        /\ files' = [files EXCEPT ![calls[k].session] =
                                       LaunchFiles(config, launch)]
      BY <1>3, <2>3 DEF WriteLaunchFiles, prepare_session_launch_files, Typed
    <3>2. PICK call : call = [calls[k] EXCEPT !.launch = launch]
      OBVIOUS
    <3>3. /\ call.kind = "launch" /\ call.session = calls[k].session /\ call.launch = launch
          /\ calls[k].session \in Sessions /\ calls[k].agent \in AgentNames
      BY <2>1, <3>2 DEF IsCall, Works
    <3>4. /\ \A x \in Sessions \ {call.session} : files'[x] = files[x]
          /\ WrittenFor(files'[call.session], launch)
      BY <3>1, <3>3, LaunchHasFiles DEF Typed
    <3>5. QED
      BY <2>1, <3>1, <3>2, <3>3, <3>4, LaunchGoesOn
  <2>4. QED
    BY <2>2, <2>3
<1>4. ASSUME NEW k \in Calls, create_codex_terminal(k)
      PROVE  FilesFollow'
  <2>1. /\ Works("launch", k, calls[k].session) /\ IsCall(calls[k]) /\ calls[k].launch # None
        /\ UNCHANGED <<sessions, provider_index, crossed, files>>
    BY <1>4 DEF create_codex_terminal, Typed, Works
  <2>2. CASE calls' = [calls EXCEPT ![k] = None]
    <3>1. \A x \in Sessions : Follows(x)'
      BY <2>1, <2>2, LaunchEnds DEF FilesFollow, Follows, Works
    <3>2. QED
      BY <3>1 DEF FilesFollow, Follows
  <2>3. CASE calls' = [calls EXCEPT ![k] = [calls[k] EXCEPT !.new = FALSE]]
    <3>1. PICK call : call = [calls[k] EXCEPT !.new = FALSE]
      OBVIOUS
    <3>2. /\ call.kind = "launch" /\ call.session = calls[k].session
          /\ call.launch = calls[k].launch /\ calls[k].session \in Sessions
      BY <2>1, <3>1 DEF IsCall, Works
    <3>3. WrittenFor(files'[call.session], call.launch)
      BY <2>1, <3>2 DEF FilesFollow, OneLaunch
    <3>4. QED
      BY <2>1, <2>3, <3>1, <3>2, <3>3, LaunchGoesOn
  <2>4. QED
    BY <1>4, <2>2, <2>3 DEF create_codex_terminal, Typed
<1>5. ASSUME NEW k \in Calls, RegisterSession(k)
      PROVE  FilesFollow'
  BY <1>5, LaunchRegistered
<1>6. ASSUME NEW k \in Calls, FinishSwitch(k)
      PROVE  FilesFollow'
  BY <1>6, SwitchFinished
<1>7. ASSUME NEW k \in Calls, NEW s \in Sessions, NEW a \in AgentIds(config), NEW n \in Tokens,
             reconfigure_ai_session_agent(k, s, a, n)
      PROVE  FilesFollow'
  BY <1>7, SwitchBegins
<1>8. ASSUME NEW k \in Calls, NEW s \in Sessions, NEW m, proxy_compatible_responses(k, s, m)
      PROVE  FilesFollow'
  <2>1. /\ calls[k] = None /\ UNCHANGED <<files, crossed, sessions, provider_index>>
        /\ calls'[k].kind = "proxy" /\ \A j \in Calls \ {k} : calls'[j] = calls[j]
    BY <1>8 DEF proxy_compatible_responses, Free, Begin, Typed
  <2>2. QED
    BY <2>1, ProxiesChange DEF SameRouting
<1>9. ASSUME NEW k \in Calls, calls[k] # None, calls[k].kind = "proxy",
             UNCHANGED <<files, crossed, sessions>>,
             NEW v, \/ calls' = [calls EXCEPT ![k].effective = v]
                    \/ calls' = [calls EXCEPT ![k].provider = v]
                    \/ calls' = [calls EXCEPT ![k] = None],
             \A x \in Sessions : Live(x) => SameRouting(x)
      PROVE  FilesFollow'
  <2>1. \A j \in Calls : \/ calls'[j] = calls[j]
                         \/ calls'[j] = None
                         \/ calls'[j].kind = "proxy" /\ calls[j].kind = "proxy"
                            /\ calls'[j].session = calls[j].session
    BY <1>9, ProxyStep
  <2>2. \A j \in Calls \ {k} : calls'[j] = calls[j]
    BY <1>9, ProxyStep
  <2>3. QED
    BY <1>9, <2>1, <2>2, ProxiesChange
<1>10. ASSUME NEW k \in Calls, ChooseEffectiveModel(k)
       PROVE  FilesFollow'
  <2>1. PICK v : calls' = [calls EXCEPT ![k].effective = v]
    BY <1>10 DEF ChooseEffectiveModel
  <2>2. \A x \in Sessions : Live(x) => SameRouting(x)
    BY <1>10 DEF ChooseEffectiveModel, SameRouting
  <2>3. QED
    BY <1>9, <1>10, <2>1, <2>2 DEF ChooseEffectiveModel
<1>11. ASSUME NEW k \in Calls, ChooseProvider(k)
       PROVE  FilesFollow'
  <2>1. PICK v : \/ calls' = [calls EXCEPT ![k].provider = v]
                 \/ calls' = [calls EXCEPT ![k] = None]
    BY <1>11 DEF ChooseProvider
  <2>2. \A x \in Sessions : Live(x) => SameRouting(x)
    BY <1>11 DEF ChooseProvider, SameRouting
  <2>3. QED
    BY <1>9, <1>11, <2>1, <2>2 DEF ChooseProvider
<1>12. ASSUME NEW s \in Sessions, Live(s),
              \E after : /\ IsFallback(after)
                         /\ after.primary = provider_index[s].fallback.primary
                         /\ provider_index' = [provider_index EXCEPT ![s] =
                                                 [provider_index[s] EXCEPT !.fallback = after]]
       PROVE  \A x \in Sessions : Live(x) => SameRouting(x)
  <2>1. PICK after : /\ IsFallback(after)
                     /\ after.primary = provider_index[s].fallback.primary
                     /\ provider_index' = [provider_index EXCEPT ![s] =
                                             [provider_index[s] EXCEPT !.fallback = after]]
    BY <1>12
  <2>2. /\ provider_index'[s].fallback = after
        /\ provider_index'[s].agent = provider_index[s].agent
        /\ provider_index'[s].providers = provider_index[s].providers
        /\ provider_index'[s].active = provider_index[s].active
        /\ \A x \in Sessions \ {s} : provider_index'[x] = provider_index[x]
    BY <1>12, <2>1, BreakerChange
  <2>3. QED
    BY <2>1, <2>2 DEF SameRouting
<1>13. ASSUME NEW k \in Calls, FinishProxy(k)
       PROVE  FilesFollow'
  <2>1. /\ calls[k] # None /\ calls[k].kind = "proxy" /\ calls[k].session \in Sessions
        /\ calls' = [calls EXCEPT ![k] = None] /\ UNCHANGED <<files, crossed, sessions>>
    BY <1>13 DEF FinishProxy, Typed, IsCall
  <2>2. \A x \in Sessions : Live(x) => SameRouting(x)
    <3>1. CASE ~Live(calls[k].session)
      BY <1>13, <3>1 DEF FinishProxy, SameRouting
    <3>2. CASE Live(calls[k].session)
      BY <1>12, <1>13, <2>1, <3>2, AnswerTaken
    <3>3. QED
      BY <3>1, <3>2
  <2>3. QED
    BY <1>9, <2>1, <2>2
<1>14. ASSUME NEW s \in Sessions, HourPasses(s)
       PROVE  FilesFollow'
  <2>1. Live(s) /\ UNCHANGED <<files, crossed, sessions, calls>>
    BY <1>14 DEF HourPasses
  <2>2. \A x \in Sessions : Live(x) => SameRouting(x)
    BY <1>12, <1>14, <2>1, HourTaken
  <2>3. QED
    BY <2>1, <2>2, ProxiesChange
<1>15. CASE UNCHANGED <<files, crossed, sessions, calls, provider_index>>
  BY <1>15, ProxiesChange DEF SameRouting
<1>16. QED
  BY <1>1, <1>2, <1>3, <1>4, <1>5, <1>6, <1>7, <1>8, <1>10, <1>11, <1>13, <1>14, <1>15
     DEF Next, SaveSettings, vars

-----------------------------------------------------------------------------
(* The providers of a session                                              *)

(* A launch has the enabled providers of its configuration.                 *)
LEMMA LaunchIsSound ==
  ASSUME Typed, NEW a, LaunchConfig(config, a) # None
  PROVE  SoundProviders(LaunchConfig(config, a).session_providers)
<1>1. SoundProviders(config.providers)
  BY ConfigsAssumption DEF Typed
<1>2. LaunchConfig(config, a).session_providers = Enabled(config.providers)
  BY DEF LaunchConfig, Launch, Enabled
<1>3. QED
  BY <1>1, <1>2, EnabledProviders

(* The registry is written by launches and switches, whose providers are    *)
(* sound; a provider's answer and the hour leave them as they are.          *)
LEMMA RoutingStep ==
  ASSUME Typed, BreakerEarned, RoutingIsSound, [Next]_vars PROVE RoutingIsSound'
<1> USE DEF Registry
<1>1. ASSUME UNCHANGED <<sessions, provider_index>>, NEW k \in Calls, NEW call,
             calls' = [calls EXCEPT ![k] = call],
             call # None /\ Carries(call) => SoundProviders(call.launch.session_providers)
      PROVE  RoutingIsSound'
  <2>1. calls'[k] = call /\ \A j \in Calls \ {k} : calls'[j] = calls[j]
    BY <1>1 DEF Typed
  <2>2. QED
    BY <1>1, <2>1 DEF RoutingIsSound, Live
<1>2. ASSUME UNCHANGED <<sessions, provider_index, calls>> PROVE RoutingIsSound'
  BY <1>2 DEF RoutingIsSound, Live
<1>3. ASSUME NEW k \in Calls, calls' = [calls EXCEPT ![k] = None],
             \A x \in Sessions : Live(x)' =>
                SoundProviders(provider_index'[x].providers)
      PROVE  RoutingIsSound'
  <2>1. calls'[k] = None /\ \A j \in Calls \ {k} : calls'[j] = calls[j]
    BY <1>3 DEF Typed
  <2>2. QED
    BY <1>3, <2>1 DEF RoutingIsSound
<1>4. ASSUME UNCHANGED <<sessions, provider_index>>,
             \A j \in Calls : \/ calls'[j] = calls[j]
                              \/ calls'[j] = None
                              \/ calls'[j].kind = "proxy"
       PROVE  RoutingIsSound'
  BY <1>4 DEF RoutingIsSound, Live, Carries
<1>5. ASSUME NEW k \in Calls, NEW s \in Sessions, NEW t \in Terminals, launch_ai_session(k, s, t)
      PROVE  RoutingIsSound'
  <2>1. PICK a : calls' = [calls EXCEPT ![k] = [kind |-> "launch", session |-> s, terminal |-> t,
                                                agent |-> a, launch |-> None, new |-> TRUE]]
    BY <1>5 DEF launch_ai_session, Begin
  <2>2. UNCHANGED <<sessions, provider_index>>
    BY <1>5 DEF launch_ai_session
  <2>3. QED
    BY <1>1, <2>1, <2>2 DEF Carries
<1>6. ASSUME NEW k \in Calls, NEW s \in Sessions, NEW t \in Terminals,
             launch_ai_session_in_current_terminal(k, s, t)
      PROVE  RoutingIsSound'
  <2>1. PICK a : calls' = [calls EXCEPT ![k] = [kind |-> "launch", session |-> s, terminal |-> t,
                                                agent |-> a, launch |-> None, new |-> FALSE]]
    BY <1>6 DEF launch_ai_session_in_current_terminal, Begin
  <2>2. UNCHANGED <<sessions, provider_index>>
    BY <1>6 DEF launch_ai_session_in_current_terminal
  <2>3. QED
    BY <1>1, <2>1, <2>2 DEF Carries
<1>7. ASSUME NEW k \in Calls, NEW s \in Sessions, NEW a \in AgentIds(config), NEW n \in Tokens,
             reconfigure_ai_session_agent(k, s, a, n)
      PROVE  RoutingIsSound'
  <2>1. PICK launch : /\ launch = LaunchConfig(config, a) /\ launch # None
                      /\ calls' = [calls EXCEPT ![k] = SwitchCall(s, launch)]
                      /\ UNCHANGED <<sessions, provider_index>>
    BY <1>7 DEF reconfigure_ai_session_agent, Begin
  <2>2. SoundProviders(launch.session_providers) /\ SwitchCall(s, launch).launch = launch
    BY <2>1, LaunchIsSound DEF SwitchCall
  <2>3. QED
    BY <1>1, <2>1, <2>2
<1>8. ASSUME NEW k \in Calls, NEW s \in Sessions, NEW m, proxy_compatible_responses(k, s, m)
      PROVE  RoutingIsSound'
  <2>1. PICK slug, alias :
           /\ UNCHANGED <<sessions, provider_index>>
           /\ calls' = [calls EXCEPT ![k] =
                          [kind |-> "proxy", session |-> s, requested |-> m, slug |-> slug,
                           alias |-> alias, effective |-> None, provider |-> None]]
    BY <1>8 DEF proxy_compatible_responses, Begin
  <2>2. QED
    BY <1>1, <2>1 DEF Carries
<1>9. ASSUME NEW k \in Calls, WriteLaunchFiles(k)
      PROVE  RoutingIsSound'
  <2>1. UNCHANGED <<sessions, provider_index>> /\ IsCall(calls[k]) /\ calls[k].kind = "launch"
    BY <1>9 DEF WriteLaunchFiles, Typed
  <2>2. CASE calls' = [calls EXCEPT ![k] = None]
    BY <1>1, <2>1, <2>2
  <2>3. CASE \E launch : /\ launch # None /\ launch = LaunchConfig(config, calls[k].agent)
                         /\ calls' = [calls EXCEPT ![k].launch = launch]
    <3>1. PICK launch : /\ launch # None /\ launch = LaunchConfig(config, calls[k].agent)
                        /\ calls' = [calls EXCEPT ![k] = [calls[k] EXCEPT !.launch = launch]]
      BY <2>3 DEF Typed
    <3>2. SoundProviders(launch.session_providers)
      BY <3>1, LaunchIsSound
    <3>3. [calls[k] EXCEPT !.launch = launch].launch = launch
      BY <2>1 DEF IsCall
    <3>4. QED
      BY <1>1, <2>1, <3>1, <3>2, <3>3
  <2>4. QED
    BY <1>9, <2>2, <2>3 DEF WriteLaunchFiles
<1>10. ASSUME NEW k \in Calls, create_codex_terminal(k)
      PROVE  RoutingIsSound'
  <2>1. /\ UNCHANGED <<sessions, provider_index>> /\ IsCall(calls[k]) /\ calls[k].kind = "launch"
        /\ calls[k] # None /\ calls[k].launch # None
    BY <1>10 DEF create_codex_terminal, Typed
  <2>2. CASE calls' = [calls EXCEPT ![k] = None]
    BY <1>1, <2>1, <2>2
  <2>3. CASE calls' = [calls EXCEPT ![k] = [calls[k] EXCEPT !.new = FALSE]]
    <3>1. SoundProviders(calls[k].launch.session_providers)
      BY <2>1 DEF RoutingIsSound, Carries
    <3>2. PICK call : call = [calls[k] EXCEPT !.new = FALSE]
      OBVIOUS
    <3>3. call.launch = calls[k].launch
      BY <2>1, <3>2 DEF IsCall
    <3>4. QED
      BY <1>1, <2>1, <2>3, <3>1, <3>2, <3>3
  <2>4. QED
    BY <1>10, <2>2, <2>3 DEF create_codex_terminal, Typed
<1>11. ASSUME NEW k \in Calls, RegisterSession(k)
       PROVE  RoutingIsSound'
  <2>1. PICK s, launch : s = calls[k].session /\ launch = calls[k].launch
    OBVIOUS
  <2>2. /\ s \in Sessions /\ calls[k].terminal \in Terminals
        /\ insert(s, calls[k].terminal, launch) /\ SoundProviders(launch.session_providers)
        /\ calls' = [calls EXCEPT ![k] = None]
    BY <1>11, <2>1 DEF RegisterSession, Typed, IsCall, RoutingIsSound, Carries
  <2>3. provider_index'[s].providers = launch.session_providers
    BY <2>2, Inserted, RoutingOf
  <2>4. \A x \in Sessions \ {s} :
           \/ sessions'[x] = None
           \/ sessions'[x] = sessions[x] /\ provider_index'[x] = provider_index[x]
    BY <2>2, Inserted
  <2>5. ASSUME NEW x \in Sessions, Live(x)' PROVE SoundProviders(provider_index'[x].providers)
    BY <2>2, <2>3, <2>4, <2>5 DEF Live, RoutingIsSound
  <2>6. QED
    BY <1>3, <2>2, <2>5
<1>12. ASSUME NEW k \in Calls, FinishSwitch(k)
       PROVE  RoutingIsSound'
  <2>1. PICK s, launch : s = calls[k].session /\ launch = calls[k].launch
    OBVIOUS
  <2>2. /\ calls[k] # None /\ calls[k].kind = "switch" /\ UNCHANGED sessions
        /\ calls' = [calls EXCEPT ![k] = None]
        /\ IF Live(s) THEN update_runtime(s, launch) ELSE UNCHANGED provider_index
    BY <1>12, <2>1 DEF FinishSwitch
  <2>3. s \in Sessions /\ SoundProviders(launch.session_providers)
    BY <2>1, <2>2 DEF Typed, IsCall, RoutingIsSound, Carries
  <2>4. \A x \in Sessions :
          \/ provider_index'[x] = provider_index[x]
          \/ provider_index'[x] = Routing(launch)
    BY <2>2, <2>3 DEF update_runtime, Typed
  <2>5. Routing(launch).providers = launch.session_providers
    BY RoutingOf
  <2>6. ASSUME NEW x \in Sessions, Live(x)' PROVE SoundProviders(provider_index'[x].providers)
    BY <2>2, <2>3, <2>4, <2>5, <2>6 DEF Live, RoutingIsSound
  <2>7. QED
    BY <1>3, <2>2, <2>6
<1>13. ASSUME NEW k \in Calls, ChooseEffectiveModel(k)
       PROVE  RoutingIsSound'
  <2>1. /\ calls[k] # None /\ calls[k].kind = "proxy"
        /\ UNCHANGED <<sessions, provider_index>>
        /\ \E v : calls' = [calls EXCEPT ![k].effective = v]
    BY <1>13 DEF ChooseEffectiveModel
  <2>2. QED
    BY <1>4, <2>1, ProxyStep
<1>14. ASSUME NEW k \in Calls, ChooseProvider(k)
       PROVE  RoutingIsSound'
  <2>1. UNCHANGED <<sessions, provider_index>>
    BY <1>14 DEF ChooseProvider
  <2>2. CASE calls' = [calls EXCEPT ![k] = None]
    BY <1>1, <2>1, <2>2
  <2>3. CASE \E v : calls' = [calls EXCEPT ![k].provider = v]
    <3>1. calls[k] # None /\ calls[k].kind = "proxy"
      BY <1>14 DEF ChooseProvider
    <3>2. QED
      BY <1>4, <2>1, <2>3, <3>1, ProxyStep
  <2>4. QED
    BY <1>14, <2>2, <2>3 DEF ChooseProvider
<1>15. ASSUME NEW s \in Sessions, Live(s), UNCHANGED sessions,
              \E after : /\ IsFallback(after)
                         /\ provider_index' = [provider_index EXCEPT ![s] =
                                                 [provider_index[s] EXCEPT !.fallback = after]]
       PROVE  \A x \in Sessions : Live(x)' => SoundProviders(provider_index'[x].providers)
  <2>1. \A x \in Sessions : provider_index'[x].providers = provider_index[x].providers
    BY <1>15, BreakerChange
  <2>2. QED
    BY <1>15, <2>1 DEF Live, RoutingIsSound
<1>16. ASSUME NEW k \in Calls, FinishProxy(k)
       PROVE  RoutingIsSound'
  <2>1. /\ calls[k].session \in Sessions /\ UNCHANGED sessions
        /\ calls' = [calls EXCEPT ![k] = None]
    BY <1>16 DEF FinishProxy, Typed, IsCall
  <2>2. CASE UNCHANGED provider_index
    BY <1>1, <2>1, <2>2
  <2>3. CASE Live(calls[k].session)
    <3>1. \A x \in Sessions : Live(x)' => SoundProviders(provider_index'[x].providers)
      BY <1>15, <1>16, <2>1, <2>3, AnswerTaken
    <3>2. QED
      BY <1>3, <2>1, <3>1
  <2>4. QED
    BY <1>16, <2>2, <2>3 DEF FinishProxy
<1>17. ASSUME NEW s \in Sessions, HourPasses(s)
       PROVE  RoutingIsSound'
  <2>1. Live(s) /\ UNCHANGED <<sessions, calls>>
    BY <1>17 DEF HourPasses
  <2>2. \A x \in Sessions : Live(x)' => SoundProviders(provider_index'[x].providers)
    BY <1>15, <1>17, <2>1, HourTaken
  <2>3. QED
    BY <2>1, <2>2 DEF RoutingIsSound
<1>18. QED
  BY <1>2, <1>5, <1>6, <1>7, <1>8, <1>9, <1>10, <1>11, <1>12, <1>13, <1>14, <1>16, <1>17
     DEF Next, vars, SaveSettings

-----------------------------------------------------------------------------
(* Theorems                                                                *)

(* The invariant holds of every state the handlers of a desktop reach,      *)
(* however their steps interleave.                                          *)
THEOREM Inductive == Spec => []IInv
<1>1. Init => IInv
  <2>1. ASSUME Init PROVE BreakerEarned /\ FilesFollow /\ RoutingIsSound
    BY <2>1 DEF Init, BreakerEarned, FilesFollow, OneLaunch, KeepsFiles, OneSwitch, Works, Live,
                RoutingIsSound
  <2>2. QED
    BY <2>1, TypedInit DEF IInv
<1>2. IInv /\ [Next]_vars => IInv'
  BY TypedStep, BreakerStep, FollowStep, RoutingStep DEF IInv
<1>3. QED
  BY <1>1, <1>2, PTL DEF Spec

(* A primary model is disabled only after three failures of it, and only if *)
(* the agent names a fallback, whichever requests the answers belong to.    *)
THEOREM BreakerEarnedAlways == Spec => []BreakerEarned
<1>1. IInv => BreakerEarned
  BY DEF IInv
<1>2. QED
  BY <1>1, Inductive, PTL

(* The files a codex process reads and the routing of its requests are of   *)
(* the same launch, unless two switches of the session ran at once.         *)
THEOREM FilesMatchRoutingAlways == Spec => []FilesMatchRouting
<1>1. ASSUME IInv PROVE FilesMatchRouting
  <2>1. SUFFICES ASSUME NEW s \in Sessions, Live(s), s \notin crossed,
                        s \notin {calls[k].session : k \in Serving("switch")}
                 PROVE  LET r == provider_index[s]
                            b == files[s].bridge
                        IN  /\ files[s].agent = r.agent /\ b.model = r.fallback.primary
                            /\ b.models = build_bridge_models_for_session(r.providers, r.active)
                            /\ BridgeIsClosed(b)
    BY DEF FilesMatchRouting
  <2>2. \A k \in Calls : ~Works("switch", k, s)
    BY <2>1 DEF Serving, Works
  <2>3. PICK launch : /\ WrittenFor(files[s], launch)
                      /\ provider_index[s].agent = launch.agent.id
                      /\ provider_index[s].providers = launch.session_providers
                      /\ provider_index[s].active = launch.model.provider
                      /\ provider_index[s].fallback.primary = launch.model.model
    BY <1>1, <2>1, <2>2 DEF IInv, FilesFollow, OneSwitch
  <2>4. QED
    BY <2>3, WrittenFiles
<1>2. QED
  BY <1>1, Inductive, PTL

(* The list of a session's picker has every text model of its providers, and *)
(* each entry is resolved to the model and the provider it shows.            *)
THEOREM PickerRoundTripAlways == Spec => []PickerRoundTrip
<1>1. ASSUME IInv PROVE PickerRoundTrip
  <2>1. SUFFICES ASSUME NEW s \in Sessions, Live(s)
                 PROVE  LET r == provider_index[s]
                            list == build_bridge_models_for_session(r.providers, r.active)
                        IN  /\ {list[i].shows : i \in DOMAIN list} = ToSet(TextModels(r.providers))
                            /\ \A i \in DOMAIN list :
                                  resolve_session_picker_model(r.providers, list[i].id)
                                    = list[i].shows
    BY DEF PickerRoundTrip
  <2>2. SoundProviders(provider_index[s].providers)
    BY <1>1, <2>1 DEF IInv, RoutingIsSound
  <2>3. QED
    BY <2>2, PickerIsSound
<1>2. QED
  BY <1>1, Inductive, PTL
==================================================================================
