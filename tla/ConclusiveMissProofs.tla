-------------------------- MODULE ConclusiveMissProofs --------------------------
(***************************************************************************)
(* Proofs about ConclusiveMiss, for any chains, spellings, formats, packs  *)
(* and bounds on what the user does: a verdict that stands matches the     *)
(* format list (Thorough says what a pass has asked for so far), and one   *)
(* nothing misled is true (Truthful says what a pass knows of the server   *)
(* and the pack, Recorded what a recorded verdict does).                   *)
(***************************************************************************)
EXTENDS ConclusiveMiss, WellFoundedInduction, TLAPS

(* Every spelling was asked for; the verdict is on its way to the memory. *)
Over == {"verdict", "checked", "add"}

Snapshots ==
  /\ cached.gen <= gen /\ knownGen <= gen
  /\ ~bumping /\ cached.gen = gen => cached.list = list

Staged(c) ==
  /\ pass[c].pc = "idle" => pass[c] = Idle
  /\ pass[c].gen <= gen
  /\ pass[c].pc \in {"front", "list", "ladder"} => c \in Probed
  /\ pass[c].pc \in {"list", "ladder"} => pass[c].gen <= pass[c].read /\ pass[c].read <= gen
  /\ pass[c].pc \in Over => pass[c].at = Len(Names(c))
  /\ c \in Exact /\ pass[c].pc = "walk" => Url[c] \in pass[c].todo \cup pass[c].tried
  /\ c \in Exact /\ pass[c].pc \in Over => Url[c] \in pass[c].tried

(* A pass of this generation has asked, or is about to ask, for the whole   *)
(* list under every spelling it has come to.                               *)
Thorough(c) ==
  c \in Probed /\ ~bumping /\ pass[c].gen = gen /\ "skipped" \notin pass[c].doubts =>
    \A i \in DOMAIN Names(c), f \in list :
      /\ i < pass[c].at \/ pass[c].pc \in Over => <<Names(c)[i], f>> \in pass[c].tried
      /\ i = pass[c].at /\ pass[c].pc = "walk" =>
           <<Names(c)[i], f>> \in pass[c].todo \cup pass[c].tried

(* What a pass found absent is absent, unless it was misled.               *)
Truthful(c) ==
  pass[c].pc # "idle" =>
    /\ "silenced" \notin pass[c].doubts /\ (~offline \/ pass[c].pc \in {"checked", "add"}) =>
         pass[c].tried \cap OnServer = {}
    /\ "raced" \notin pass[c].doubts => pass[c].layer = layer
    /\ "raced" \notin pass[c].doubts /\ "unread" \notin pass[c].doubts =>
         \A i \in DOMAIN Names(c) :
           i < pass[c].at \/ (i = pass[c].at /\ pass[c].pc # "pack") => ~InPack(layer, Names(c)[i])

Lane(c) == Staged(c) /\ Thorough(c) /\ Truthful(c)

Lanes == \A c \in Chains : Lane(c)

RecordedOf(c) ==
  /\ c \in Exact => Url[c] \in verdict[c].tried
  /\ "silenced" \notin verdict[c].doubts => verdict[c].tried \cap OnServer = {}
  /\ "raced" \notin verdict[c].doubts /\ "unread" \notin verdict[c].doubts =>
       swapping = NoSwap /\ (c \in Probed => ~PackHas(c))

Recorded == \A c \in ToSet(known) : RecordedOf(c)

MissInv == TypeOK /\ Snapshots /\ Lanes /\ VerdictMatchesList /\ Recorded

-----------------------------------------------------------------------------
(* Sequences *)

LEMMA Least == ASSUME NEW T, T \subseteq Nat, T # {} PROVE \E x \in T : \A y \in T : x <= y
<1> DEFINE R == OpToRel(<, Nat)
<1>1. IsWellFoundedOn(R, Nat)
  BY NatLessThanWellFounded, Zenon
<1>2. \A x, y \in Nat : y < x => <<y, x>> \in R
  BY DEF OpToRel
<1> HIDE DEF R
<1>3. \E x \in T : \A y \in T : ~ (<<y, x>> \in R)
  BY <1>1, WFMin
<1>4. PICK x \in T : \A y \in T : ~ (<<y, x>> \in R)
  BY <1>3
<1>5. ASSUME NEW y \in T PROVE x <= y
  <2>1. x \in Nat /\ y \in Nat /\ ~(y < x)
    BY <1>2, <1>4
  <2>2. QED BY <2>1
<1>6. QED BY <1>5

(* Induction: the library's minimum of a set does not need an operator. *)
LEMMA SetInduction ==
  ASSUME NEW n \in Nat, NEW T, 0 \in T, \A i \in 0 .. n - 1 : i \in T => i + 1 \in T
  PROVE  \A i \in 0 .. n : i \in T
<1> DEFINE Out == {i \in 0 .. n : i \notin T}
<1>0. Out \subseteq Nat /\ \A i : i \in Out <=> i \in 0 .. n /\ i \notin T
  OBVIOUS
<1> HIDE DEF Out
<1>1. ASSUME Out # {} PROVE FALSE
  <2>1. PICK x \in Out : \A y \in Out : x <= y
    BY <1>0, <1>1, Least
  <2>2. x \in 0 .. n /\ x \notin T /\ x # 0
    BY <1>0
  <2>3. x - 1 \in 0 .. n - 1 /\ (x - 1) + 1 = x /\ ~(x <= x - 1) /\ x - 1 \in 0 .. n
    BY <2>2
  <2>4. x - 1 \in T
    BY <1>0, <2>1, <2>3
  <2>5. QED BY <2>2, <2>3, <2>4
<1>2. QED BY <1>0, <1>1

(* A function as Without defines it, up to m. *)
Part(s, K, m, g) == g = [i \in 0 .. m |->
     IF i = 0 THEN <<>> ELSE IF s[i] \in K THEN g[i - 1] ELSE Append(g[i - 1], s[i])]

LEMMA PartsExist ==
  ASSUME NEW S, NEW s \in Seq(S), NEW K
  PROVE  \E g : Part(s, K, Len(s), g)
<1> DEFINE T == {m \in 0 .. Len(s) : \E g : Part(s, K, m, g)}
<1>1. Len(s) \in Nat
  OBVIOUS
<1>2. 0 \in T
  <2> DEFINE g == [i \in 0 .. 0 |-> <<>>]
  <2>1. Part(s, K, 0, g)
    BY DEF Part
  <2>2. QED BY <1>1, <2>1
<1>3. ASSUME NEW m \in 0 .. Len(s) - 1, m \in T PROVE m + 1 \in T
  <2>1. PICK g : Part(s, K, m, g)
    BY <1>3
  <2> DEFINE new(i, p) == IF i = 0 THEN <<>> ELSE IF s[i] \in K THEN p ELSE Append(p, s[i])
             h == [i \in 0 .. m + 1 |-> new(i, g[i - 1])]
  <2>0. m \in Nat /\ m + 1 \in 0 .. Len(s)
    BY <1>1
  <2>2. \A i \in 0 .. m : g[i] = new(i, g[i - 1])
    BY <2>1 DEF Part
  <2>3. \A i \in 0 .. m + 1 : h[i] = new(i, g[i - 1])
    OBVIOUS
  <2>3a. DOMAIN h = 0 .. m + 1 /\ h = [i \in 0 .. m + 1 |-> h[i]]
    OBVIOUS
  <2> HIDE DEF h, new
  <2>4. \A i \in 0 .. m : h[i] = g[i]
    BY <2>0, <2>2, <2>3
  <2>5. \A i \in 0 .. m + 1 : i = 0 \/ h[i - 1] = g[i - 1]
    BY <2>0, <2>4
  <2>5a. \A i \in 0 .. m + 1 : h[i] = new(i, h[i - 1])
    BY <2>3, <2>5 DEF new
  <2>6. h = [i \in 0 .. m + 1 |-> new(i, h[i - 1])]
    BY <2>3a, <2>5a
  <2>7. Part(s, K, m + 1, h)
    BY <2>6 DEF Part, new
  <2>8. QED BY <2>0, <2>7
<1> HIDE DEF T
<1>4. \A i \in 0 .. Len(s) : i \in T
  BY <1>1, <1>2, <1>3, SetInduction
<1>5. Len(s) \in T
  BY <1>1, <1>4
<1>6. QED BY <1>5 DEF T

LEMMA WithoutDef ==
  ASSUME NEW S, NEW s \in Seq(S), NEW K
  PROVE  \E g : Part(s, K, Len(s), g) /\ Without(s, K) = g[Len(s)]
<1> DEFINE g == CHOOSE f : Part(s, K, Len(s), f)
<1>1. Part(s, K, Len(s), g)
  BY PartsExist
<1>2. Without(s, K) = g[Len(s)]
  BY DEF Without, Part
<1>3. QED BY <1>1, <1>2

LEMMA Appended ==
  ASSUME NEW S, NEW q \in Seq(S), NEW x \in S
  PROVE  /\ Append(q, x) \in Seq(S) /\ Len(Append(q, x)) = Len(q) + 1 /\ Len(q) \in Nat
         /\ ToSet(Append(q, x)) = ToSet(q) \cup {x}
         /\ IsInjective(q) /\ x \notin ToSet(q) => IsInjective(Append(q, x))
<1> DEFINE r == Append(q, x)
<1>1. /\ r \in Seq(S) /\ Len(r) = Len(q) + 1 /\ Len(q) \in Nat
      /\ DOMAIN q = 1 .. Len(q) /\ DOMAIN r = 1 .. Len(q) + 1
      /\ r[Len(q) + 1] = x /\ \A j \in 1 .. Len(q) : r[j] = q[j]
  OBVIOUS
<1> HIDE DEF r
<1>2. ToSet(r) = ToSet(q) \cup {x}
  <2>1. ASSUME NEW j \in DOMAIN r PROVE r[j] \in ToSet(q) \cup {x}
    <3>1. j = Len(q) + 1 \/ j \in 1 .. Len(q)
      BY <1>1
    <3>2. QED BY <1>1, <3>1 DEF ToSet
  <2>2. ToSet(q) \subseteq ToSet(r)
    <3>1. \A j \in DOMAIN q : j \in DOMAIN r /\ r[j] = q[j]
      BY <1>1
    <3>2. QED BY <3>1 DEF ToSet
  <2>3. x \in ToSet(r)
    <3>1. Len(q) + 1 \in DOMAIN r
      BY <1>1
    <3>2. QED BY <1>1, <3>1 DEF ToSet
  <2>4. ToSet(r) \subseteq ToSet(q) \cup {x}
    BY <2>1 DEF ToSet
  <2>5. QED BY <2>2, <2>3, <2>4
<1>3. ASSUME IsInjective(q), x \notin ToSet(q), NEW i \in DOMAIN r, NEW j \in DOMAIN r, r[i] = r[j]
      PROVE  i = j
  <2>1. \A k \in 1 .. Len(q) : r[k] # x
    BY <1>1, <1>3 DEF ToSet
  <2>2. \A k \in DOMAIN r : k = Len(q) + 1 \/ k \in 1 .. Len(q)
    BY <1>1
  <2>3. \A k, l \in 1 .. Len(q) : r[k] = r[l] => k = l
    BY <1>1, <1>3 DEF IsInjective
  <2>4. QED BY <1>1, <1>3, <2>1, <2>2, <2>3
<1>4. IsInjective(q) /\ x \notin ToSet(q) => IsInjective(r)
  BY <1>3 DEF IsInjective
<1>5. QED BY <1>1, <1>2, <1>4 DEF r

(* What Without returns: it drops K, and repeats nothing it was not given. *)
LEMMA WithoutFacts ==
  ASSUME NEW S, NEW s \in Seq(S), NEW K
  PROVE  /\ Without(s, K) \in Seq(S) /\ Len(Without(s, K)) <= Len(s)
         /\ ToSet(Without(s, K)) = ToSet(s) \ K
         /\ IsInjective(s) => IsInjective(Without(s, K))
         /\ ToSet(s) \cap K # {} => Len(Without(s, K)) < Len(s)
<1>0. Len(s) \in Nat /\ DOMAIN s = 1 .. Len(s) /\ \A i \in 1 .. Len(s) : s[i] \in S
  OBVIOUS
<1>1. PICK g : Part(s, K, Len(s), g) /\ Without(s, K) = g[Len(s)]
  BY WithoutDef
<1> DEFINE To(i) == {s[j] : j \in 1 .. i}
           Good(i) == /\ g[i] \in Seq(S) /\ Len(g[i]) <= i /\ ToSet(g[i]) = To(i) \ K
                      /\ IsInjective(s) => IsInjective(g[i])
                      /\ To(i) \cap K # {} => Len(g[i]) < i
           T == {i \in 0 .. Len(s) : Good(i)}
<1>2. \A i \in 0 .. Len(s) : g[i] =
        IF i = 0 THEN <<>> ELSE IF s[i] \in K THEN g[i - 1] ELSE Append(g[i - 1], s[i])
  BY <1>1 DEF Part
<1>3. 0 \in T
  <2>1. g[0] = <<>> /\ To(0) = {} /\ 0 \in 0 .. Len(s)
    BY <1>0, <1>2
  <2>2. <<>> \in Seq(S) /\ Len(<<>>) = 0 /\ ToSet(<<>>) = {} /\ IsInjective(<<>>)
    BY DEF ToSet, IsInjective
  <2> HIDE DEF To
  <2>3. ToSet(g[0]) = To(0) \ K
    BY <2>1, <2>2
  <2>4. Good(0)
    BY <2>1, <2>2, <2>3
  <2>5. QED BY <2>1, <2>4
<1>4. ASSUME NEW i \in 0 .. Len(s) - 1, i \in T PROVE i + 1 \in T
  <2>1. i + 1 \in 1 .. Len(s) /\ i + 1 \in 0 .. Len(s) /\ i \in Nat /\ (i + 1) - 1 = i /\ i + 1 # 0
    BY <1>0
  <2>2. Good(i)
    BY <1>4
  <2> DEFINE x == s[i + 1]
             q == g[i]
  <2>3. x \in S
    BY <2>1
  <2>4. To(i + 1) = To(i) \cup {x}
    <3>1. \A j \in 1 .. i + 1 : j = i + 1 \/ j \in 1 .. i
      BY <2>1
    <3>2. 1 .. i \subseteq 1 .. i + 1 /\ i + 1 \in 1 .. i + 1
      BY <2>1
    <3>3. QED BY <3>1, <3>2
  <2>5. g[i + 1] = IF x \in K THEN q ELSE Append(q, x)
    BY <1>2, <2>1
  <2>6. IsInjective(s) => x \notin To(i)
    <3>1. ASSUME NEW j \in 1 .. i, IsInjective(s), x = s[j] PROVE FALSE
      <4>1. j \in DOMAIN s /\ i + 1 \in DOMAIN s /\ j # i + 1
        BY <2>1
      <4>2. QED BY <3>1, <4>1 DEF IsInjective
    <3>2. QED BY <3>1
  <2>7. /\ q \in Seq(S) /\ Len(q) <= i /\ ToSet(q) = To(i) \ K
        /\ IsInjective(s) => IsInjective(q)
        /\ To(i) \cap K # {} => Len(q) < i
    BY <2>2
  <2> HIDE DEF q, x, To
  <2>8. CASE x \in K
    <3>1. Len(q) \in Nat /\ Len(q) < i + 1
      BY <2>1, <2>7
    <3>2. QED BY <2>1, <2>4, <2>5, <2>7, <2>8, <3>1
  <2>9. CASE x \notin K
    <3>1. /\ Append(q, x) \in Seq(S) /\ Len(Append(q, x)) = Len(q) + 1 /\ Len(q) \in Nat
          /\ ToSet(Append(q, x)) = ToSet(q) \cup {x}
          /\ IsInjective(q) /\ x \notin ToSet(q) => IsInjective(Append(q, x))
      BY <2>3, <2>7, Appended
    <3>2. /\ Len(Append(q, x)) <= i + 1
          /\ To(i) \cap K # {} => Len(Append(q, x)) < i + 1
      BY <2>1, <2>7, <3>1
    <3>3. x \notin To(i) => x \notin ToSet(q)
      BY <2>7
    <3>4. ToSet(Append(q, x)) = To(i + 1) \ K /\ To(i + 1) \cap K = To(i) \cap K
      BY <2>4, <2>7, <2>9, <3>1
    <3>5. QED BY <2>1, <2>5, <2>6, <2>7, <2>9, <3>1, <3>2, <3>3, <3>4
  <2>10. QED BY <2>8, <2>9
<1>5. \A i \in 0 .. Len(s) : i \in T
  <2> HIDE DEF T
  <2>1. QED BY <1>0, <1>3, <1>4, SetInduction
<1>6. Good(Len(s))
  <2>1. Len(s) \in 0 .. Len(s)
    BY <1>0
  <2>2. Len(s) \in T
    <3> HIDE DEF T
    <3>1. QED BY <1>5, <2>1
  <2>3. QED BY <2>2
<1>7. To(Len(s)) = ToSet(s)
  BY <1>0 DEF ToSet
<1>8. QED BY <1>1, <1>6, <1>7

LEMMA Constants ==
  /\ MaxGen \in Nat /\ Capacity \in Nat /\ Capacity > 0 /\ LearnedCap \in Nat /\ LearnedCap > 0
  /\ EvictBatch \in Nat /\ EvictBatch >= 1 /\ EvictBatch <= Capacity
  /\ FirstList \in Lists /\ \A l \in Lists : l \subseteq Formats
  /\ Probed \cap Exact = {} /\ Chains = Probed \cup Exact
<1>1. {MaxGen} \subseteq Nat /\ Capacity \in Nat \ {0} /\ LearnedCap \in Nat \ {0}
  BY MissAssumption
<1>2. EvictBatch \in 1 .. Capacity
  BY MissAssumption
<1>3. QED BY <1>1, <1>2, MissAssumption DEF Chains

LEMMA NamesFacts ==
  ASSUME NEW c \in Chains
  PROVE  /\ Len(Names(c)) \in Nat /\ Len(Names(c)) >= 1 /\ DOMAIN Names(c) = 1 .. Len(Names(c))
         /\ c \in Exact => Len(Names(c)) = 1
<1>1. CASE c \in Exact
  BY <1>1 DEF Names
<1>2. CASE c \notin Exact
  <2>1. Spellings[c] \in Seq(ToSet(Spellings[c])) /\ Spellings[c] # <<>> /\ Names(c) = Spellings[c]
    BY <1>2, MissAssumption DEF Chains, Names
  <2>2. QED BY <1>2, <2>1
<1>3. QED BY <1>1, <1>2

LEMMA FreshFacts ==
  ASSUME NEW c, NEW fs
  PROVE  /\ \A f \in fs : <<Name(c), f>> \in Fresh(c, fs) \cup pass[c].tried
         /\ \A file \in Fresh(c, fs) : file[2] \in fs
  BY DEF Fresh

-----------------------------------------------------------------------------
(* The memory *)

LEMMA RetiredFacts ==
  ASSUME Memory, NEW g
  PROVE  /\ Retired(g) \in Seq(Chains) /\ IsInjective(Retired(g)) /\ Len(Retired(g)) <= Capacity
         /\ knownGen = g => Retired(g) = known
         /\ knownGen # g => ToSet(Retired(g)) = {}
         /\ ToSet(Retired(g)) \subseteq ToSet(known)
<1>1. <<>> \in Seq(Chains) /\ Len(<<>>) = 0 /\ ToSet(<<>>) = {} /\ IsInjective(<<>>)
  BY DEF ToSet, IsInjective
<1>2. CASE knownGen = g
  BY <1>2 DEF Retired, Memory
<1>3. CASE knownGen # g
  BY <1>1, <1>3, Constants DEF Retired
<1>4. QED BY <1>2, <1>3

LEMMA EvictedFacts ==
  ASSUME NEW s \in Seq(Chains), IsInjective(s), Len(s) = Capacity
  PROVE  /\ Evicted(s) \in Seq(Chains) /\ IsInjective(Evicted(s)) /\ Len(Evicted(s)) < Capacity
         /\ ToSet(Evicted(s)) \subseteq ToSet(s)
<1> DEFINE r == Evicted(s)
           b == EvictBatch
<1>1. b \in Nat /\ b >= 1 /\ b <= Len(s) /\ Len(s) \in Nat /\ DOMAIN s = 1 .. Len(s)
  BY Constants
<1> HIDE DEF b
<1>2. r = SubSeq(s, b + 1, Len(s))
  BY DEF Evicted, b
<1> HIDE DEF r
<1>3. /\ r \in Seq(Chains) /\ Len(r) = Len(s) - b /\ DOMAIN r = 1 .. Len(s) - b
      /\ \A k \in 1 .. Len(s) - b : r[k] = s[k + b]
  BY <1>1, <1>2
<1>4. \A k \in DOMAIN r : k + b \in DOMAIN s /\ r[k] = s[k + b]
  BY <1>1, <1>3
<1>5. ToSet(r) \subseteq ToSet(s)
  BY <1>4 DEF ToSet
<1>6. ASSUME NEW i \in DOMAIN r, NEW j \in DOMAIN r, r[i] = r[j] PROVE i = j
  <2>1. i + b = j + b
    BY <1>4, <1>6 DEF IsInjective
  <2>2. QED BY <1>1, <1>3, <2>1
<1>7. IsInjective(r)
  BY <1>6 DEF IsInjective
<1>8. QED BY <1>1, <1>3, <1>5, <1>7 DEF r

LEMMA AddedFacts ==
  ASSUME NEW s \in Seq(Chains), IsInjective(s), Len(s) <= Capacity, NEW c \in Chains
  PROVE  /\ Added(s, c) \in Seq(Chains) /\ IsInjective(Added(s, c)) /\ Len(Added(s, c)) <= Capacity
         /\ ToSet(Added(s, c)) \subseteq ToSet(s) \cup {c}
<1>0. Capacity \in Nat /\ Len(s) \in Nat
  BY Constants
<1>1. \A q \in Seq(Chains) : IsInjective(q) /\ c \notin ToSet(q) /\ Len(q) < Capacity
                               /\ ToSet(q) \subseteq ToSet(s) =>
        /\ Append(q, c) \in Seq(Chains) /\ IsInjective(Append(q, c)) /\ Len(Append(q, c)) <= Capacity
        /\ ToSet(Append(q, c)) \subseteq ToSet(s) \cup {c}
  <2> TAKE q \in Seq(Chains)
  <2>1. /\ Append(q, c) \in Seq(Chains) /\ Len(Append(q, c)) = Len(q) + 1 /\ Len(q) \in Nat
        /\ ToSet(Append(q, c)) = ToSet(q) \cup {c}
        /\ IsInjective(q) /\ c \notin ToSet(q) => IsInjective(Append(q, c))
    BY Appended
  <2>2. Len(q) < Capacity => Len(Append(q, c)) <= Capacity
    BY <1>0, <2>1
  <2>3. QED BY <2>1, <2>2
<1>2. CASE c \in ToSet(s)
  <2> DEFINE q == Without(s, {c})
  <2>1. q \in Seq(Chains) /\ IsInjective(q) /\ ToSet(q) = ToSet(s) \ {c} /\ Len(q) <= Len(s)
    BY WithoutFacts
  <2>2. Len(q) < Capacity
    <3>1. Len(q) < Len(s) /\ Len(q) \in Nat
      BY <1>2, <2>1, WithoutFacts
    <3>2. QED BY <1>0, <3>1
  <2>3. Added(s, c) = Append(q, c)
    BY <1>2 DEF Added
  <2> HIDE DEF q
  <2>4. QED BY <1>1, <2>1, <2>2, <2>3
<1>3. CASE c \notin ToSet(s) /\ Len(s) < Capacity
  <2>1. Added(s, c) = Append(s, c)
    BY <1>0, <1>3 DEF Added
  <2>2. QED BY <1>1, <1>3, <2>1
<1>4. CASE c \notin ToSet(s) /\ Len(s) = Capacity
  <2>1. Added(s, c) = Append(Evicted(s), c)
    BY <1>0, <1>4 DEF Added
  <2>2. /\ Evicted(s) \in Seq(Chains) /\ IsInjective(Evicted(s)) /\ Len(Evicted(s)) < Capacity
        /\ ToSet(Evicted(s)) \subseteq ToSet(s)
    BY <1>4, EvictedFacts
  <2>3. QED BY <1>1, <1>4, <2>1, <2>2
<1>5. QED BY <1>0, <1>2, <1>3, <1>4

LEMMA PromoteFacts ==
  ASSUME learned \in Seq(Formats), NEW f \in Formats
  PROVE  Promote(f) \in Seq(Formats) /\ Len(Promote(f)) <= LearnedCap
<1> DEFINE q == <<f>> \o Without(learned, {f})
           n == IF Len(q) < LearnedCap THEN Len(q) ELSE LearnedCap
<1>1. Without(learned, {f}) \in Seq(Formats)
  BY WithoutFacts
<1>2. q \in Seq(Formats) /\ Len(q) \in Nat
  BY <1>1
<1>3. Promote(f) = SubSeq(q, 1, n)
  BY DEF Promote
<1> HIDE DEF q
<1>4. n \in Nat /\ n <= Len(q) /\ n <= LearnedCap
  BY <1>2, Constants
<1> HIDE DEF n
<1>5. SubSeq(q, 1, n) \in Seq(Formats) /\ Len(SubSeq(q, 1, n)) = n
  BY <1>2, <1>4
<1>6. QED BY <1>3, <1>4, <1>5

(* How a step leaves the memory: as it was, with less in it, or with the    *)
(* chain whose pass ended.                                                 *)
LEMMA Forgotten ==
  ASSUME Memory, NEW cs, Forget(cs)
  PROVE  /\ Memory' /\ knownGen' = knownGen /\ ToSet(known') = ToSet(known) \ cs
         /\ \A c \in ToSet(known') : c \in Chains /\ verdict'[c] = verdict[c]
<1>1. known' = Without(known, cs) /\ knownGen' = knownGen
  BY DEF Forget, Know
<1>2. /\ known' \in Seq(Chains) /\ Len(known') <= Len(known) /\ IsInjective(known')
      /\ ToSet(known') = ToSet(known) \ cs /\ Len(known) \in Nat /\ Len(known') \in Nat
  BY <1>1, WithoutFacts DEF Memory
<1>3. ToSet(known') \subseteq Chains
  BY <1>2 DEF ToSet
<1>4. \A c \in ToSet(known') : verdict'[c] = verdict[c]
  BY <1>1, <1>3 DEF Forget, Know
<1>5. Memory'
  BY <1>1, <1>2, Constants DEF Memory
<1>6. QED BY <1>1, <1>2, <1>3, <1>4, <1>5

LEMMA Prefetched ==
  ASSUME Memory, NEW c, Prefetch(c), gen \in 0 .. MaxGen
  PROVE  /\ Memory' /\ knownGen' = gen /\ ToSet(known') \subseteq ToSet(known)
         /\ knownGen # gen => ToSet(known') = {}
         /\ \A d \in ToSet(known') : d \in Chains /\ verdict'[d] = verdict[d]
<1>1. known' = Retired(gen) /\ knownGen' = gen
  BY DEF Prefetch, Know
<1>2. known' \in Seq(Chains) /\ ToSet(known') \subseteq ToSet(known)
  BY <1>1, RetiredFacts
<1>3. ToSet(known') \subseteq Chains
  BY <1>2 DEF ToSet
<1>4. \A d \in ToSet(known') : verdict'[d] = verdict[d]
  BY <1>1, <1>3 DEF Prefetch, Know
<1>5. Memory' /\ (knownGen # gen => ToSet(known') = {})
  BY <1>1, RetiredFacts DEF Memory
<1>6. QED BY <1>1, <1>2, <1>3, <1>4, <1>5

LEMMA Remembering ==
  ASSUME Memory, Passes, NEW c \in Chains, Remember(c)
  PROVE  /\ Memory' /\ knownGen' = pass[c].gen /\ ToSet(known') \subseteq ToSet(known) \cup {c}
         /\ knownGen # knownGen' => ToSet(known') \subseteq {c}
         /\ verdict'[c].tried = pass[c].tried
         /\ verdict'[c].doubts = pass[c].doubts \cup (IF swapping = NoSwap THEN {} ELSE {"raced"})
         /\ \A d \in ToSet(known') : d \in Chains /\ (d # c => verdict'[d] = verdict[d])
<1> DEFINE g == pass[c].gen
           s == Retired(g)
<1>1. known' = Added(s, c) /\ knownGen' = g /\ g \in 0 .. MaxGen
  BY DEF Remember, Passes, PassOf
<1>2. s \in Seq(Chains) /\ IsInjective(s) /\ Len(s) <= Capacity /\ ToSet(s) \subseteq ToSet(known)
  BY RetiredFacts
<1>3. knownGen # g => ToSet(s) = {}
  BY RetiredFacts
<1> HIDE DEF s
<1>4. /\ known' \in Seq(Chains) /\ IsInjective(known') /\ Len(known') <= Capacity
      /\ ToSet(known') \subseteq ToSet(s) \cup {c}
  BY <1>1, <1>2, AddedFacts
<1>5. ToSet(known') \subseteq Chains
  BY <1>4 DEF ToSet
<1>6. verdict' = [d \in Chains |->
        IF d = c THEN [tried |-> pass[c].tried, doubts |-> pass[c].doubts \cup
                                     (IF swapping = NoSwap THEN {} ELSE {"raced"})]
        ELSE IF d \in ToSet(known') THEN verdict[d] ELSE NoVerdict]
  BY DEF Remember
<1>7. /\ verdict'[c].tried = pass[c].tried
      /\ verdict'[c].doubts = pass[c].doubts \cup (IF swapping = NoSwap THEN {} ELSE {"raced"})
  BY <1>6
<1>8. \A d \in ToSet(known') : d # c => verdict'[d] = verdict[d]
  BY <1>5, <1>6
<1>9. Memory'
  BY <1>1, <1>4 DEF Memory
<1>10. QED BY <1>1, <1>2, <1>3, <1>4, <1>5, <1>7, <1>8, <1>9

-----------------------------------------------------------------------------
(* What the steps keep *)

LEMMA IdleFacts ==
  /\ DOMAIN Idle = {"pc", "gen", "read", "layer", "at", "todo", "tried", "doubts"}
  /\ Idle.pc = "idle" /\ Idle.gen = 0 /\ Idle.read = 0 /\ Idle.at = 1
  /\ Idle.todo = {} /\ Idle.tried = {} /\ Idle.doubts = {}
  BY DEF Idle

LEMMA Moved ==
  ASSUME Passes, NEW c \in Chains, NEW p, Move(c, p)
  PROVE  pass'[c] = p /\ DOMAIN pass' = Chains /\ \A d \in Chains : d # c => pass'[d] = pass[d]
  BY DEF Move, Passes

LEMMA Ended ==
  ASSUME Passes, NEW c \in Chains, EndPass(c)
  PROVE  pass'[c] = Idle /\ DOMAIN pass' = Chains /\ \A d \in Chains : d # c => pass'[d] = pass[d]
  BY DEF EndPass, Passes

LEMMA Kept ==
  ASSUME Passes, NEW c \in Chains, UNCHANGED pass
  PROVE  pass'[c] = pass[c] /\ DOMAIN pass' = Chains /\ \A d \in Chains : d # c => pass'[d] = pass[d]
  BY DEF Passes

(* A step of one pass leaves the others and the render thread's state. *)
LEMMA OnlyThis ==
  ASSUME Passes, NEW c \in Chains, Start(c) \/ PassStep(c)
  PROVE  /\ DOMAIN pass' = Chains /\ \A d \in Chains : d # c => pass'[d] = pass[d]
         /\ UNCHANGED <<list, gen, bumping, layer, swapping, offline>>
         /\ queued' \subseteq Chains /\ resident' \subseteq Chains
<1> USE DEF Rest, prefsVars, source, Passes
<1>1. CASE Start(c)
  BY <1>1, Moved, Kept DEF Start
<1>2. CASE TryPack(c)
  BY <1>2, Moved, Ended DEF TryPack
<1>3. CASE BuildCandidates(c)
  BY <1>3, Moved DEF BuildCandidates
<1>4. CASE ReadList(c)
  BY <1>4, Moved DEF ReadList
<1>5. CASE ReadLadder(c)
  BY <1>5, Moved DEF ReadLadder
<1>6. ASSUME NEW file, Found(c, file) \/ NotFound(c, file)
      PROVE  /\ DOMAIN pass' = Chains /\ \A d \in Chains : d # c => pass'[d] = pass[d]
             /\ UNCHANGED <<list, gen, bumping, layer, swapping, offline>>
             /\ queued' \subseteq Chains /\ resident' \subseteq Chains
  BY <1>6, Moved, Ended DEF Found, NotFound
<1>7. CASE Fault(c)
  BY <1>7, Ended DEF Fault
<1>8. CASE Exhaust(c)
  BY <1>8, Moved DEF Exhaust
<1>9. CASE CheckOffline(c)
  BY <1>9, Moved, Ended DEF CheckOffline
<1>10. CASE CheckGen(c)
  BY <1>10, Moved, Ended DEF CheckGen
<1>11. CASE Remember(c)
  BY <1>11, Ended DEF Remember
<1>12. QED
  BY <1>1, <1>2, <1>3, <1>4, <1>5, <1>6, <1>7, <1>8, <1>9, <1>10, <1>11 DEF PassStep

LEMMA PrefsKept == Prefs /\ Passes /\ [Next]_vars => Prefs'
<1> SUFFICES ASSUME Prefs, Passes, [Next]_vars PROVE Prefs'
  OBVIOUS
<1> USE DEF Prefs, Passes, Snapshot, Rest, prefsVars, source, memory, EndPass
<1>1. ASSUME NEW l \in Lists, SetFormats(l) PROVE Prefs'
  BY <1>1, Constants DEF SetFormats, Busy
<1>2. CASE BumpGen
  <2>1. gen + 1 \in 0 .. MaxGen
    BY <1>2, Constants DEF BumpGen
  <2>2. QED BY <1>2, <2>1 DEF BumpGen
<1>3. ASSUME NEW l \in Packs \cup {{}}, SwapForget(l) PROVE Prefs'
  BY <1>3, Constants DEF SwapForget, Forget, Know, Busy
<1>4. CASE SwapStore
  BY <1>4, Constants DEF SwapStore, Doubt, InFlight
<1>5. ASSUME NEW on \in BOOLEAN, SetOffline(on) PROVE Prefs'
  BY <1>5, Constants DEF SetOffline, Doubt, InFlight, Busy
<1>6. ASSUME NEW cs, ForgetSome(cs) PROVE Prefs'
  BY <1>6, Constants DEF ForgetSome, Forget, Know, Busy
<1>7. ASSUME NEW c \in Chains, Prefetch(c) PROVE Prefs'
  BY <1>7, Constants DEF Prefetch, Know
<1>8. ASSUME NEW c \in Chains, DropJob(c) PROVE Prefs'
  BY <1>8, Constants DEF DropJob
<1>9. ASSUME NEW c \in Chains, Start(c) PROVE Prefs'
  BY <1>9, Constants DEF Start
<1>10. ASSUME NEW c \in Chains, TryPack(c) PROVE Prefs'
  BY <1>10, Constants DEF TryPack
<1>11. ASSUME NEW c \in Chains, BuildCandidates(c) PROVE Prefs'
  BY <1>11, Constants DEF BuildCandidates
<1>12. ASSUME NEW c \in Chains, ReadList(c) PROVE Prefs'
  <2>1. pass[c].read \in 0 .. MaxGen
    BY DEF PassOf
  <2>2. Snapshot(c) \in [gen : 0 .. MaxGen, list : Lists]
    BY <2>1
  <2>3. QED BY <1>12, <2>2 DEF ReadList
<1>13. ASSUME NEW c \in Chains, ReadLadder(c) PROVE Prefs'
  <2>1. pass[c].read \in 0 .. MaxGen
    BY DEF PassOf
  <2>2. Snapshot(c) \in [gen : 0 .. MaxGen, list : Lists]
    BY <2>1
  <2>3. QED BY <1>13, <2>2 DEF ReadLadder
<1>14. ASSUME NEW c \in Chains, NEW file \in pass[c].todo, Found(c, file) PROVE Prefs'
  BY <1>14, Constants DEF Found, Walking
<1>15. ASSUME NEW c \in Chains, NEW file \in pass[c].todo, NotFound(c, file) PROVE Prefs'
  BY <1>15, Constants DEF NotFound, Walking
<1>16. ASSUME NEW c \in Chains, Fault(c) PROVE Prefs'
  BY <1>16, Constants DEF Fault, Walking
<1>17. ASSUME NEW c \in Chains, Exhaust(c) PROVE Prefs'
  BY <1>17, Constants DEF Exhaust, Walking
<1>18. ASSUME NEW c \in Chains, CheckOffline(c) PROVE Prefs'
  BY <1>18, Constants DEF CheckOffline
<1>19. ASSUME NEW c \in Chains, CheckGen(c) PROVE Prefs'
  BY <1>19, Constants DEF CheckGen
<1>20. ASSUME NEW c \in Chains, Remember(c) PROVE Prefs'
  BY <1>20, Constants DEF Remember
<1>21. CASE UNCHANGED vars
  BY <1>21, Constants DEF vars
<1>22. QED
  BY <1>1, <1>2, <1>3, <1>4, <1>5, <1>6, <1>7, <1>8, <1>9, <1>10, <1>11, <1>12,
     <1>13, <1>14, <1>15, <1>16, <1>17, <1>18, <1>19, <1>20, <1>21
     DEF Next, RenderStep, PassStep, ForgetUnder

LEMMA SourcesKept == Sources /\ Passes /\ [Next]_vars => Sources'
<1> SUFFICES ASSUME Sources, Passes, [Next]_vars PROVE Sources'
  OBVIOUS
<1> USE DEF Sources, Rest, prefsVars, source, memory, EndPass
<1>1. ASSUME NEW l \in Lists, SetFormats(l) PROVE Sources'
  BY <1>1 DEF SetFormats, Busy
<1>2. CASE BumpGen
  BY <1>2 DEF BumpGen
<1>3. ASSUME NEW l \in Packs \cup {{}}, SwapForget(l) PROVE Sources'
  BY <1>3 DEF SwapForget, Forget, Know, Busy
<1>4. CASE SwapStore
  BY <1>4 DEF SwapStore, Doubt, InFlight
<1>5. ASSUME NEW on \in BOOLEAN, SetOffline(on) PROVE Sources'
  BY <1>5 DEF SetOffline, Doubt, InFlight, Busy
<1>6. ASSUME NEW cs, ForgetSome(cs) PROVE Sources'
  BY <1>6 DEF ForgetSome, Forget, Know, Busy
<1>7. ASSUME NEW c \in Chains, Prefetch(c) PROVE Sources'
  BY <1>7 DEF Prefetch, Know
<1>8. ASSUME NEW c \in Chains, DropJob(c) PROVE Sources'
  BY <1>8 DEF DropJob
<1>9. ASSUME NEW c \in Chains, Start(c) PROVE Sources'
  BY <1>9 DEF Start
<1>10. ASSUME NEW c \in Chains, TryPack(c) PROVE Sources'
  BY <1>10 DEF TryPack
<1>11. ASSUME NEW c \in Chains, BuildCandidates(c) PROVE Sources'
  BY <1>11 DEF BuildCandidates
<1>12. ASSUME NEW c \in Chains, ReadList(c) PROVE Sources'
  BY <1>12 DEF ReadList
<1>13. ASSUME NEW c \in Chains, ReadLadder(c) PROVE Sources'
  BY <1>13 DEF ReadLadder
<1>14. ASSUME NEW c \in Chains, NEW file \in pass[c].todo, Found(c, file) PROVE Sources'
  <2>1. CASE learned' = learned
    BY <1>14, <2>1 DEF Found
  <2>2. CASE c \in Probed /\ learned' = Promote(file[2])
    <3>1. file[2] \in Formats
      BY <1>14, <2>2 DEF Found, Passes, PassOf
    <3>2. QED BY <1>14, <2>2, <3>1, PromoteFacts DEF Found
  <2>3. QED BY <1>14, <2>1, <2>2 DEF Found
<1>15. ASSUME NEW c \in Chains, NEW file \in pass[c].todo, NotFound(c, file) PROVE Sources'
  BY <1>15 DEF NotFound, Walking
<1>16. ASSUME NEW c \in Chains, Fault(c) PROVE Sources'
  BY <1>16 DEF Fault, Walking
<1>17. ASSUME NEW c \in Chains, Exhaust(c) PROVE Sources'
  BY <1>17 DEF Exhaust, Walking
<1>18. ASSUME NEW c \in Chains, CheckOffline(c) PROVE Sources'
  BY <1>18 DEF CheckOffline
<1>19. ASSUME NEW c \in Chains, CheckGen(c) PROVE Sources'
  BY <1>19 DEF CheckGen
<1>20. ASSUME NEW c \in Chains, Remember(c) PROVE Sources'
  BY <1>20 DEF Remember
<1>21. CASE UNCHANGED vars
  BY <1>21 DEF vars
<1>22. QED
  BY <1>1, <1>2, <1>3, <1>4, <1>5, <1>6, <1>7, <1>8, <1>9, <1>10, <1>11, <1>12,
     <1>13, <1>14, <1>15, <1>16, <1>17, <1>18, <1>19, <1>20, <1>21
     DEF Next, RenderStep, PassStep, ForgetUnder

LEMMA MemoryKept == Prefs /\ Memory /\ Passes /\ [Next]_vars => Memory'
<1> SUFFICES ASSUME Prefs, Memory, Passes, [Next]_vars PROVE Memory'
  OBVIOUS
<1> USE DEF Prefs, Rest, prefsVars, source, memory, EndPass
<1>1. ASSUME NEW l \in Lists, SetFormats(l) PROVE Memory'
  BY <1>1 DEF SetFormats, Busy, Memory
<1>2. CASE BumpGen
  BY <1>2 DEF BumpGen, Memory
<1>3. ASSUME NEW l \in Packs \cup {{}}, SwapForget(l) PROVE Memory'
  BY <1>3, Forgotten DEF SwapForget, Busy
<1>4. CASE SwapStore
  BY <1>4 DEF SwapStore, Doubt, InFlight, Memory
<1>5. ASSUME NEW on \in BOOLEAN, SetOffline(on) PROVE Memory'
  BY <1>5 DEF SetOffline, Doubt, InFlight, Busy, Memory
<1>6. ASSUME NEW cs, ForgetSome(cs) PROVE Memory'
  BY <1>6, Forgotten DEF ForgetSome, Busy
<1>7. ASSUME NEW c \in Chains, Prefetch(c) PROVE Memory'
  BY <1>7, Prefetched DEF Prefetch
<1>8. ASSUME NEW c \in Chains, DropJob(c) PROVE Memory'
  BY <1>8 DEF DropJob, Memory
<1>9. ASSUME NEW c \in Chains, Start(c) PROVE Memory'
  BY <1>9 DEF Start, Memory
<1>10. ASSUME NEW c \in Chains, TryPack(c) PROVE Memory'
  BY <1>10 DEF TryPack, Memory
<1>11. ASSUME NEW c \in Chains, BuildCandidates(c) PROVE Memory'
  BY <1>11 DEF BuildCandidates, Memory
<1>12. ASSUME NEW c \in Chains, ReadList(c) PROVE Memory'
  BY <1>12 DEF ReadList, Memory
<1>13. ASSUME NEW c \in Chains, ReadLadder(c) PROVE Memory'
  BY <1>13 DEF ReadLadder, Memory
<1>14. ASSUME NEW c \in Chains, NEW file \in pass[c].todo, Found(c, file) PROVE Memory'
  BY <1>14 DEF Found, Walking, Memory
<1>15. ASSUME NEW c \in Chains, NEW file \in pass[c].todo, NotFound(c, file) PROVE Memory'
  BY <1>15 DEF NotFound, Walking, Memory
<1>16. ASSUME NEW c \in Chains, Fault(c) PROVE Memory'
  BY <1>16 DEF Fault, Walking, Memory
<1>17. ASSUME NEW c \in Chains, Exhaust(c) PROVE Memory'
  BY <1>17 DEF Exhaust, Walking, Memory
<1>18. ASSUME NEW c \in Chains, CheckOffline(c) PROVE Memory'
  BY <1>18 DEF CheckOffline, Memory
<1>19. ASSUME NEW c \in Chains, CheckGen(c) PROVE Memory'
  BY <1>19 DEF CheckGen, Memory
<1>20. ASSUME NEW c \in Chains, Remember(c) PROVE Memory'
  BY <1>20, Remembering DEF Remember
<1>21. CASE UNCHANGED vars
  BY <1>21 DEF vars, Memory
<1>22. QED
  BY <1>1, <1>2, <1>3, <1>4, <1>5, <1>6, <1>7, <1>8, <1>9, <1>10, <1>11, <1>12,
     <1>13, <1>14, <1>15, <1>16, <1>17, <1>18, <1>19, <1>20, <1>21
     DEF Next, RenderStep, PassStep, ForgetUnder

-----------------------------------------------------------------------------
(* One pass *)

(* What the render thread keeps of the types while a pass moves. *)
LEMMA LaneFacts ==
  ASSUME Prefs, Passes, NEW c \in Chains, Lane(c)
  PROVE  /\ DOMAIN pass[c] = {"pc", "gen", "read", "layer", "at", "todo", "tried", "doubts"}
         /\ pass[c].at \in Int /\ pass[c].gen \in Int /\ pass[c].read \in Int /\ gen \in Int
         /\ pass[c].at >= 1 /\ pass[c].at <= Len(Names(c)) /\ Len(Names(c)) \in Int
         /\ DOMAIN Names(c) = 1 .. Len(Names(c)) /\ pass[c].at \in DOMAIN Names(c)
         /\ pass[c].gen <= gen /\ gen \in 0 .. MaxGen
<1>1. PassOf(c, pass[c])
  BY DEF Passes
<1>2. pass[c].at \in 1 .. Len(Names(c)) /\ pass[c].gen \in 0 .. MaxGen /\ pass[c].read \in 0 .. MaxGen
      /\ DOMAIN pass[c] = DOMAIN Idle /\ gen \in 0 .. MaxGen
  BY <1>1 DEF PassOf, Prefs
<1>3. QED BY <1>2, NamesFacts, IdleFacts, Constants DEF Lane, Staged

(* A pass that has ended is a good one. *)
LEMMA IdleLane ==
  ASSUME Prefs, Passes, NEW c \in Chains, gen' = gen, pass'[c] = Idle
  PROVE  PassOf(c, pass'[c]) /\ Lane(c)'
<1>1. gen \in 0 .. MaxGen /\ gen >= 0 /\ MaxGen \in Nat /\ 0 \in 0 .. MaxGen
  BY Constants DEF Prefs
<1>2. PassOf(c, Idle)
  BY <1>1, IdleFacts, NamesFacts DEF PassOf
<1>3. Staged(c)'
  BY <1>1, IdleFacts DEF Staged, Over
<1>4. Thorough(c)'
  <2>1. \A i \in DOMAIN Names(c) : i \in Int /\ ~(i < 1)
    BY NamesFacts
  <2>2. QED BY <2>1, IdleFacts DEF Thorough, Over
<1>5. Truthful(c)'
  BY IdleFacts DEF Truthful
<1>6. QED BY <1>2, <1>3, <1>4, <1>5 DEF Lane

LEMMA SnapshotFacts ==
  ASSUME Prefs, Snapshots, NEW c \in Chains
  PROVE  /\ Snapshot(c).list \in Lists
         /\ pass[c].read = gen /\ ~bumping => Snapshot(c).list = list
  BY DEF Snapshot, Snapshots, Prefs

LEMMA StartLane ==
  ASSUME Prefs, Sources, Passes, Snapshots, NEW c \in Chains, Lane(c), Start(c), c \notin resident
  PROVE  PassOf(c, pass'[c]) /\ Lane(c)'
<1>1. UNCHANGED <<list, gen, bumping, layer, swapping, offline>>
  BY OnlyThis DEF PassStep
<1>2. PassOf(c, pass[c]) /\ Staged(c) /\ Thorough(c) /\ Truthful(c)
  BY DEF Passes, Lane
<1>3. pass[c] = Idle /\ pass'[c] = [pass[c] EXCEPT !.pc = "pack", !.gen = gen, !.layer = layer]
  BY Moved, <1>2 DEF Start, InFlight, SameKey, Staged
<1>4. PassOf(c, pass'[c])
  BY <1>1, <1>2, <1>3, LaneFacts, IdleFacts DEF PassOf
<1>5. Staged(c)'
  BY <1>1, <1>2, <1>3, LaneFacts, IdleFacts DEF Staged, Over
<1>6. Thorough(c)'
  BY <1>1, <1>2, <1>3, LaneFacts, IdleFacts DEF Thorough, Over
<1>7. Truthful(c)'
  BY <1>1, <1>2, <1>3, LaneFacts, IdleFacts DEF Truthful
<1>8. QED BY <1>4, <1>5, <1>6, <1>7 DEF Lane

LEMMA TryPackLane ==
  ASSUME Prefs, Sources, Passes, Snapshots, NEW c \in Chains, Lane(c), TryPack(c), pass'[c] # Idle
  PROVE  PassOf(c, pass'[c]) /\ Lane(c)'
<1>1. UNCHANGED <<list, gen, bumping, layer, swapping, offline>>
  BY OnlyThis DEF PassStep
<1>2. PassOf(c, pass[c]) /\ Staged(c) /\ Thorough(c) /\ Truthful(c)
  BY DEF Passes, Lane
<1>3. /\ pass[c].pc = "pack"
      /\ \/ ~InPack(pass[c].layer, Name(c)) /\ pass'[c] = [pass[c] EXCEPT !.pc = "build"]
         \/ pass'[c] = [pass[c] EXCEPT !.pc = "build", !.doubts = @ \cup {"unread"}]
  BY Moved, Ended DEF TryPack
<1>4. PassOf(c, pass'[c])
  BY <1>1, <1>2, <1>3, LaneFacts DEF PassOf
<1>5. Staged(c)'
  BY <1>1, <1>2, <1>3, LaneFacts DEF Staged, Over
<1>6. Thorough(c)'
  BY <1>1, <1>2, <1>3, LaneFacts DEF Thorough, Over
<1>7. Truthful(c)'
  BY <1>1, <1>2, <1>3, LaneFacts DEF Truthful, Name
<1>8. QED BY <1>4, <1>5, <1>6, <1>7 DEF Lane

LEMMA BuildCandidatesLane ==
  ASSUME Prefs, Sources, Passes, Snapshots, NEW c \in Chains, Lane(c), BuildCandidates(c)
  PROVE  PassOf(c, pass'[c]) /\ Lane(c)'
<1>1. UNCHANGED <<list, gen, bumping, layer, swapping, offline>>
  BY OnlyThis DEF PassStep
<1>2. PassOf(c, pass[c]) /\ Staged(c) /\ Thorough(c) /\ Truthful(c)
  BY DEF Passes, Lane
<1>3. /\ pass[c].pc = "build"
      /\ \/ c \in Exact /\ pass'[c] = [pass[c] EXCEPT !.pc = "walk", !.todo = {Url[c]}]
         \/ c \in Probed /\ learned # <<>> /\ pass'[c] = [pass[c] EXCEPT !.pc = "front", !.todo = Fresh(c, {learned[1]})]
         \/ c \in Probed /\ pass'[c] = [pass[c] EXCEPT !.pc = "list", !.read = gen]
  BY Moved, Constants DEF BuildCandidates
<1>4. PassOf(c, pass'[c])
  <2>1. learned # <<>> => learned[1] \in Formats
    BY DEF Sources
  <2>2. ASSUME c \in Probed PROVE \A file \in pass'[c].todo : file[2] \in Formats
    <3>1. CASE learned # <<>> /\ pass'[c] = [pass[c] EXCEPT !.pc = "front", !.todo = Fresh(c, {learned[1]})]
      <4>1. pass'[c].todo = Fresh(c, {learned[1]})
        BY <3>1, LaneFacts
      <4>2. QED BY <2>1, <3>1, <4>1, FreshFacts
    <3>2. CASE pass'[c] = [pass[c] EXCEPT !.pc = "list", !.read = gen]
      <4>1. pass'[c].todo = pass[c].todo
        BY <3>2, LaneFacts
      <4>2. QED BY <1>2, <2>2, <4>1 DEF PassOf
    <3>3. QED BY <1>3, <2>2, <3>1, <3>2, Constants
  <2>3. QED BY <1>2, <1>3, <2>2, LaneFacts DEF PassOf
<1>5. Staged(c)'
  <2>1. CASE c \in Exact /\ pass'[c] = [pass[c] EXCEPT !.pc = "walk", !.todo = {Url[c]}]
    BY <1>1, <1>2, <2>1, LaneFacts, Constants DEF Staged, Over
  <2>2. CASE c \in Probed /\ \E fs : pass'[c] = [pass[c] EXCEPT !.pc = "front", !.todo = Fresh(c, fs)]
    <3>1. pass'[c].pc = "front" /\ pass'[c].gen = pass[c].gen /\ c \notin Exact
      BY <2>2, LaneFacts, Constants
    <3>2. QED BY <1>1, <1>2, <2>2, <3>1 DEF Staged, Over
  <2>3. CASE c \in Probed /\ pass'[c] = [pass[c] EXCEPT !.pc = "list", !.read = gen]
    <3>1. /\ pass'[c].pc = "list" /\ pass'[c].gen = pass[c].gen /\ pass'[c].read = gen
          /\ c \notin Exact /\ gen <= gen
      BY <2>3, LaneFacts, Constants
    <3>2. QED BY <1>1, <1>2, <2>3, <3>1, LaneFacts DEF Staged, Over
  <2>4. QED BY <1>3, <2>1, <2>2, <2>3
<1>6. Thorough(c)'
  BY <1>1, <1>2, <1>3, LaneFacts, Constants DEF Thorough, Over
<1>7. Truthful(c)'
  BY <1>1, <1>2, <1>3, LaneFacts DEF Truthful
<1>8. QED BY <1>4, <1>5, <1>6, <1>7 DEF Lane

LEMMA ReadListLane ==
  ASSUME Prefs, Sources, Passes, Snapshots, NEW c \in Chains, Lane(c), ReadList(c)
  PROVE  PassOf(c, pass'[c]) /\ Lane(c)'
<1>1. UNCHANGED <<list, gen, bumping, layer, swapping, offline>>
  BY OnlyThis DEF PassStep
<1>2. PassOf(c, pass[c]) /\ Staged(c) /\ Thorough(c) /\ Truthful(c)
  BY DEF Passes, Lane
<1>3. /\ pass[c].pc = "list"
      /\ pass'[c] = [pass[c] EXCEPT !.pc = "walk", !.read = 0, !.todo = Fresh(c, Snapshot(c).list)]
  BY Moved DEF ReadList
<1>4. PassOf(c, pass'[c])
  BY <1>1, <1>2, <1>3, LaneFacts, FreshFacts, SnapshotFacts, Constants DEF PassOf
<1>5. Staged(c)'
  BY <1>1, <1>2, <1>3, LaneFacts, Constants DEF Staged, Over
<1>6. Thorough(c)'
  BY <1>1, <1>2, <1>3, LaneFacts, FreshFacts, SnapshotFacts DEF Thorough, Over, Staged, Name
<1>7. Truthful(c)'
  BY <1>1, <1>2, <1>3, LaneFacts DEF Truthful
<1>8. QED BY <1>4, <1>5, <1>6, <1>7 DEF Lane

LEMMA ReadLadderLane ==
  ASSUME Prefs, Sources, Passes, Snapshots, NEW c \in Chains, Lane(c), ReadLadder(c)
  PROVE  PassOf(c, pass'[c]) /\ Lane(c)'
<1>1. UNCHANGED <<list, gen, bumping, layer, swapping, offline>>
  BY OnlyThis DEF PassStep
<1>2. PassOf(c, pass[c]) /\ Staged(c) /\ Thorough(c) /\ Truthful(c)
  BY DEF Passes, Lane
<1>3. /\ pass[c].pc = "ladder"
      /\ \E asked :
           /\ asked = pass[c].todo \cup Fresh(c, Snapshot(c).list \ ToSet(learned))
           /\ pass'[c] = [pass[c] EXCEPT !.pc = "walk", !.read = 0, !.todo = asked,
                    !.doubts = @ \cup IF Fresh(c, Snapshot(c).list) \subseteq asked THEN {} ELSE {"skipped"}]
  BY Moved DEF ReadLadder
<1>4. PassOf(c, pass'[c])
  BY <1>1, <1>2, <1>3, LaneFacts, FreshFacts, SnapshotFacts, Constants DEF PassOf
<1>5. Staged(c)'
  BY <1>1, <1>2, <1>3, LaneFacts, Constants DEF Staged, Over
<1>6. Thorough(c)'
  BY <1>1, <1>2, <1>3, LaneFacts, FreshFacts, SnapshotFacts DEF Thorough, Over, Staged, Name
<1>7. Truthful(c)'
  BY <1>1, <1>2, <1>3, LaneFacts DEF Truthful
<1>8. QED BY <1>4, <1>5, <1>6, <1>7 DEF Lane

LEMMA NotFoundLane ==
  ASSUME Prefs, Sources, Passes, Snapshots, NEW c \in Chains, Lane(c), NEW file, NotFound(c, file)
  PROVE  PassOf(c, pass'[c]) /\ Lane(c)'
<1>1. UNCHANGED <<list, gen, bumping, layer, swapping, offline>>
  BY DEF NotFound, Rest, prefsVars, source
<1>2. PassOf(c, pass[c]) /\ Staged(c) /\ Thorough(c) /\ Truthful(c)
  BY DEF Passes, Lane
<1>3. /\ pass[c].pc \in {"front", "walk"} /\ file \in pass[c].todo /\ (offline \/ file \notin OnServer)
      /\ pass'[c] = [pass[c] EXCEPT !.todo = @ \ {file}, !.tried = @ \cup {file}]
  BY Moved DEF NotFound, Walking
<1>4. PassOf(c, pass'[c])
  BY <1>1, <1>2, <1>3, LaneFacts DEF PassOf
<1>5. Staged(c)'
  BY <1>1, <1>2, <1>3, LaneFacts, Constants DEF Staged, Over
<1>6. Thorough(c)'
  BY <1>1, <1>2, <1>3, LaneFacts DEF Thorough, Over
<1>7. Truthful(c)'
  BY <1>1, <1>2, <1>3, LaneFacts DEF Truthful
<1>8. QED BY <1>4, <1>5, <1>6, <1>7 DEF Lane

LEMMA ExhaustLane ==
  ASSUME Prefs, Sources, Passes, Snapshots, NEW c \in Chains, Lane(c), Exhaust(c)
  PROVE  PassOf(c, pass'[c]) /\ Lane(c)'
<1>1. UNCHANGED <<list, gen, bumping, layer, swapping, offline>>
  BY OnlyThis DEF PassStep
<1>2. PassOf(c, pass[c]) /\ Staged(c) /\ Thorough(c) /\ Truthful(c)
  BY DEF Passes, Lane
<1>3. \A f \in ToSet(learned) : f \in Formats
  BY DEF Sources, ToSet
<1>4. CASE /\ pass[c].pc = "front"
            /\ pass'[c] = [pass[c] EXCEPT !.pc = "ladder", !.read = gen, !.todo = Fresh(c, ToSet(learned))]
  <2>1. /\ pass'[c].pc = "ladder" /\ pass'[c].read = gen /\ pass'[c].gen = pass[c].gen
        /\ pass'[c].at = pass[c].at /\ pass'[c].layer = pass[c].layer
        /\ pass'[c].tried = pass[c].tried /\ pass'[c].doubts = pass[c].doubts
        /\ pass'[c].todo = Fresh(c, ToSet(learned)) /\ DOMAIN pass'[c] = DOMAIN pass[c]
    BY <1>4, LaneFacts
  <2>2. PassOf(c, pass'[c])
    BY <1>1, <1>2, <1>4, <2>1, LaneFacts, <1>3, FreshFacts, IdleFacts DEF PassOf
  <2>3. Staged(c)'
    BY <1>1, <1>2, <1>4, <2>1, LaneFacts, Constants DEF Staged, Over
  <2>4. Thorough(c)'
    BY <1>1, <1>2, <1>4, <2>1, LaneFacts DEF Thorough, Over
  <2>5. Truthful(c)'
    BY <1>1, <1>2, <1>4, <2>1, LaneFacts DEF Truthful
  <2>6. QED BY <2>2, <2>3, <2>4, <2>5 DEF Lane
<1>5. CASE /\ pass[c].pc = "walk" /\ pass[c].todo = {} /\ pass[c].at < Len(Names(c))
            /\ pass'[c] = [pass[c] EXCEPT !.pc = "pack", !.at = @ + 1]
  <2>1. /\ pass'[c].pc = "pack" /\ pass'[c].read = pass[c].read /\ pass'[c].gen = pass[c].gen
        /\ pass'[c].at = pass[c].at + 1 /\ pass'[c].layer = pass[c].layer
        /\ pass'[c].tried = pass[c].tried /\ pass'[c].doubts = pass[c].doubts
        /\ pass'[c].todo = pass[c].todo /\ DOMAIN pass'[c] = DOMAIN pass[c]
    BY <1>5, LaneFacts
  <2>2. PassOf(c, pass'[c])
    BY <1>1, <1>2, <1>5, <2>1, LaneFacts, IdleFacts DEF PassOf
  <2>3. Staged(c)'
    BY <1>1, <1>2, <1>5, <2>1, LaneFacts DEF Staged, Over
  <2>4. Thorough(c)'
    BY <1>1, <1>2, <1>5, <2>1, LaneFacts DEF Thorough, Over
  <2>5. Truthful(c)'
    BY <1>1, <1>2, <1>5, <2>1, LaneFacts DEF Truthful
  <2>6. QED BY <2>2, <2>3, <2>4, <2>5 DEF Lane
<1>6. CASE /\ pass[c].pc = "walk" /\ pass[c].todo = {} /\ pass[c].at = Len(Names(c))
            /\ pass'[c] = [pass[c] EXCEPT !.pc = "verdict", !.gen = IF c \in Exact THEN gen ELSE @]
  <2>1. /\ pass'[c].pc = "verdict" /\ pass'[c].read = pass[c].read
        /\ pass'[c].gen = (IF c \in Exact THEN gen ELSE pass[c].gen)
        /\ pass'[c].at = pass[c].at /\ pass'[c].layer = pass[c].layer
        /\ pass'[c].tried = pass[c].tried /\ pass'[c].doubts = pass[c].doubts
        /\ pass'[c].todo = pass[c].todo /\ DOMAIN pass'[c] = DOMAIN pass[c]
    BY <1>6, LaneFacts
  <2>2. PassOf(c, pass'[c])
    BY <1>1, <1>2, <1>6, <2>1, LaneFacts, IdleFacts DEF PassOf
  <2>3. Staged(c)'
    BY <1>1, <1>2, <1>6, <2>1, LaneFacts, Constants DEF Staged, Over
  <2>4. Thorough(c)'
    BY <1>1, <1>2, <1>6, <2>1, LaneFacts, Constants DEF Thorough, Over
  <2>5. Truthful(c)'
    BY <1>1, <1>2, <1>6, <2>1, LaneFacts DEF Truthful
  <2>6. QED BY <2>2, <2>3, <2>4, <2>5 DEF Lane
<1>7. QED BY <1>4, <1>5, <1>6, Moved, LaneFacts DEF Exhaust, Walking

LEMMA CheckOfflineLane ==
  ASSUME Prefs, Sources, Passes, Snapshots, NEW c \in Chains, Lane(c), CheckOffline(c), pass'[c] # Idle
  PROVE  PassOf(c, pass'[c]) /\ Lane(c)'
<1>1. UNCHANGED <<list, gen, bumping, layer, swapping, offline>>
  BY OnlyThis DEF PassStep
<1>2. PassOf(c, pass[c]) /\ Staged(c) /\ Thorough(c) /\ Truthful(c)
  BY DEF Passes, Lane
<1>3. pass[c].pc = "verdict" /\ ~offline /\ pass'[c] = [pass[c] EXCEPT !.pc = "checked"]
  BY Moved, Ended DEF CheckOffline
<1>4. PassOf(c, pass'[c])
  BY <1>1, <1>2, <1>3, LaneFacts DEF PassOf
<1>5. Staged(c)'
  BY <1>1, <1>2, <1>3, LaneFacts DEF Staged, Over
<1>6. Thorough(c)'
  BY <1>1, <1>2, <1>3, LaneFacts DEF Thorough, Over
<1>7. Truthful(c)'
  BY <1>1, <1>2, <1>3, LaneFacts DEF Truthful
<1>8. QED BY <1>4, <1>5, <1>6, <1>7 DEF Lane

LEMMA CheckGenLane ==
  ASSUME Prefs, Sources, Passes, Snapshots, NEW c \in Chains, Lane(c), CheckGen(c), pass'[c] # Idle
  PROVE  PassOf(c, pass'[c]) /\ Lane(c)'
<1>1. UNCHANGED <<list, gen, bumping, layer, swapping, offline>>
  BY OnlyThis DEF PassStep
<1>2. PassOf(c, pass[c]) /\ Staged(c) /\ Thorough(c) /\ Truthful(c)
  BY DEF Passes, Lane
<1>3. pass[c].pc = "checked" /\ pass'[c] = [pass[c] EXCEPT !.pc = "add"]
  BY Moved, Ended DEF CheckGen
<1>4. PassOf(c, pass'[c])
  BY <1>1, <1>2, <1>3, LaneFacts DEF PassOf
<1>5. Staged(c)'
  BY <1>1, <1>2, <1>3, LaneFacts DEF Staged, Over
<1>6. Thorough(c)'
  BY <1>1, <1>2, <1>3, LaneFacts DEF Thorough, Over
<1>7. Truthful(c)'
  BY <1>1, <1>2, <1>3, LaneFacts DEF Truthful
<1>8. QED BY <1>4, <1>5, <1>6, <1>7 DEF Lane

-----------------------------------------------------------------------------
(* All passes *)

(* Whatever one pass does, it leaves a good pass behind it. *)
LEMMA StepLane ==
  ASSUME Prefs, Sources, Passes, Snapshots, NEW c \in Chains, Lane(c), Start(c) \/ PassStep(c)
  PROVE  PassOf(c, pass'[c]) /\ Lane(c)'
<1>1. UNCHANGED <<list, gen, bumping, layer, swapping, offline>> /\ PassOf(c, pass[c])
  BY OnlyThis DEF Passes
<1>2. ASSUME UNCHANGED pass PROVE PassOf(c, pass'[c]) /\ Lane(c)'
  BY <1>1, <1>2 DEF Lane, Staged, Thorough, Truthful, Over
<1>3. CASE pass'[c] = Idle
  BY <1>1, <1>3, IdleLane
<1>4. CASE Start(c) /\ pass'[c] # Idle
  <2>1. CASE c \in resident
    BY <1>2, <1>4, <2>1 DEF Start
  <2>2. QED BY <1>4, <2>1, StartLane
<1>5. CASE \E file \in pass[c].todo : Found(c, file) \/ NotFound(c, file)
  BY <1>3, <1>5, NotFoundLane, Ended DEF Found
<1>6. CASE Fault(c)
  BY <1>3, <1>6, Ended DEF Fault
<1>7. CASE Remember(c)
  BY <1>3, <1>7, Ended DEF Remember
<1>8. QED
  BY <1>3, <1>4, <1>5, <1>6, <1>7, TryPackLane, BuildCandidatesLane, ReadListLane, ReadLadderLane,
     ExhaustLane, CheckOfflineLane, CheckGenLane
     DEF PassStep

(* A pass that comes to doubt loses nothing else. *)
LEMMA Doubted ==
  ASSUME Passes, NEW cs, NEW d, NEW c \in Chains, pass' = Doubt(cs, d)
  PROVE  /\ DOMAIN pass' = Chains /\ DOMAIN pass'[c] = DOMAIN pass[c]
         /\ pass'[c].pc = pass[c].pc /\ pass'[c].gen = pass[c].gen /\ pass'[c].read = pass[c].read
         /\ pass'[c].at = pass[c].at /\ pass'[c].todo = pass[c].todo /\ pass'[c].tried = pass[c].tried
         /\ pass'[c].layer = pass[c].layer /\ pass[c].doubts \subseteq pass'[c].doubts
         /\ c \in cs => d \in pass'[c].doubts
         /\ c \notin cs => pass'[c] = pass[c]
<1>1. DOMAIN pass[c] = {"pc", "gen", "read", "layer", "at", "todo", "tried", "doubts"}
  BY IdleFacts DEF Passes, PassOf
<1>2. pass'[c] = IF c \in cs THEN [pass[c] EXCEPT !.doubts = @ \cup {d}] ELSE pass[c]
  BY DEF Doubt
<1>3. CASE c \in cs
  <2>1. pass'[c] = [pass[c] EXCEPT !.doubts = @ \cup {d}]
    BY <1>2, <1>3
  <2>2. QED BY <1>1, <1>3, <2>1 DEF Doubt
<1>4. CASE c \notin cs
  BY <1>2, <1>4 DEF Doubt
<1>5. QED BY <1>3, <1>4

(* A change of source leaves only passes in doubt that it could mislead. *)
LEMMA DoubtLane ==
  ASSUME Passes, NEW cs, \A e \in cs : e \in Chains => pass[e].pc # "idle", NEW d,
         NEW c \in Chains, Lane(c), pass' = Doubt(cs, d), UNCHANGED <<list, gen, bumping>>, Truthful(c)'
  PROVE  PassOf(c, pass'[c]) /\ Lane(c)'
<1>1. PassOf(c, pass[c]) /\ Staged(c) /\ Thorough(c)
  BY DEF Passes, Lane
<1>2. /\ DOMAIN pass'[c] = DOMAIN pass[c]
      /\ pass'[c].pc = pass[c].pc /\ pass'[c].gen = pass[c].gen /\ pass'[c].read = pass[c].read
      /\ pass'[c].at = pass[c].at /\ pass'[c].todo = pass[c].todo /\ pass'[c].tried = pass[c].tried
      /\ pass[c].doubts \subseteq pass'[c].doubts /\ (c \notin cs => pass'[c] = pass[c])
  BY Doubted
<1>3. PassOf(c, pass'[c])
  BY <1>1, <1>2 DEF PassOf
<1>4. pass'[c].pc = "idle" => pass'[c] = Idle
  <2>1. pass[c].pc = "idle" => c \notin cs /\ pass[c] = Idle
    BY <1>1 DEF Staged
  <2>2. QED BY <1>2, <2>1
<1>5. Staged(c)'
  BY <1>1, <1>2, <1>4 DEF Staged, Over
<1>6. Thorough(c)'
  BY <1>1, <1>2 DEF Thorough, Over
<1>7. QED BY <1>3, <1>5, <1>6 DEF Lane

LEMMA LanesKept ==
  Prefs /\ Sources /\ Passes /\ Snapshots /\ Lanes /\ [Next]_vars => Passes' /\ Lanes'
<1> SUFFICES ASSUME Prefs, Sources, Passes, Snapshots, Lanes, [Next]_vars PROVE Passes' /\ Lanes'
  OBVIOUS
<1>1. ASSUME DOMAIN pass' = Chains, queued' \subseteq Chains, resident' \subseteq Chains,
             \A c \in Chains : PassOf(c, pass'[c]) /\ Lane(c)'
      PROVE  Passes' /\ Lanes'
  BY <1>1 DEF Passes, Lanes
<1>2. DOMAIN pass = Chains /\ queued \subseteq Chains /\ resident \subseteq Chains
  BY DEF Passes
<1>3. \A c \in Chains : PassOf(c, pass[c]) /\ Lane(c) /\ Staged(c) /\ Thorough(c) /\ Truthful(c)
  BY DEF Passes, Lanes, Lane
<1>4. ASSUME NEW c \in Chains, Start(c) \/ PassStep(c) PROVE Passes' /\ Lanes'
  <2>1. /\ DOMAIN pass' = Chains /\ queued' \subseteq Chains /\ resident' \subseteq Chains
        /\ UNCHANGED <<list, gen, bumping, layer, swapping, offline>>
        /\ \A d \in Chains : d # c => pass'[d] = pass[d]
    BY <1>4, OnlyThis
  <2>2. PassOf(c, pass'[c]) /\ Lane(c)'
    BY <1>3, <1>4, StepLane
  <2>3. ASSUME NEW d \in Chains, d # c PROVE PassOf(d, pass'[d]) /\ Lane(d)'
    <3>1. pass'[d] = pass[d]
      BY <2>1, <2>3
    <3>2. QED BY <1>3, <2>1, <3>1 DEF Lane, Staged, Thorough, Truthful, Over
  <2>4. QED BY <1>1, <2>1, <2>2, <2>3
<1>5. ASSUME UNCHANGED <<pass, gen, layer, offline>>, queued' \subseteq Chains, resident' = resident,
             bumping' = TRUE \/ UNCHANGED <<list, bumping>>
      PROVE  Passes' /\ Lanes'
  <2>1. \A c \in Chains : PassOf(c, pass'[c]) /\ Lane(c)'
    BY <1>3, <1>5 DEF Lane, Staged, Thorough, Truthful, Over
  <2>2. QED BY <1>1, <1>2, <1>5, <2>1
<1>6. ASSUME NEW cs, NEW d, pass' = Doubt(cs, d), UNCHANGED <<list, gen, bumping, queued, resident>>,
             \A e \in cs : e \in Chains => pass[e].pc # "idle", \A c \in Chains : Truthful(c)'
      PROVE  Passes' /\ Lanes'
  <2>1. DOMAIN pass' = Chains
    BY <1>6 DEF Doubt
  <2>2. ASSUME NEW c \in Chains PROVE PassOf(c, pass'[c]) /\ Lane(c)'
    BY <1>3, <1>6, DoubtLane DEF Passes
  <2>3. QED BY <1>1, <1>2, <1>6, <2>1, <2>2
<1>7. CASE BumpGen
  <2>1. UNCHANGED <<pass, queued, resident, layer, offline>> /\ gen' = gen + 1
    BY <1>7 DEF BumpGen, source
  <2>2. ASSUME NEW c \in Chains PROVE PassOf(c, pass'[c]) /\ Lane(c)'
    <3>1. PassOf(c, pass[c]) /\ Staged(c) /\ Truthful(c) /\ pass'[c] = pass[c]
      BY <1>3, <2>1
    <3>2. pass[c].gen \in Int /\ pass[c].read \in Int /\ gen \in Int /\ pass[c].gen <= gen
      BY <1>3, LaneFacts
    <3>3. Staged(c)'
      BY <2>1, <3>1, <3>2 DEF Staged, Over
    <3>4. pass'[c].gen # gen'
      BY <2>1, <3>1, <3>2
    <3>5. Thorough(c)'
      BY <3>4 DEF Thorough
    <3>6. Truthful(c)'
      BY <2>1, <3>1 DEF Truthful
    <3>7. QED BY <3>1, <3>3, <3>5, <3>6 DEF Lane
  <2>3. QED BY <1>1, <1>2, <2>1, <2>2
<1>8. ASSUME NEW l, SetFormats(l) PROVE Passes' /\ Lanes'
  BY <1>2, <1>5, <1>8 DEF SetFormats, source
<1>9. ASSUME NEW l, SwapForget(l) PROVE Passes' /\ Lanes'
  BY <1>2, <1>5, <1>9 DEF SwapForget, prefsVars
<1>10. CASE SwapStore
  <2>1. /\ pass' = Doubt(InFlight, "raced") /\ UNCHANGED <<list, gen, bumping, queued, resident, offline>>
        /\ \A e \in InFlight : pass[e].pc # "idle"
    BY <1>10 DEF SwapStore, prefsVars, InFlight
  <2>2. ASSUME NEW c \in Chains PROVE Truthful(c)'
    <3>1. CASE c \in InFlight
      <4>1. "raced" \in pass'[c].doubts /\ pass'[c].pc = pass[c].pc /\ pass'[c].tried = pass[c].tried
            /\ pass[c].doubts \subseteq pass'[c].doubts
        BY <2>1, <3>1, Doubted
      <4>2. QED BY <1>3, <2>1, <4>1 DEF Truthful
    <3>2. CASE c \notin InFlight
      <4>1. pass[c].pc = "idle"
        BY <3>2 DEF InFlight
      <4>2. pass'[c] = pass[c]
        BY <2>1, <3>2, Doubted
      <4>3. QED BY <4>1, <4>2 DEF Truthful
    <3>3. QED BY <3>1, <3>2
  <2>3. QED BY <1>6, <2>1, <2>2
<1>11. ASSUME NEW on \in BOOLEAN, SetOffline(on) PROVE Passes' /\ Lanes'
  <2>1. CASE on = FALSE
    <3> DEFINE cs == {c \in Chains : pass[c].tried \cap OnServer # {}}
    <3>1. /\ pass' = Doubt(cs, "silenced")
          /\ UNCHANGED <<list, gen, bumping, queued, resident, layer>>
      BY <1>11, <2>1 DEF SetOffline, prefsVars
    <3>2. ASSUME NEW c \in cs PROVE pass[c].pc # "idle"
      BY <1>3, IdleFacts DEF Staged
    <3>3. \A c \in Chains : c \notin cs => pass[c].tried \cap OnServer = {}
      OBVIOUS
    <3> HIDE DEF cs
    <3>4. ASSUME NEW c \in Chains PROVE Truthful(c)'
      <4>1. /\ pass'[c].pc = pass[c].pc /\ pass'[c].tried = pass[c].tried /\ pass'[c].at = pass[c].at
            /\ pass'[c].layer = pass[c].layer /\ pass[c].doubts \subseteq pass'[c].doubts
            /\ c \in cs => "silenced" \in pass'[c].doubts
        BY <3>1, Doubted
      <4>2. "silenced" \notin pass'[c].doubts => pass'[c].tried \cap OnServer = {}
        BY <3>3, <4>1
      <4>3. QED BY <1>3, <3>1, <4>1, <4>2 DEF Truthful
    <3>5. QED BY <1>6, <3>1, <3>2, <3>4
  <2>2. CASE on = TRUE
    <3>1. UNCHANGED <<pass, list, gen, bumping, layer, queued, resident>> /\ offline' = TRUE
      BY <1>11, <2>2 DEF SetOffline, prefsVars
    <3>2. ASSUME NEW c \in Chains PROVE PassOf(c, pass'[c]) /\ Lane(c)'
      <4>1. offline = FALSE
        BY <1>11, <2>2 DEF SetOffline, Sources
      <4>2. QED BY <1>3, <3>1, <4>1 DEF Lane, Staged, Thorough, Truthful, Over
    <3>3. QED BY <1>1, <1>2, <3>1, <3>2
  <2>3. QED BY <1>11, <2>1, <2>2
<1>12. ASSUME NEW cs, ForgetSome(cs) PROVE Passes' /\ Lanes'
  BY <1>2, <1>5, <1>12 DEF ForgetSome, prefsVars
<1>13. ASSUME NEW c \in Chains, Prefetch(c) \/ DropJob(c) PROVE Passes' /\ Lanes'
  BY <1>2, <1>5, <1>13 DEF Prefetch, DropJob, prefsVars, source
<1>14. CASE UNCHANGED vars
  BY <1>2, <1>5, <1>14 DEF vars, prefsVars, source
<1>15. QED
  BY <1>4, <1>7, <1>8, <1>9, <1>10, <1>11, <1>12, <1>13, <1>14 DEF Next, RenderStep, ForgetUnder

-----------------------------------------------------------------------------
(* The memory and its verdicts *)

(* The steps that touch neither the memory nor the list. *)
LEMMA Quiet ==
  ASSUME NEW c,
         \/ TryPack(c) \/ BuildCandidates(c) \/ ReadList(c) \/ ReadLadder(c) \/ Fault(c)
         \/ Exhaust(c) \/ CheckOffline(c) \/ CheckGen(c) \/ Start(c) \/ DropJob(c)
         \/ \E file \in pass[c].todo : Found(c, file) \/ NotFound(c, file)
  PROVE  UNCHANGED <<memory, list, gen, bumping, layer, swapping, offline>>
<1> USE DEF Rest, prefsVars, source
<1>1. CASE TryPack(c) \/ BuildCandidates(c) \/ ReadList(c) \/ ReadLadder(c)
  BY <1>1 DEF TryPack, BuildCandidates, ReadList, ReadLadder
<1>2. CASE Fault(c) \/ Exhaust(c) \/ CheckOffline(c) \/ CheckGen(c)
  BY <1>2 DEF Fault, Exhaust, CheckOffline, CheckGen
<1>3. CASE Start(c) \/ DropJob(c)
  BY <1>3 DEF Start, DropJob
<1>4. QED BY <1>1, <1>2, <1>3 DEF Found, NotFound

LEMMA SnapshotsKept == Prefs /\ Memory /\ Passes /\ Snapshots /\ Lanes /\ [Next]_vars => Snapshots'
<1> SUFFICES ASSUME Prefs, Memory, Passes, Snapshots, Lanes, [Next]_vars PROVE Snapshots'
  OBVIOUS
<1>1. gen \in Int /\ cached.gen \in Int /\ knownGen \in Int /\ cached.gen <= gen /\ knownGen <= gen
  BY Constants DEF Prefs, Memory, Snapshots
<1>2. ASSUME NEW l \in Lists, SetFormats(l) PROVE Snapshots'
  BY <1>1, <1>2 DEF SetFormats, memory, Snapshots
<1>3. CASE BumpGen
  <2>1. gen' = gen + 1 /\ UNCHANGED <<cached, knownGen>>
    BY <1>3 DEF BumpGen, memory
  <2>2. cached.gen # gen + 1 /\ cached.gen <= gen + 1 /\ knownGen <= gen + 1
    BY <1>1
  <2>3. QED BY <2>1, <2>2 DEF Snapshots
<1>4. ASSUME NEW l, SwapForget(l) PROVE Snapshots'
  BY <1>4 DEF SwapForget, Forget, prefsVars, Snapshots
<1>5. CASE SwapStore
  BY <1>5 DEF SwapStore, memory, prefsVars, Snapshots
<1>6. ASSUME NEW on \in BOOLEAN, SetOffline(on) PROVE Snapshots'
  BY <1>6 DEF SetOffline, memory, prefsVars, Snapshots
<1>7. ASSUME NEW cs, ForgetSome(cs) PROVE Snapshots'
  BY <1>7 DEF ForgetSome, Forget, prefsVars, Snapshots
<1>8. ASSUME NEW c \in Chains, Prefetch(c) PROVE Snapshots'
  BY <1>1, <1>8 DEF Prefetch, prefsVars, Snapshots
<1>9. ASSUME NEW c \in Chains, Remember(c) PROVE Snapshots'
  <2>1. pass[c].gen <= gen /\ knownGen' = pass[c].gen /\ UNCHANGED <<gen, list, bumping, cached>>
    BY <1>9 DEF Remember, Rest, prefsVars, Lanes, Lane, Staged
  <2>2. QED BY <2>1 DEF Snapshots
<1>10. ASSUME UNCHANGED <<memory, list, gen, bumping, layer, swapping, offline, cached>> PROVE Snapshots'
  BY <1>10 DEF memory, Snapshots
<1>11. ASSUME NEW c \in Chains, ReadList(c) \/ ReadLadder(c) PROVE Snapshots'
  <2>1. pass[c].read <= gen /\ pass[c].read \in Int
    BY <1>11, LaneFacts DEF Lanes, Lane, Staged, ReadList, ReadLadder
  <2>2. UNCHANGED <<gen, list, bumping, knownGen>> /\ cached' = Snapshot(c)
    BY <1>11 DEF ReadList, ReadLadder, Rest, prefsVars, memory
  <2>3. Snapshot(c).gen = pass[c].read
    BY DEF Snapshot
  <2>4. QED BY <2>1, <2>2, <2>3, SnapshotFacts DEF Snapshots
<1>12. ASSUME NEW c \in Chains, Start(c) \/ DropJob(c) \/ PassStep(c) PROVE Snapshots'
  <2>1. CASE cached' = cached /\ ~Remember(c)
    BY <1>12, <2>1, <1>10, <1>11, Quiet DEF PassStep
  <2>2. CASE cached' # cached
    BY <1>12, <2>2, <1>11 DEF PassStep, Start, DropJob, TryPack, BuildCandidates, Found, NotFound, Fault,
       Exhaust, CheckOffline, CheckGen, Remember
  <2>3. QED BY <2>1, <2>2, <1>9
<1>13. CASE UNCHANGED vars
  BY <1>13, <1>10 DEF vars, prefsVars, source
<1>14. QED
  BY <1>2, <1>3, <1>4, <1>5, <1>6, <1>7, <1>8, <1>12, <1>13 DEF Next, RenderStep, ForgetUnder

LEMMA VerdictKept == Prefs /\ Memory /\ Passes /\ Snapshots /\ Lanes /\ VerdictMatchesList /\ [Next]_vars => VerdictMatchesList'
<1> SUFFICES ASSUME Prefs, Memory, Passes, Snapshots, Lanes, VerdictMatchesList, [Next]_vars PROVE VerdictMatchesList'
  OBVIOUS
<1>1. ASSUME UNCHANGED <<list, gen, bumping>>, NEW c \in Chains,
             knownGen = gen /\ knownGen' = gen, c \in ToSet(known) \cap Probed, verdict'[c] = verdict[c], ~bumping
      PROVE  WholeListTried(c)' \/ "skipped" \in verdict'[c].doubts
  <2>1. WholeListTried(c) \/ "skipped" \in verdict[c].doubts
    BY <1>1 DEF VerdictMatchesList, Remembered
  <2>2. QED BY <1>1, <2>1 DEF WholeListTried
<1>2. ASSUME NEW l \in Lists, SetFormats(l) PROVE VerdictMatchesList'
  BY <1>2 DEF SetFormats, VerdictMatchesList
<1>3. CASE BumpGen
  <2>1. knownGen' # gen'
    BY <1>3, Constants DEF BumpGen, memory, Snapshots, Prefs, Memory
  <2>2. QED BY <2>1 DEF VerdictMatchesList, Remembered
<1>4. ASSUME NEW l, SwapForget(l) PROVE VerdictMatchesList'
  <2>1. /\ \A c \in ToSet(known') : c \in Chains /\ c \in ToSet(known) /\ verdict'[c] = verdict[c]
        /\ knownGen' = knownGen /\ UNCHANGED <<list, gen, bumping, layer>>
    BY <1>4, Forgotten DEF SwapForget, prefsVars
  <2>2. QED BY <1>1, <2>1 DEF VerdictMatchesList, Remembered
<1>5. CASE SwapStore
  BY <1>5 DEF SwapStore, memory, prefsVars, VerdictMatchesList, Remembered, WholeListTried
<1>6. ASSUME NEW on \in BOOLEAN, SetOffline(on) PROVE VerdictMatchesList'
  BY <1>6 DEF SetOffline, memory, prefsVars, VerdictMatchesList, Remembered, WholeListTried
<1>7. ASSUME NEW cs, ForgetSome(cs) PROVE VerdictMatchesList'
  <2>1. /\ \A c \in ToSet(known') : c \in Chains /\ c \in ToSet(known) /\ verdict'[c] = verdict[c]
        /\ knownGen' = knownGen /\ UNCHANGED <<list, gen, bumping, layer>>
    BY <1>7, Forgotten DEF ForgetSome, prefsVars
  <2>2. QED BY <1>1, <2>1 DEF VerdictMatchesList, Remembered
<1>8. ASSUME NEW c \in Chains, Prefetch(c) PROVE VerdictMatchesList'
  <2>1. /\ knownGen' = gen /\ ToSet(known') \subseteq ToSet(known)
        /\ knownGen # gen => ToSet(known') = {}
        /\ \A d \in ToSet(known') : d \in Chains /\ verdict'[d] = verdict[d]
    BY <1>8, Prefetched DEF Prefs
  <2>2. UNCHANGED <<list, gen, bumping>>
    BY <1>8 DEF Prefetch, prefsVars
  <2>3. QED BY <1>1, <2>1, <2>2 DEF VerdictMatchesList, Remembered
<1>9. ASSUME NEW c \in Chains, Remember(c) PROVE VerdictMatchesList'
  <2>1. /\ knownGen' = pass[c].gen /\ ToSet(known') \subseteq ToSet(known) \cup {c}
        /\ knownGen # knownGen' => ToSet(known') \subseteq {c}
        /\ verdict'[c].tried = pass[c].tried /\ pass[c].doubts \subseteq verdict'[c].doubts
        /\ \A d \in ToSet(known') : d \in Chains /\ (d # c => verdict'[d] = verdict[d])
    BY <1>9, Remembering
  <2>2. UNCHANGED <<list, gen, bumping>> /\ pass[c].pc = "add"
    BY <1>9 DEF Remember, Rest, prefsVars
  <2>3. ASSUME c \in Probed, ~bumping, pass[c].gen = gen
        PROVE  WholeListTried(c)' \/ "skipped" \in verdict'[c].doubts
    <3>1. CASE "skipped" \in pass[c].doubts
      BY <2>1, <3>1
    <3>2. CASE "skipped" \notin pass[c].doubts
      <4>1. \A i \in DOMAIN Names(c), f \in list : <<Names(c)[i], f>> \in pass[c].tried
        BY <2>2, <2>3, <3>2 DEF Lanes, Lane, Thorough, Over
      <4>2. QED BY <2>1, <2>2, <4>1 DEF WholeListTried, ToSet
    <3>3. QED BY <3>1, <3>2
  <2>4. ASSUME NEW d \in ToSet(known') \cap Probed, ~bumping, knownGen' = gen, d # c
        PROVE  WholeListTried(d)' \/ "skipped" \in verdict'[d].doubts
    <3>1. d \in Chains /\ d \in ToSet(known) /\ verdict'[d] = verdict[d] /\ knownGen = gen
      BY <2>1, <2>4
    <3>2. QED BY <1>1, <2>2, <2>4, <3>1
  <2>5. QED BY <2>1, <2>2, <2>3, <2>4 DEF VerdictMatchesList, Remembered
<1>10. ASSUME UNCHANGED <<memory, list, gen, bumping, layer, swapping, offline>> PROVE VerdictMatchesList'
  BY <1>10 DEF memory, VerdictMatchesList, Remembered, WholeListTried
<1>11. ASSUME NEW c \in Chains, DropJob(c) \/ Start(c) \/ PassStep(c) PROVE VerdictMatchesList'
  BY <1>11, <1>9, <1>10, Quiet DEF PassStep
<1>12. CASE UNCHANGED vars
  BY <1>12, <1>10 DEF vars, prefsVars, source
<1>13. QED
  BY <1>2, <1>3, <1>4, <1>5, <1>6, <1>7, <1>8, <1>11, <1>12 DEF Next, RenderStep, ForgetUnder

LEMMA RecordedKept == Prefs /\ Memory /\ Passes /\ Lanes /\ Recorded /\ [Next]_vars => Recorded'
<1> SUFFICES ASSUME Prefs, Memory, Passes, Lanes, Recorded, [Next]_vars PROVE Recorded'
  OBVIOUS
<1>1. ASSUME UNCHANGED <<layer, swapping>>, NEW c \in ToSet(known), verdict'[c] = verdict[c]
      PROVE  RecordedOf(c)'
  BY <1>1 DEF Recorded, RecordedOf, PackHas, InPack
<1>2. ASSUME NEW l \in Lists, SetFormats(l) PROVE Recorded'
  BY <1>2 DEF SetFormats, memory, source, Recorded, RecordedOf, PackHas, InPack
<1>3. CASE BumpGen
  BY <1>3 DEF BumpGen, memory, source, Recorded, RecordedOf, PackHas, InPack
<1>4. ASSUME NEW l, SwapForget(l) PROVE Recorded'
  <2>1. ToSet(known') = {}
    BY <1>4, Forgotten DEF SwapForget, Memory, ToSet
  <2>2. QED BY <2>1 DEF Recorded
<1>5. CASE SwapStore
  BY <1>5 DEF SwapStore, memory, Recorded, RecordedOf
<1>6. ASSUME NEW on \in BOOLEAN, SetOffline(on) PROVE Recorded'
  BY <1>6 DEF SetOffline, memory, Recorded, RecordedOf, PackHas, InPack
<1>7. ASSUME NEW cs, ForgetSome(cs) PROVE Recorded'
  <2>1. /\ \A c \in ToSet(known') : c \in ToSet(known) /\ verdict'[c] = verdict[c]
        /\ UNCHANGED <<layer, swapping>>
    BY <1>7, Forgotten DEF ForgetSome
  <2>2. QED BY <1>1, <2>1 DEF Recorded
<1>8. ASSUME NEW c \in Chains, Prefetch(c) PROVE Recorded'
  <2>1. /\ ToSet(known') \subseteq ToSet(known) /\ \A d \in ToSet(known') : verdict'[d] = verdict[d]
        /\ UNCHANGED <<layer, swapping>>
    BY <1>8, Prefetched DEF Prefs, Prefetch, source
  <2>2. QED BY <1>1, <2>1 DEF Recorded
<1>9. ASSUME NEW c \in Chains, Remember(c) PROVE Recorded'
  <2>1. /\ ToSet(known') \subseteq ToSet(known) \cup {c} /\ verdict'[c].tried = pass[c].tried
        /\ verdict'[c].doubts = pass[c].doubts \cup (IF swapping = NoSwap THEN {} ELSE {"raced"})
        /\ \A d \in ToSet(known') : d # c => verdict'[d] = verdict[d]
    BY <1>9, Remembering
  <2>2. UNCHANGED <<layer, swapping>> /\ pass[c].pc = "add"
    BY <1>9 DEF Remember, Rest, source
  <2>3. Staged(c) /\ Truthful(c)
    BY DEF Lanes, Lane
  <2>4. c \in Exact => Url[c] \in verdict'[c].tried
    BY <2>1, <2>2, <2>3 DEF Staged, Over
  <2>5. "silenced" \notin verdict'[c].doubts => verdict'[c].tried \cap OnServer = {}
    BY <2>1, <2>2, <2>3 DEF Truthful
  <2>6. ASSUME "raced" \notin verdict'[c].doubts, "unread" \notin verdict'[c].doubts
        PROVE  swapping = NoSwap /\ (c \in Probed => ~PackHas(c)')
    <3>1. swapping = NoSwap /\ "raced" \notin pass[c].doubts /\ "unread" \notin pass[c].doubts
      BY <2>1, <2>6
    <3>2. pass[c].at = Len(Names(c))
      BY <2>2, <2>3 DEF Staged, Over
    <3>3. \A i \in DOMAIN Names(c) : i < pass[c].at \/ i = pass[c].at
      BY <3>2, NamesFacts
    <3>4. \A i \in DOMAIN Names(c) : ~InPack(layer, Names(c)[i])
      BY <2>2, <2>3, <3>1, <3>3 DEF Truthful
    <3>5. c \in Probed => ~PackHas(c)'
      BY <2>2, <3>4, Constants DEF PackHas, ToSet, InPack
    <3>6. QED BY <3>1, <3>5
  <2>7. RecordedOf(c)'
    BY <2>2, <2>4, <2>5, <2>6 DEF RecordedOf
  <2>8. QED BY <1>1, <2>1, <2>2, <2>7 DEF Recorded
<1>10. ASSUME UNCHANGED <<memory, list, gen, bumping, layer, swapping, offline>> PROVE Recorded'
  BY <1>10 DEF memory, Recorded, RecordedOf, PackHas, InPack
<1>11. ASSUME NEW c \in Chains, DropJob(c) \/ Start(c) \/ PassStep(c) PROVE Recorded'
  BY <1>11, <1>9, <1>10, Quiet DEF PassStep
<1>12. CASE UNCHANGED vars
  BY <1>12, <1>10 DEF vars, prefsVars, source
<1>13. QED
  BY <1>2, <1>3, <1>4, <1>5, <1>6, <1>7, <1>8, <1>11, <1>12 DEF Next, RenderStep, ForgetUnder

LEMMA MissInvInit == Init => MissInv
<1> SUFFICES ASSUME Init PROVE MissInv
  OBVIOUS
<1>1. 0 \in 0 .. MaxGen /\ 0 \in Nat
  BY Constants
<1>2. Prefs
  BY <1>1, Constants DEF Init, Prefs
<1>3. learned \in Seq(Formats) /\ Len(learned) <= LearnedCap
  <2>1. PICK n \in 0 .. LearnedCap : learned \in [1 .. n -> Formats]
    BY MissAssumption DEF Init
  <2>2. n \in Nat /\ n <= LearnedCap
    BY Constants
  <2>3. QED BY <2>1, <2>2
<1>4. Sources
  BY <1>3 DEF Init, Sources
<1>5. known = <<>> /\ ToSet(known) = {} /\ Memory
  BY <1>1, Constants DEF Init, Memory, ToSet, IsInjective
<1>6. \A c \in Chains : pass[c] = Idle
  BY DEF Init
<1>7. \A c \in Chains : PassOf(c, Idle)
  BY <1>1, NamesFacts, IdleFacts DEF PassOf
<1>8. Passes
  BY <1>6, <1>7 DEF Init, Passes
<1>9. ASSUME NEW c \in Chains PROVE Lane(c)
  <2>1. \A i \in DOMAIN Names(c) : ~(i < 1)
    BY NamesFacts
  <2>2. pass[c] = Idle /\ gen = 0 /\ 0 <= 0
    BY <1>6 DEF Init
  <2>3. QED BY <2>1, <2>2, IdleFacts DEF Lane, Staged, Thorough, Truthful, Over
<1>10. Snapshots
  BY DEF Init, Snapshots
<1>11. VerdictMatchesList /\ Recorded
  BY <1>5 DEF VerdictMatchesList, Remembered, Recorded
<1>12. QED BY <1>2, <1>4, <1>5, <1>8, <1>9, <1>10, <1>11 DEF MissInv, TypeOK, Lanes

LEMMA MissInvStep == MissInv /\ [Next]_vars => MissInv'
<1>1. TypeOK /\ Lanes /\ Snapshots /\ [Next]_vars => TypeOK'
  BY PrefsKept, SourcesKept, MemoryKept, LanesKept DEF TypeOK
<1>2. QED BY <1>1, LanesKept, SnapshotsKept, VerdictKept, RecordedKept DEF MissInv, TypeOK

LEMMA MissInvAlways == Spec => []MissInv
  BY MissInvInit, MissInvStep, PTL DEF Spec

(* The memory's list never repeats a chain or outgrows its capacity, the     *)
(* learned formats never outgrow theirs, and a pass is always at a spelling *)
(* its chain has: TypeOK, whatever the user and the server do.              *)
THEOREM TypeCorrect == Spec => []TypeOK
<1>1. MissInv => TypeOK
  BY DEF MissInv
<1>2. QED BY <1>1, MissInvAlways, PTL

(* VerdictMatchesList: no change of format preference leaves a verdict about *)
(* the old list standing.  A pass keeps the generation it started under,    *)
(* and a generation that is still current means a list that is.             *)
THEOREM VerdictsMatchTheList == Spec => []VerdictMatchesList
<1>1. MissInv => VerdictMatchesList
  BY DEF MissInv
<1>2. QED BY <1>1, MissInvAlways, PTL

(* SettledMissIsTrue: what is remembered as absent is absent from the       *)
(* server, unless the pass was misled about the server, and a probed chain  *)
(* is absent from the mounted pack, unless it was misled about the pack.    *)
THEOREM SettledMissesAreTrue == Spec => []SettledMissIsTrue
<1>1. ASSUME MissInv, ~Busy, NEW c \in Remembered
      PROVE  /\ verdict[c].doubts \cap ServerDoubts = {} => ~ServerHas(c)
             /\ c \in Probed /\ verdict[c].doubts \cap PackDoubts = {} => ~PackHas(c)
  <2>1. RecordedOf(c)
    BY <1>1 DEF MissInv, Recorded, Remembered
  <2>2. c \in Chains
    BY <1>1 DEF Remembered, MissInv, TypeOK, Memory, ToSet
  <2>3. ASSUME verdict[c].doubts \cap ServerDoubts = {} PROVE ~ServerHas(c)
    <3>1. "skipped" \notin verdict[c].doubts /\ verdict[c].tried \cap OnServer = {}
      BY <2>1, <2>3 DEF RecordedOf, ServerDoubts
    <3>2. CASE c \in Exact
      BY <2>1, <3>1, <3>2 DEF ServerHas, RecordedOf
    <3>3. CASE c \notin Exact
      <4>1. WholeListTried(c)
        BY <1>1, <2>2, <3>1, <3>3 DEF MissInv, VerdictMatchesList, Busy, Chains
      <4>2. QED BY <3>1, <3>3, <4>1 DEF ServerHas, WholeListTried
    <3>4. QED BY <3>2, <3>3
  <2>4. c \in Probed /\ verdict[c].doubts \cap PackDoubts = {} => ~PackHas(c)
    BY <2>1 DEF RecordedOf, PackDoubts
  <2>5. QED BY <2>3, <2>4
<1>2. MissInv => SettledMissIsTrue
  BY <1>1 DEF SettledMissIsTrue
<1>3. QED BY <1>2, MissInvAlways, PTL
=============================================================================
