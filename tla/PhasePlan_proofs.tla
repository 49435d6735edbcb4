--------------------------- MODULE PhasePlan_proofs ---------------------------
(***************************************************************************)
(* What PhasePlan computes, for any number of devices and any strategy:    *)
(* the phases divide the devices, and have the sizes the strategy asks for.*)
(***************************************************************************)
EXTENDS MCRollout, FiniteSetTheorems, SequenceTheorems, NaturalsInduction, TLAPS

\* A set of numbers has a least one.
LEMMA LeastLemma ==
  ASSUME NEW S \in SUBSET Nat, S # {}
  PROVE  \E n \in S : \A m \in S : n <= m
<1> DEFINE R == OpToRel(<, Nat)
<1>1. IsWellFoundedOn(R, Nat)
  BY NatLessThanWellFounded
<1>2. \E x \in S : \A y \in S : ~(<<y, x>> \in R)
  <2> HIDE DEF R
  <2> QED BY <1>1, WFMin
<1>3. \A x, y \in Nat : y < x => <<y, x>> \in R
  BY DEF OpToRel
<1>4. PICK x \in S : \A y \in S : ~(<<y, x>> \in R)
  BY <1>2
<1> HIDE DEF R
<1>5. \A y \in S : ~(y < x)
  BY <1>3, <1>4
<1> QED BY <1>5

-----------------------------------------------------------------------------
(* Shares.                                                                 *)

\* The code's rounding up gives the least number that makes up a percentage.
LEMMA ShareLemma ==
  ASSUME NEW total \in Nat \ {0}, NEW p \in 1..100
  PROVE  LET s == Share(total, p) IN
         /\ s \in 1..total /\ s = LeastShare(total, p)
         /\ p = 100 => s = total
<1> DEFINE x == total * p
           s == (x + 99) \div 100
<1>1. x \in Nat /\ 1 <= x /\ x <= 100 * total /\ (p = 100 => x = 100 * total)
  OBVIOUS
<1>2. p * total = x
  OBVIOUS
<1> HIDE DEF x
<1>3. /\ s \in 1..total /\ (p = 100 => s = total)
      /\ 100 * s >= x /\ 100 * (s - 1) < x
  BY <1>1
<1> HIDE DEF s
<1>4. LeastShare(total, p) = s
  <2>1. \A n \in 0..total : 100 * n >= x /\ (n = 0 \/ 100 * (n - 1) < x) => n = s
    BY <1>1, <1>3
  <2>2. LeastShare(total, p) = CHOOSE n \in 0..total :
          100 * n >= x /\ (n = 0 \/ 100 * (n - 1) < x)
    BY <1>2 DEF LeastShare
  <2>3. s \in 0..total
    BY <1>3
  <2> QED BY <1>3, <2>1, <2>2, <2>3
<1> QED BY <1>3, <1>4 DEF s, x, Share

LEMMA ShareMonotonic ==
  ASSUME NEW total \in Nat, NEW p \in 1..100, NEW q \in 1..100, p <= q
  PROVE  Share(total, p) <= Share(total, q)
<1> DEFINE x == total * p
           y == total * q
<1>1. x \in Nat /\ y \in Nat
  OBVIOUS
<1>2. x <= y
  <2>1. y = x + total * (q - p)
    OBVIOUS
  <2>2. total * (q - p) \in Nat
    OBVIOUS
  <2> QED BY <1>1, <2>1, <2>2
<1> HIDE DEF x, y
<1>3. (x + 99) \div 100 <= (y + 99) \div 100
  BY <1>1, <1>2
<1> QED BY <1>3 DEF x, y, Share

-----------------------------------------------------------------------------
(* The order of the devices.                                               *)

\* Ranks number the devices, and number them in the order that is meant.
LEMMA RankLemma ==
  ASSUME NEW D, NEW devices \in Seq(D), NEW tagged
  PROVE  LET N == 1..Len(devices)
             R(i) == Rank(i, devices, tagged)
         IN /\ \A i \in N : R(i) \in N
            /\ \A n \in N : \E i \in N : R(i) = n
            /\ \A i, j \in N : R(i) = R(j) => i = j
            /\ \A i, j \in N : Before(i, j, devices, tagged) => R(i) < R(j)
<1> DEFINE N == 1..Len(devices)
           B(i, j) == Before(i, j, devices, tagged)
           Below(i) == {j \in N : B(j, i)}
           r == [i \in N |-> Cardinality(Below(i)) + 1]
<1>1. Len(devices) \in Nat /\ DOMAIN devices = N
  OBVIOUS
<1>2. /\ \A i \in N : ~B(i, i)
      /\ \A i, j \in N : i # j => B(i, j) \/ B(j, i)
      /\ \A i, j, k \in N : B(i, j) /\ B(j, k) => B(i, k)
  BY DEF Before
<1>3. IsFiniteSet(N) /\ Cardinality(N) = Len(devices)
  BY <1>1, FS_Interval
<1> HIDE DEF N, B
<1>4. \A i \in N : IsFiniteSet(Below(i)) /\ Cardinality(Below(i)) \in Nat
  BY <1>3, FS_Subset, FS_CardinalityType
<1>0. /\ DOMAIN r = N
      /\ \A i \in N : r[i] = Cardinality(Below(i)) + 1
  OBVIOUS
<1> HIDE DEF r
<1>5. ASSUME NEW i \in N PROVE r[i] \in N
  <2>1. Below(i) \subseteq N /\ Below(i) # N
    BY <1>2
  <2>2. Cardinality(Below(i)) <= Len(devices) /\ Cardinality(Below(i)) # Len(devices)
    BY <1>3, <2>1, FS_Subset
  <2> HIDE DEF Below
  <2> QED BY <1>0, <1>1, <1>4, <2>2 DEF N
<1>6. ASSUME NEW i \in N, NEW j \in N, B(i, j) PROVE r[i] < r[j]
  <2>1. Below(i) \subseteq Below(j) /\ Below(i) # Below(j)
    BY <1>2, <1>6
  <2>2. /\ Cardinality(Below(i)) <= Cardinality(Below(j))
        /\ Cardinality(Below(i)) # Cardinality(Below(j))
    BY <1>4, <2>1, FS_Subset
  <2> HIDE DEF Below
  <2> QED BY <1>0, <1>4, <2>2
<1>7. ASSUME NEW i \in N, NEW j \in N, i # j PROVE r[i] # r[j]
  <2>1. r[i] \in Int /\ r[j] \in Int
    BY <1>1, <1>5 DEF N
  <2>2. r[i] < r[j] \/ r[j] < r[i]
    BY <1>2, <1>6, <1>7
  <2> QED BY <2>1, <2>2
<1>8. \A n \in N : \E i \in N : r[i] = n
  <2>1. r \in [N -> N]
    <3>1. r = [i \in N |-> r[i]]
      BY DEF r
    <3> QED BY <1>5, <3>1
  <2>2. r \in Injection(N, N)
    BY <1>7, <2>1 DEF Injection, IsInjective
  <2>3. r \in Surjection(N, N)
    BY <1>3, <2>2, FS_Injection
  <2> QED BY <2>3 DEF Surjection
<1>9. \A i \in N : r[i] = Rank(i, devices, tagged)
  BY <1>0, <1>1 DEF Rank, B
<1> QED BY <1>5, <1>6, <1>7, <1>8, <1>9 DEF N, B

\* So the devices are all there, each at its rank.
LEMMA OrderedLemma ==
  ASSUME NEW D, NEW devices \in Seq(D), NEW tagged
  PROVE  LET ordered == Ordered(devices, tagged) IN
         /\ ordered \in Seq(D) /\ Len(ordered) = Len(devices)
         /\ \A i \in 1..Len(devices) : ordered[Rank(i, devices, tagged)] = devices[i]
<1> DEFINE N == 1..Len(devices)
           ordered == Ordered(devices, tagged)
           R(i) == Rank(i, devices, tagged)
<1>1. Len(devices) \in Nat /\ DOMAIN devices = N /\ \A i \in N : devices[i] \in D
  OBVIOUS
<1>2. /\ \A i \in N : R(i) \in N
      /\ \A n \in N : \E i \in N : R(i) = n
      /\ \A i, j \in N : R(i) = R(j) => i = j
  BY RankLemma
<1>3. ordered = [n \in N |-> devices[CHOOSE i \in N : R(i) = n]]
  BY <1>1 DEF Ordered
<1> HIDE DEF R, ordered
<1>4. \A n \in N : (CHOOSE i \in N : R(i) = n) \in N
  BY <1>2
<1>5. \A i \in N : (CHOOSE j \in N : R(j) = R(i)) = i
  BY <1>2
<1>6. ordered \in [N -> D]
  BY <1>1, <1>3, <1>4
<1>7. ordered \in Seq(D) /\ Len(ordered) = Len(devices)
  BY <1>1, <1>6
<1>8. \A i \in N : ordered[R(i)] = devices[i]
  BY <1>2, <1>3, <1>5
<1> QED BY <1>7, <1>8 DEF ordered, R

-----------------------------------------------------------------------------
(* The waves.                                                              *)

Start(ordered, canaries) ==
  [phases |-> <<SubSeq(ordered, 1, canaries)>>, assigned |-> canaries]

\* The recursion defines what it says.
LEMMA PlansLemma ==
  ASSUME NEW ordered, NEW canaries, NEW waves, Len(waves) \in Nat,
         NEW plan, plan = Plans(ordered, canaries, waves)
  PROVE  /\ plan[0] = Start(ordered, canaries)
         /\ \A i \in 1..Len(waves) :
              plan[i] = Wave(ordered, canaries, plan[i - 1], waves[i])
<1> DEFINE Value(f, i) == IF i = 0 THEN Start(ordered, canaries)
                          ELSE Wave(ordered, canaries, f[i - 1], waves[i])
           Good(n, f) == f = [i \in 0..n |-> Value(f, i)]
           Bad == {n \in Nat : ~\E f : Good(n, f)}
<1>1. Bad = {}
  <2>1. SUFFICES ASSUME Bad # {} PROVE FALSE
    OBVIOUS
  <2>2. PICK n \in Bad : \A m \in Bad : n <= m
    <3> HIDE DEF Bad
    <3>1. Bad \in SUBSET Nat
      BY DEF Bad
    <3> QED BY <2>1, <3>1, LeastLemma
  <2>3. CASE n = 0
    <3> DEFINE f == [i \in 0..0 |-> Start(ordered, canaries)]
    <3>1. Good(0, f)
      OBVIOUS
    <3> QED BY <2>2, <2>3, <3>1
  <2>4. CASE n > 0
    <3>1. n - 1 \in Nat /\ n - 1 \notin Bad
      <4>1. n \in Nat
        BY <2>2
      <4> HIDE DEF Bad
      <4> QED BY <2>2, <2>4, <4>1
    <3>2. PICK f : Good(n - 1, f)
      BY <3>1
    <3> DEFINE g == [i \in 0..n |-> IF i = n THEN Value(f, n) ELSE f[i]]
    <3>3. \A i \in 0..n : g[i] = Value(g, i)
      <4> SUFFICES ASSUME NEW i \in 0..n PROVE g[i] = Value(g, i)
        OBVIOUS
      <4>1. CASE i = 0
        <5>1. f[0] = Value(f, 0)
          BY <2>2, <2>4, <3>1, <3>2
        <5> QED BY <2>4, <4>1, <5>1
      <4>2. CASE i # 0
        <5>1. i - 1 \in 0..(n - 1) /\ g[i - 1] = f[i - 1]
          BY <2>2, <2>4, <4>2
        <5>2. g[i] = Value(f, i)
          <6>1. CASE i = n
            BY <6>1
          <6>2. CASE i # n
            <7>1. i \in 0..(n - 1)
              BY <2>2, <6>2
            <7>2. f[i] = Value(f, i)
              BY <3>2, <7>1
            <7> HIDE DEF Value
            <7> QED BY <6>2, <7>2
          <6> QED BY <6>1, <6>2
        <5> QED BY <4>2, <5>1, <5>2
      <4> QED BY <4>1, <4>2
    <3>4. Good(n, g)
      <4>1. g = [i \in 0..n |-> g[i]]
        OBVIOUS
      <4> HIDE DEF g, Value
      <4> QED BY <3>3, <4>1
    <3> QED BY <2>2, <3>4
  <2> QED BY <2>2, <2>3, <2>4
<1>2. plan = CHOOSE f : Good(Len(waves), f)
  BY DEF Plans, Start
<1>3. Good(Len(waves), plan)
  <2>1. \E f : Good(Len(waves), f)
    BY <1>1
  <2> HIDE DEF Good
  <2> QED BY <1>2, <2>1
<1>4. \A i \in 0..Len(waves) : plan[i] = Value(plan, i)
  BY <1>3
<1> QED BY <1>4

\* The first device of phase k when the phases end at b.
From(b, k) == IF k = 1 THEN 1 ELSE b[k - 1] + 1

\* The phases are the stretches of ordered that end at b, the first with the
\* canaries.
Stretches(phases, ordered, b, canaries) ==
  /\ b \in Seq(1..Len(ordered)) /\ b # <<>> /\ b[1] = canaries
  /\ \A j, k \in 1..Len(b) : j < k => b[j] < b[k]
  /\ DOMAIN phases = 1..Len(b)
  /\ \A k \in 1..Len(b) : phases[k] = SubSeq(ordered, From(b, k), b[k])

\* The ends are those of the canaries and of the waves after them.
EndsOf(b) == {b[k] : k \in 1..Len(b)}
WaveEnds(total, canaries, percentages) ==
  {canaries} \cup {n \in {Share(total, p) : p \in percentages} : n > canaries}

WellPlanned(plan, ordered, canaries, percentages) ==
  \E b : /\ Stretches(plan.phases, ordered, b, canaries)
         /\ b[Len(b)] = plan.assigned
         /\ plan.phases \in Seq(Seq({ordered[i] : i \in 1..Len(ordered)}))
         /\ EndsOf(b) = WaveEnds(Len(ordered), canaries, percentages)

\* The canaries alone are well planned, ...
LEMMA StartLemma ==
  ASSUME NEW D, NEW ordered \in Seq(D), NEW canaries \in 1..Len(ordered)
  PROVE  WellPlanned(Start(ordered, canaries), ordered, canaries, {})
<1> DEFINE total == Len(ordered)
           O == {ordered[i] : i \in 1..total}
           b == <<canaries>>
           plan == Start(ordered, canaries)
           first == SubSeq(ordered, 1, canaries)
<1>1. total \in Nat /\ DOMAIN ordered = 1..total
  OBVIOUS
<1>2. b \in Seq(1..total) /\ Len(b) = 1 /\ b # <<>> /\ b[1] = canaries
  OBVIOUS
<1>3. plan.phases = <<first>> /\ plan.assigned = canaries
  BY DEF Start
<1>4. first \in Seq(O)
  <2>1. \A i \in 1..canaries : ordered[i] \in O
    BY <1>1
  <2> HIDE DEF O
  <2> QED BY <2>1, SubSeqProperties
<1>5. plan.phases \in Seq(Seq(O))
  <2> HIDE DEF first, O, plan
  <2> QED BY <1>3, <1>4
<1> HIDE DEF plan, O, first
<1>6. DOMAIN plan.phases = 1..1 /\ plan.phases[1] = first
  BY <1>3
<1>7. EndsOf(b) = WaveEnds(total, canaries, {})
  BY <1>2 DEF EndsOf, WaveEnds
<1> HIDE DEF b
<1>8. Stretches(plan.phases, ordered, b, canaries)
  BY <1>1, <1>2, <1>6 DEF Stretches, From, first
<1> QED BY <1>2, <1>3, <1>5, <1>7, <1>8 DEF WellPlanned, O, plan

\* ... and with each wave that is not behind those before, a plan stays so.
LEMMA WaveLemma ==
  ASSUME NEW D, NEW ordered \in Seq(D), NEW canaries \in 1..Len(ordered),
         NEW P \in SUBSET (1..100), NEW p \in 1..100, NEW plan,
         WellPlanned(plan, ordered, canaries, P),
         \A q \in P : q <= p
  PROVE  LET new == Wave(ordered, canaries, plan, p) IN
         /\ WellPlanned(new, ordered, canaries, P \cup {p})
         /\ new.assigned >= Share(Len(ordered), p)
<1> DEFINE total == Len(ordered)
           share == Share(total, p)
           reach == Reach(total, canaries, p)
           O == {ordered[i] : i \in 1..total}
           new == Wave(ordered, canaries, plan, p)
<1>1. total \in Nat \ {0} /\ DOMAIN ordered = 1..total
  OBVIOUS
<1>2. share \in 1..total
  BY <1>1, ShareLemma
<1>3. reach = IF share < canaries THEN canaries ELSE share
  BY DEF Reach
<1>4. PICK b : /\ Stretches(plan.phases, ordered, b, canaries)
               /\ b[Len(b)] = plan.assigned
               /\ plan.phases \in Seq(Seq(O))
               /\ EndsOf(b) = WaveEnds(total, canaries, P)
  BY DEF WellPlanned
<1>5. /\ b \in Seq(1..total) /\ Len(b) \in Nat \ {0} /\ b[1] = canaries
      /\ \A k \in 1..Len(b) : b[k] \in 1..total
      /\ \A j, k \in 1..Len(b) : j < k => b[j] < b[k]
      /\ DOMAIN plan.phases = 1..Len(b)
      /\ \A k \in 1..Len(b) : plan.phases[k] = SubSeq(ordered, From(b, k), b[k])
  <2>1. b \in Seq(1..total) /\ b # <<>>
    BY <1>4 DEF Stretches
  <2>2. Len(b) \in Nat \ {0}
    BY <2>1, EmptySeq
  <2>3. \A k \in 1..Len(b) : b[k] \in 1..total
    BY <2>1, ElementOfSeq
  <2> QED BY <1>4, <2>1, <2>2, <2>3 DEF Stretches
<1>6. plan.assigned \in 1..total /\ canaries <= plan.assigned
      /\ \A n \in EndsOf(b) : n <= plan.assigned
  <2>1. \A k \in 1..Len(b) : b[k] <= b[Len(b)]
    BY <1>5
  <2>2. Len(b) \in 1..Len(b) /\ 1 \in 1..Len(b)
    BY <1>5
  <2> QED BY <1>4, <1>5, <2>1, <2>2 DEF EndsOf
<1>7. \A q \in P : Share(total, q) \in 1..total /\ Share(total, q) <= share
  BY <1>1, ShareLemma, ShareMonotonic
<1> HIDE DEF share, reach
<1>8. CASE reach <= plan.assigned
  <2>1. new = plan
    BY <1>8 DEF Wave, reach
  <2>2. share <= plan.assigned
    BY <1>2, <1>3, <1>6, <1>8
\* What is assigned is a share no greater than this one, or the canaries.
  <2>3. share > canaries => share \in {Share(total, q) : q \in P}
    <3>1. SUFFICES ASSUME share > canaries
                   PROVE  share \in {Share(total, q) : q \in P}
      OBVIOUS
    <3>2. plan.assigned \in EndsOf(b)
      BY <1>4, <1>5 DEF EndsOf
    <3>3. plan.assigned # canaries
      BY <1>2, <1>6, <2>2, <3>1
    <3>4. PICK q \in P : plan.assigned = Share(total, q)
      BY <1>4, <3>2, <3>3 DEF WaveEnds
    <3>5. share = Share(total, q)
      BY <1>2, <1>7, <2>2, <3>4
    <3> QED BY <3>5
  <2>4. WaveEnds(total, canaries, P \cup {p}) = WaveEnds(total, canaries, P)
    BY <2>3 DEF WaveEnds, share
  <2> QED BY <1>4, <2>1, <2>2, <2>4 DEF WellPlanned, share
<1>9. CASE reach > plan.assigned
  <2> DEFINE next == SubSeq(ordered, plan.assigned + 1, reach)
             c == Append(b, reach)
  <2>1. new.phases = Append(plan.phases, next) /\ new.assigned = reach
    <3>1. ~(reach <= plan.assigned)
      BY <1>2, <1>3, <1>6, <1>9
    <3> QED BY <3>1 DEF Wave, reach
  <2>2. reach = share /\ reach \in 1..total /\ reach > canaries
    BY <1>2, <1>3, <1>6, <1>9
  <2>3. /\ c \in Seq(1..total) /\ Len(c) = Len(b) + 1 /\ c[Len(c)] = reach
        /\ \A k \in 1..Len(b) : c[k] = b[k]
    BY <1>5, <2>2, AppendProperties
  <2>4. next \in Seq(O)
    <3>1. \A i \in (plan.assigned + 1)..reach : ordered[i] \in O
      BY <1>1, <1>6, <2>2
    <3> HIDE DEF O
    <3> QED BY <1>6, <2>2, <3>1, SubSeqProperties
  <2> HIDE DEF next, c, new, O
  <2>5. /\ new.phases \in Seq(Seq(O)) /\ Len(new.phases) = Len(plan.phases) + 1
        /\ new.phases[Len(plan.phases) + 1] = next
        /\ \A k \in 1..Len(plan.phases) : new.phases[k] = plan.phases[k]
    BY <1>4, <2>1, <2>4, AppendProperties
  <2>6. Len(plan.phases) = Len(b) /\ DOMAIN new.phases = 1..Len(c)
    <3>1. Len(plan.phases) \in Nat /\ DOMAIN plan.phases = 1..Len(plan.phases)
      BY <1>4
    <3>2. Len(plan.phases) = Len(b)
      BY <1>5, <3>1
    <3>3. DOMAIN new.phases = 1..Len(new.phases)
      BY <2>5
    <3> QED BY <2>3, <2>5, <3>2, <3>3
  <2>7. Stretches(new.phases, ordered, c, canaries)
    <3>1. \A j, k \in 1..Len(c) : j < k => c[j] < c[k]
      <4> SUFFICES ASSUME NEW j \in 1..Len(c), NEW k \in 1..Len(c), j < k
                   PROVE  c[j] < c[k]
        OBVIOUS
      <4>1. j \in 1..Len(b) /\ c[j] = b[j]
        BY <1>5, <2>3
      <4>2. CASE k \in 1..Len(b)
        BY <1>5, <2>3, <4>1, <4>2
      <4>3. CASE k = Len(b) + 1
        <5>1. b[j] \in EndsOf(b) /\ b[j] <= plan.assigned /\ b[j] \in 1..total
          BY <1>5, <1>6, <4>1 DEF EndsOf
        <5>2. c[k] = reach /\ c[j] = b[j]
          BY <2>3, <4>1, <4>3
        <5>3. plan.assigned \in Int /\ reach \in Int /\ b[j] \in Int
          BY <1>1, <1>6, <2>2, <5>1
        <5>4. b[j] < reach
          BY <1>9, <5>1, <5>3
        <5> QED BY <5>2, <5>4
      <4>4. Len(b) \in Nat /\ Len(c) = Len(b) + 1
        BY <1>5, <2>3
      <4>5. k \in 1..Len(b) \/ k = Len(b) + 1
        BY <4>4
      <4> QED BY <4>2, <4>3, <4>5
    <3>2. \A k \in 1..Len(b) : From(c, k) = From(b, k)
      <4> SUFFICES ASSUME NEW k \in 1..Len(b) PROVE From(c, k) = From(b, k)
        OBVIOUS
      <4>1. k # 1 => k - 1 \in 1..Len(b)
        BY <1>5
      <4> QED BY <2>3, <4>1 DEF From
    <3>3. From(c, Len(c)) = plan.assigned + 1
      <4>1. Len(c) # 1 /\ Len(c) - 1 = Len(b) /\ Len(b) \in 1..Len(b)
        BY <1>5, <2>3
      <4> QED BY <1>4, <2>3, <4>1 DEF From
    <3>4. \A k \in 1..Len(c) : new.phases[k] = SubSeq(ordered, From(c, k), c[k])
      <4> SUFFICES ASSUME NEW k \in 1..Len(c)
                   PROVE  new.phases[k] = SubSeq(ordered, From(c, k), c[k])
        OBVIOUS
      <4>1. CASE k \in 1..Len(b)
        BY <1>5, <2>3, <2>5, <2>6, <3>2, <4>1
      <4>2. CASE k = Len(b) + 1
        BY <2>3, <2>5, <2>6, <3>3, <4>2 DEF next
      <4> QED BY <1>5, <2>3, <4>1, <4>2
    <3>5. c # <<>> /\ c[1] = canaries
      BY <1>5, <2>3
    <3> QED BY <2>3, <2>6, <3>1, <3>4, <3>5 DEF Stretches
  <2>8. EndsOf(c) = WaveEnds(total, canaries, P \cup {p})
    <3>1. EndsOf(c) = EndsOf(b) \cup {reach}
      <4>1. 1..Len(c) = 1..Len(b) \cup {Len(c)}
        BY <1>5, <2>3
      <4>2. {c[k] : k \in 1..Len(b)} = {b[k] : k \in 1..Len(b)}
        BY <2>3
      <4>3. {c[k] : k \in 1..Len(c)} = {c[k] : k \in 1..Len(b)} \cup {c[Len(c)]}
        BY <4>1
      <4> QED BY <2>3, <4>2, <4>3 DEF EndsOf
    <3>2. WaveEnds(total, canaries, P \cup {p}) = WaveEnds(total, canaries, P) \cup {share}
      BY <2>2 DEF WaveEnds, share
    <3> QED BY <1>4, <2>2, <3>1, <3>2
  <2>9. new.assigned >= share
    BY <2>1, <2>2
  <2>10. WellPlanned(new, ordered, canaries, P \cup {p})
    BY <2>1, <2>3, <2>5, <2>7, <2>8 DEF WellPlanned, O
  <2> QED BY <2>9, <2>10 DEF share, new
<1> QED BY <1>2, <1>3, <1>6, <1>8, <1>9

\* The percentages of the first waves.
Upto(f, i) == {f[j] : j \in 1..i}

LEMMA UptoLemma ==
  ASSUME NEW n \in Nat, NEW i \in 1..n, NEW f,
         \A j \in 1..n : f[j] \in 1..100,
         \A j, k \in 1..n : j < k => f[j] < f[k]
  PROVE  /\ Upto(f, i - 1) \in SUBSET (1..100)
         /\ \A q \in Upto(f, i - 1) : q <= f[i]
         /\ Upto(f, i) = Upto(f, i - 1) \cup {f[i]}
<1>1. \A j \in 1..(i - 1) : j \in 1..n /\ j < i
  OBVIOUS
<1>2. \A j \in 1..(i - 1) : f[j] \in 1..100 /\ f[j] < f[i]
  BY <1>1
<1>3. ASSUME NEW j \in 1..(i - 1) PROVE f[j] <= f[i]
  <2>1. f[j] \in 1..100 /\ f[i] \in 1..100 /\ f[j] < f[i]
    BY <1>2
  <2>2. \A x, y \in 1..100 : x < y => x <= y
    OBVIOUS
  <2> QED BY <2>1, <2>2, Zenon
<1>4. 1..i = 1..(i - 1) \cup {i}
  OBVIOUS
<1> QED BY <1>2, <1>3, <1>4 DEF Upto

PercentagesOf(f) ==
  /\ Len(f) \in Nat
  /\ \A j \in 1..Len(f) : f[j] \in 1..100
  /\ \A j, k \in 1..Len(f) : j < k => f[j] < f[k]

\* What a plan is like after wave i.
After(plan, ordered, canaries, f, i) ==
  /\ WellPlanned(plan[i], ordered, canaries, Upto(f, i))
  /\ i > 0 => plan[i].assigned >= Share(Len(ordered), f[i])

\* So plans are well planned, by induction on the waves, ...
LEMMA WavesLemma ==
  ASSUME NEW D, NEW ordered \in Seq(D), NEW canaries \in 1..Len(ordered),
         NEW f, PercentagesOf(f),
         NEW plan, plan = Plans(ordered, canaries, f)
  PROVE  \A i \in 0..Len(f) : After(plan, ordered, canaries, f, i)
<1> DEFINE n == Len(f)
<1>0. Len(f) \in Nat
  BY DEF PercentagesOf
<1>1. plan[0] = Start(ordered, canaries)
  BY <1>0, PlansLemma
<1>2. \A i \in 1..n : plan[i] = Wave(ordered, canaries, plan[i - 1], f[i])
  BY <1>0, PlansLemma
<1>6. /\ n \in Nat
      /\ \A j \in 1..n : f[j] \in 1..100
      /\ \A j, k \in 1..n : j < k => f[j] < f[k]
  BY DEF PercentagesOf
<1> HIDE DEF n
<1> DEFINE Good(i) == After(plan, ordered, canaries, f, i)
           Bad == {i \in 0..n : ~Good(i)}
<1>3. Good(0)
  <2>1. Upto(f, 0) = {}
    BY DEF Upto
  <2>2. WellPlanned(plan[0], ordered, canaries, {})
    BY <1>1, StartLemma
  <2>3. WellPlanned(plan[0], ordered, canaries, Upto(f, 0))
    BY <2>1, <2>2, Zenon
  <2>4. ~(0 > 0)
    OBVIOUS
  <2> QED BY <2>3, <2>4, Zenon DEF After
<1>4. ASSUME NEW i \in 1..n, Good(i - 1) PROVE Good(i)
  <2> DEFINE P == Upto(f, i - 1)
             p == f[i]
             old == plan[i - 1]
             new == Wave(ordered, canaries, old, p)
  <2>1. Upto(f, i) = P \cup {p} /\ P \in SUBSET (1..100) /\ \A q \in P : q <= p
    BY <1>6, UptoLemma
  <2>2. p \in 1..100 /\ plan[i] = new
    BY <1>2, <1>6
  <2>3. WellPlanned(old, ordered, canaries, P)
    BY <1>4 DEF After
  <2> HIDE DEF P, p, old
  <2>4. /\ WellPlanned(new, ordered, canaries, P \cup {p})
        /\ new.assigned >= Share(Len(ordered), p)
    BY <2>1, <2>2, <2>3, WaveLemma
  <2> HIDE DEF new
  <2> QED BY <2>1, <2>2, <2>4 DEF p, After
<1> HIDE DEF Good
<1>5. Bad = {}
  <2> SUFFICES ASSUME Bad # {} PROVE FALSE
    OBVIOUS
  <2>1. PICK i \in Bad : \A j \in Bad : i <= j
    <3>1. Bad \in SUBSET Nat
      BY <1>6
    <3> HIDE DEF Bad
    <3> QED BY <3>1, LeastLemma
  <2>2. i # 0 /\ i \in 0..n /\ ~Good(i)
    BY <1>3, <2>1
  <2>3. i \in 1..n /\ i - 1 \in 0..n /\ ~(i <= i - 1)
    BY <1>6, <2>2
  <2>4. i - 1 \notin Bad
    <3> HIDE DEF Bad
    <3> QED BY <2>1, <2>3
  <2>5. Good(i - 1)
    BY <2>3, <2>4
  <2> QED BY <1>4, <2>2, <2>3, <2>5
<1> QED BY <1>5 DEF Good, n

\* ... and in the end every device has its phase.
LEMMA InWavesLemma ==
  ASSUME NEW D, NEW ordered \in Seq(D), NEW canaries \in 1..Len(ordered),
         NEW all, PercentagesOf(all), Len(all) # 0, all[Len(all)] = 100
  PROVE  LET plan == Plans(ordered, canaries, all)[Len(all)]
         IN /\ WellPlanned(plan, ordered, canaries, Upto(all, Len(all)))
            /\ plan.assigned >= Len(ordered)
<1> DEFINE plan == Plans(ordered, canaries, all)
<1>1. Share(Len(ordered), 100) = Len(ordered)
  <2>1. Len(ordered) \in Nat \ {0} /\ 100 \in 1..100
    OBVIOUS
  <2> QED BY <2>1, ShareLemma
<1>2. \A i \in 0..Len(all) : After(plan, ordered, canaries, all, i)
  BY WavesLemma, Zenon
<1>3. Len(all) \in 0..Len(all) /\ Len(all) > 0
  BY DEF PercentagesOf
<1> HIDE DEF plan
<1>4. After(plan, ordered, canaries, all, Len(all))
  BY <1>2, <1>3
<1> QED BY <1>1, <1>3, <1>4 DEF plan, After

-----------------------------------------------------------------------------
(* Stretches that end with the last device.                                *)

\* Each device of ordered is in one of them, at one place.
LEMMA StretchLemma ==
  ASSUME NEW D, NEW ordered \in Seq(D), NEW phases, NEW canaries, NEW b,
         Stretches(phases, ordered, b, canaries)
  PROVE  \A k \in 1..Len(b) :
           /\ From(b, k) \in 1..b[k] /\ b[k] \in 1..Len(ordered)
           /\ DOMAIN phases[k] = 1..(b[k] - From(b, k) + 1)
           /\ \A i \in DOMAIN phases[k] : phases[k][i] = ordered[From(b, k) + i - 1]
           /\ \A l \in 1..Len(b) : l < k => b[l] < From(b, k)
<1> SUFFICES ASSUME NEW k \in 1..Len(b)
             PROVE  /\ From(b, k) \in 1..b[k] /\ b[k] \in 1..Len(ordered)
                    /\ DOMAIN phases[k] = 1..(b[k] - From(b, k) + 1)
                    /\ \A i \in DOMAIN phases[k] :
                         phases[k][i] = ordered[From(b, k) + i - 1]
                    /\ \A l \in 1..Len(b) : l < k => b[l] < From(b, k)
  OBVIOUS
<1> DEFINE total == Len(ordered)
           f == From(b, k)
<1>1. total \in Nat /\ \A m \in 1..total : ordered[m] \in D
  OBVIOUS
<1>2. b \in Seq(1..total) /\ b # <<>>
  BY DEF Stretches
<1>3. Len(b) \in Nat \ {0} /\ \A j \in 1..Len(b) : b[j] \in 1..total
  BY <1>2, EmptySeq, ElementOfSeq
<1>4. \A i, j \in 1..Len(b) : i < j => b[i] < b[j]
  BY DEF Stretches
<1>5. phases[k] = SubSeq(ordered, f, b[k])
  BY DEF Stretches
<1>6. f \in 1..b[k] /\ \A l \in 1..Len(b) : l < k => b[l] < f
  <2>1. CASE k = 1
    BY <1>3, <2>1 DEF From
  <2>2. CASE k # 1
    <3>1. k - 1 \in 1..Len(b) /\ f = b[k - 1] + 1
      BY <1>3, <2>2 DEF From
    <3>2. b[k - 1] < b[k] /\ b[k - 1] \in 1..total /\ b[k] \in 1..total
      BY <1>3, <1>4, <3>1
    <3>3. \A l \in 1..Len(b) : l < k => b[l] <= b[k - 1]
      <4> SUFFICES ASSUME NEW l \in 1..Len(b), l < k PROVE b[l] <= b[k - 1]
        OBVIOUS
      <4>1. l = k - 1 \/ l < k - 1
        BY <1>3
      <4> QED BY <1>3, <1>4, <3>1, <4>1
    <3> QED BY <1>3, <3>1, <3>2, <3>3
  <2> QED BY <2>1, <2>2
<1> HIDE DEF f, total
<1>7. f \in Int /\ b[k] \in Int /\ \A i \in f..b[k] : ordered[i] \in D
  BY <1>1, <1>3, <1>6
<1>8. /\ phases[k] \in Seq(D) /\ Len(phases[k]) = b[k] - f + 1
      /\ \A i \in 1..(b[k] - f + 1) : phases[k][i] = ordered[f + i - 1]
  BY <1>5, <1>6, <1>7, SubSeqProperties
<1>9. DOMAIN phases[k] = 1..(b[k] - f + 1)
  BY <1>8
<1> QED BY <1>3, <1>6, <1>8, <1>9 DEF f, total

\* The first devices, as many as the phases up to k have, are in those phases.
LEMMA PlaceLemma ==
  ASSUME NEW D, NEW ordered \in Seq(D), NEW phases, NEW canaries, NEW b,
         Stretches(phases, ordered, b, canaries),
         NEW k \in 1..Len(b), NEW m \in 1..b[k]
  PROVE  \E j \in 1..k : m \in From(b, j)..b[j]
<1>1. b \in Seq(1..Len(ordered)) /\ b # <<>>
  BY DEF Stretches
<1>2. Len(b) \in Nat /\ \A j \in 1..Len(b) : b[j] \in Nat
  <2>1. \A j \in 1..Len(b) : b[j] \in 1..Len(ordered)
    BY <1>1, ElementOfSeq
  <2> QED BY <1>1, <2>1
<1> DEFINE S == {j \in 1..k : m <= b[j]}
<1>3. k \in S /\ S \in SUBSET Nat
  BY <1>2
<1>4. PICK j \in S : \A i \in S : j <= i
  <2> HIDE DEF S
  <2> QED BY <1>3, LeastLemma
<1>5. j \in 1..k /\ m <= b[j] /\ m \in Nat /\ j \in Nat
  BY <1>2, <1>4
<1>6. From(b, j) <= m
  <2>1. CASE j = 1
    BY <2>1 DEF From
  <2>2. CASE j # 1
    <3>1. j - 1 \notin S
      <4>1. ~(j <= j - 1)
        BY <1>5
      <4> HIDE DEF S
      <4> QED BY <1>4, <4>1
    <3>2. j - 1 \in 1..k /\ j - 1 \in 1..Len(b)
      BY <1>2, <1>5, <2>2
    <3>3. b[j - 1] < m
      BY <1>2, <1>5, <3>1, <3>2
    <3> QED BY <1>2, <1>5, <2>2, <3>2, <3>3 DEF From
  <2> QED BY <2>1, <2>2
<1>7. From(b, j) \in Int /\ b[j] \in Int
  BY <1>1, <1>2, <1>5, StretchLemma
<1> QED BY <1>5, <1>6, <1>7

\* The devices of the phases up to k are the first b[k].
LEMMA ReachedLemma ==
  ASSUME NEW D, NEW ordered \in Seq(D), NEW phases, NEW canaries, NEW b,
         Stretches(phases, ordered, b, canaries),
         \A i, j \in 1..Len(ordered) : ordered[i] = ordered[j] => i = j,
         NEW k \in 1..Len(b)
  PROVE  Reached(phases, k) = b[k]
<1> DEFINE U == UNION {ToSet(phases[j]) : j \in 1..k}
           first == [m \in 1..b[k] |-> ordered[m]]
<1>1. \A j \in 1..Len(b) :
        /\ From(b, j) \in 1..b[j] /\ b[j] \in 1..Len(ordered)
        /\ DOMAIN phases[j] = 1..(b[j] - From(b, j) + 1)
        /\ \A i \in DOMAIN phases[j] : phases[j][i] = ordered[From(b, j) + i - 1]
  BY StretchLemma
<1>2. Len(b) \in Nat /\ \A i, j \in 1..Len(b) : i < j => b[i] < b[j]
  BY EmptySeq DEF Stretches
<1>3. b[k] \in Nat /\ b[k] <= Len(ordered) /\ Len(ordered) \in Nat
  BY <1>1
<1>4. ASSUME NEW j \in 1..k, NEW i \in DOMAIN phases[j]
      PROVE  \E m \in 1..b[k] : phases[j][i] = ordered[m]
  <2> DEFINE m == From(b, j) + i - 1
  <2>1. j \in 1..Len(b)
    BY <1>2
  <2>2. m \in 1..b[j] /\ phases[j][i] = ordered[m]
    BY <1>1, <2>1
  <2>3. b[j] <= b[k]
    <3>1. b[j] \in Int /\ b[k] \in Int /\ (j = k \/ j < k)
      BY <1>1, <1>2, <2>1
    <3> QED BY <1>2, <2>1, <3>1
  <2> HIDE DEF m
  <2>4. m \in 1..b[k]
    BY <1>1, <1>3, <2>1, <2>2, <2>3
  <2> QED BY <2>2, <2>4
<1>5. ASSUME NEW m \in 1..b[k]
      PROVE  \E j \in 1..k : \E i \in DOMAIN phases[j] : phases[j][i] = ordered[m]
  <2>1. PICK j \in 1..k : m \in From(b, j)..b[j]
    BY PlaceLemma
  <2>2. j \in 1..Len(b)
    BY <1>2
  <2> DEFINE i == m - From(b, j) + 1
  <2>3. From(b, j) \in 1..b[j] /\ b[j] \in 1..Len(ordered)
    BY <1>1, <2>2
  <2>4. i \in 1..(b[j] - From(b, j) + 1) /\ From(b, j) + i - 1 = m
    BY <1>3, <2>1, <2>3
  <2>5. i \in DOMAIN phases[j] /\ phases[j][i] = ordered[m]
    <3> HIDE DEF i
    <3>1. i \in DOMAIN phases[j]
      BY <1>1, <2>2, <2>4
    <3>2. phases[j][i] = ordered[From(b, j) + i - 1]
      BY <1>1, <2>2, <3>1
    <3> QED BY <2>4, <3>1, <3>2
  <2> QED BY <2>5
<1>6. /\ \A m \in 1..b[k] : first[m] \in U /\ first[m] = ordered[m]
      /\ \A u \in U : \E m \in 1..b[k] : first[m] = u
  <2>1. \A m \in 1..b[k] : first[m] = ordered[m]
    OBVIOUS
  <2>2. \A j \in 1..k : ToSet(phases[j]) = {phases[j][i] : i \in DOMAIN phases[j]}
    BY DEF ToSet
  <2>3. ASSUME NEW m \in 1..b[k] PROVE ordered[m] \in U
    <3>1. PICK j \in 1..k : \E i \in DOMAIN phases[j] : phases[j][i] = ordered[m]
      BY <1>5
    <3> QED BY <2>2, <3>1
  <2>4. ASSUME NEW u \in U PROVE \E m \in 1..b[k] : u = ordered[m]
    <3>1. PICK j \in 1..k : u \in ToSet(phases[j])
      OBVIOUS
    <3>2. PICK i \in DOMAIN phases[j] : u = phases[j][i]
      BY <2>2, <3>1
    <3> QED BY <1>4, <3>2
  <2> HIDE DEF first, U
  <2> QED BY <2>1, <2>3, <2>4
<1>7. first \in Bijection(1..b[k], U)
  <2>1. 1..b[k] \subseteq 1..Len(ordered)
    BY <1>3
  <2>2. first \in [1..b[k] -> U]
    BY <1>6
  <2>3. \A m, n \in 1..b[k] : first[m] = first[n] => m = n
    BY <1>6, <2>1
  <2>4. \A u \in U : \E m \in 1..b[k] : first[m] = u
    BY <1>6
  <2> HIDE DEF first, U
  <2> QED BY <2>2, <2>3, <2>4 DEF Bijection, Injection, Surjection, IsInjective
<1>8. IsFiniteSet(1..b[k]) /\ Cardinality(1..b[k]) = b[k]
  <2> DEFINE n == b[k]
  <2>1. n \in Nat
    BY <1>3
  <2> HIDE DEF n
  <2>2. IsFiniteSet(1..n) /\ Cardinality(1..n) = n
    BY <2>1, FS_Interval
  <2> QED BY <2>2 DEF n
<1>9. Cardinality(U) = b[k]
  <2> DEFINE S == 1..b[k]
  <2>1. IsFiniteSet(S) /\ Cardinality(S) = b[k] /\ first \in Bijection(S, U)
    BY <1>7, <1>8
  <2> HIDE DEF first, U, S
  <2>2. Cardinality(U) = Cardinality(S)
    BY <2>1, FS_Bijection DEF ExistsBijection
  <2> QED BY <2>1, <2>2
<1> QED BY <1>9 DEF Reached

\* When they end with the last device, the phases divide the devices.
LEMMA DivideLemma ==
  ASSUME NEW D, NEW ordered \in Seq(D), NEW phases, NEW canaries, NEW b,
         Stretches(phases, ordered, b, canaries), b[Len(b)] = Len(ordered),
         \A i, j \in 1..Len(ordered) : ordered[i] = ordered[j] => i = j,
         NEW devices, ToSet(devices) = ToSet(ordered)
  PROVE  Divides(phases, devices)
<1>1. \A j \in 1..Len(b) :
        /\ From(b, j) \in 1..b[j] /\ b[j] \in 1..Len(ordered)
        /\ DOMAIN phases[j] = 1..(b[j] - From(b, j) + 1)
        /\ \A i \in DOMAIN phases[j] : phases[j][i] = ordered[From(b, j) + i - 1]
        /\ \A l \in 1..Len(b) : l < j => b[l] < From(b, j)
  BY StretchLemma
<1>2. DOMAIN phases = 1..Len(b) /\ Len(b) \in Nat /\ Len(b) \in 1..Len(b)
  BY EmptySeq DEF Stretches
<1>3. Len(ordered) \in Nat /\ DOMAIN ordered = 1..Len(ordered)
  OBVIOUS
<1>4. ToSet(ordered) = {ordered[m] : m \in 1..Len(ordered)}
  BY <1>3 DEF ToSet
<1> DEFINE Position(k, i) == From(b, k) + i - 1
<1>5. ASSUME NEW k \in 1..Len(b), NEW i \in DOMAIN phases[k]
      PROVE  /\ Position(k, i) \in From(b, k)..b[k] /\ Position(k, i) \in 1..Len(ordered)
             /\ phases[k][i] = ordered[Position(k, i)]
  BY <1>1, <1>5
\* Places in different phases, or in one, are different in ordered.
<1>6. ASSUME NEW k \in 1..Len(b), NEW i \in DOMAIN phases[k],
             NEW l \in 1..Len(b), NEW j \in DOMAIN phases[l],
             Position(k, i) = Position(l, j)
      PROVE  l = k /\ j = i
  <2>1. \A x, y \in 1..Len(b) : x < y => b[x] < From(b, y)
    BY <1>1
  <2>2. Position(k, i) \in From(b, k)..b[k] /\ Position(l, j) \in From(b, l)..b[l]
    BY <1>5
  <2>3. From(b, k) \in Int /\ b[k] \in Int /\ From(b, l) \in Int /\ b[l] \in Int
    BY <1>1
  <2>4. k = l
    <3>1. ~(k < l) /\ ~(l < k)
      BY <1>6, <2>1, <2>2, <2>3
    <3> QED BY <1>2, <3>1
  <2>5. i \in Int /\ j \in Int
    <3>1. /\ DOMAIN phases[k] = 1..(b[k] - From(b, k) + 1)
          /\ DOMAIN phases[l] = 1..(b[l] - From(b, l) + 1)
      BY <1>1
    <3> QED BY <2>3, <3>1
  <2> QED BY <1>6, <2>3, <2>4, <2>5
<1> HIDE DEF Position
<1>7. ASSUME NEW d \in ToSet(devices)
      PROVE  \E k \in DOMAIN phases : \E i \in DOMAIN phases[k] :
               /\ phases[k][i] = d
               /\ \A l \in DOMAIN phases : \A j \in DOMAIN phases[l] :
                    phases[l][j] = d => l = k /\ j = i
  <2>1. PICK m \in 1..Len(ordered) : d = ordered[m]
    BY <1>4
  <2>2. PICK k \in 1..Len(b) : m \in From(b, k)..b[k]
    BY <1>2, PlaceLemma
  <2> DEFINE i == m - From(b, k) + 1
  <2>3. From(b, k) \in 1..b[k] /\ b[k] \in 1..Len(ordered)
    BY <1>1
  <2>4. i \in 1..(b[k] - From(b, k) + 1) /\ Position(k, i) = m
    BY <1>3, <2>2, <2>3 DEF Position
  <2> HIDE DEF i
  <2>5. i \in DOMAIN phases[k]
    BY <1>1, <2>4
  <2>6. phases[k][i] = d
    BY <1>5, <2>1, <2>4, <2>5
  <2>7. ASSUME NEW l \in 1..Len(b), NEW j \in DOMAIN phases[l], phases[l][j] = d
        PROVE  l = k /\ j = i
    <3>1. ordered[Position(l, j)] = ordered[m] /\ Position(l, j) \in 1..Len(ordered)
      BY <1>5, <2>1, <2>7
    <3>2. Position(l, j) = Position(k, i)
      BY <2>4, <3>1
    <3> QED BY <1>6, <2>5, <3>2
  <2> QED BY <1>2, <2>5, <2>6, <2>7
<1>8. ASSUME NEW k \in 1..Len(b)
      PROVE  phases[k] # <<>> /\ ToSet(phases[k]) \subseteq ToSet(devices)
  <2>1. 1 \in DOMAIN phases[k]
    <3>1. From(b, k) \in 1..b[k] /\ b[k] \in 1..Len(ordered)
          /\ DOMAIN phases[k] = 1..(b[k] - From(b, k) + 1)
      BY <1>1
    <3>2. 1 \in 1..(b[k] - From(b, k) + 1)
      BY <3>1
    <3> QED BY <3>1, <3>2
  <2>2. \A i \in DOMAIN phases[k] : phases[k][i] \in ToSet(devices)
    BY <1>4, <1>5
  <2> QED BY <2>1, <2>2 DEF ToSet
<1> QED BY <1>2, <1>7, <1>8 DEF Divides

-----------------------------------------------------------------------------
(* Plans.                                                                  *)

\* With its last wave at 100 percent, a strategy is one still.
LEMMA CompletedLemma ==
  ASSUME NEW waves, ValidWaves(waves)
  PROVE  LET all == Completed(waves)
             n == Len(all)
         IN /\ n \in Nat /\ n # 0 /\ DOMAIN all = 1..n
            /\ \A j \in 1..n : all[j] \in 1..100
            /\ \A j, k \in 1..n : j < k => all[j] < all[k]
            /\ all[n] = 100
<1> DEFINE m == Len(waves)
<1>1. waves \in Seq(1..100) /\ waves # <<>>
  BY DEF ValidWaves
<1>2. m \in Nat /\ m # 0 /\ DOMAIN waves = 1..m
  BY <1>1, EmptySeq
<1>3. \A j \in 1..m : waves[j] \in 1..100
  BY <1>1, ElementOfSeq
<1>4. \A j, k \in 1..m : j < k => waves[j] < waves[k]
  BY <1>2 DEF ValidWaves
<1>5. Last(waves) = waves[m]
  BY DEF Last
<1>6. CASE waves[m] = 100
  BY <1>2, <1>3, <1>4, <1>5, <1>6 DEF Completed
<1>7. CASE waves[m] # 100
  <2> DEFINE all == Append(waves, 100)
  <2>1. Completed(waves) = all
    BY <1>5, <1>7 DEF Completed
  <2>2. /\ Len(all) = m + 1 /\ all[m + 1] = 100 /\ DOMAIN all = 1..(m + 1)
        /\ \A j \in 1..m : all[j] = waves[j]
    <3>1. all \in Seq(1..100)
      BY <1>1
    <3> QED BY <1>1, <3>1, AppendProperties
  <2> HIDE DEF all, m
  <2>3. \A j \in 1..(m + 1) : j \in 1..m \/ j = m + 1
    BY <1>2
  <2>4. ASSUME NEW j \in 1..(m + 1) PROVE all[j] \in 1..100
    <3>1. CASE j \in 1..m
      BY <1>3, <2>2, <3>1
    <3>2. CASE j = m + 1
      BY <2>2, <3>2
    <3> QED BY <2>3, <3>1, <3>2
  <2>5. ASSUME NEW j \in 1..(m + 1), NEW k \in 1..(m + 1), j < k
        PROVE  all[j] < all[k]
    <3>1. j \in 1..m
      BY <1>2, <2>5
    <3>2. m \in 1..m /\ waves[j] < 100
      <4>1. m \in 1..m
        BY <1>2
      <4>2. waves[m] < 100
        <5>1. waves[m] \in 1..100
          BY <1>3, <4>1
        <5>2. waves[m] # 100
          BY <1>7 DEF m
        <5> QED BY <5>1, <5>2
      <4>3. j = m \/ j < m
        BY <1>2, <3>1
      <4> QED BY <1>3, <1>4, <3>1, <4>1, <4>2, <4>3
    <3>3. CASE k \in 1..m
      BY <1>4, <2>2, <2>5, <3>1, <3>3
    <3>4. CASE k = m + 1
      BY <2>2, <3>1, <3>2, <3>4
    <3> QED BY <2>3, <3>3, <3>4
  <2>6. m + 1 \in Nat /\ m + 1 # 0
    BY <1>2
  <2> QED BY <2>1, <2>2, <2>4, <2>5, <2>6
<1> QED BY <1>6, <1>7

LEMMA PercentagesLemma ==
  ASSUME NEW waves, ValidWaves(waves)
  PROVE  ToSet(Completed(waves)) \subseteq 1..100
<1> DEFINE all == Completed(waves)
<1>1. DOMAIN all = 1..Len(all) /\ \A j \in 1..Len(all) : all[j] \in 1..100
  BY CompletedLemma
<1> HIDE DEF all
<1>2. ToSet(all) \subseteq 1..100
  <2>1. ToSet(all) = {all[j] : j \in 1..Len(all)}
    BY <1>1 DEF ToSet
  <2> QED BY <1>1, <2>1
<1> QED BY <1>2 DEF all

\* Devices that are listed once are ordered once.
LEMMA OnceLemma ==
  ASSUME NEW D, NEW devices \in Seq(D), NEW tagged,
         \A i, j \in 1..Len(devices) : devices[i] = devices[j] => i = j
  PROVE  LET ordered == Ordered(devices, tagged) IN
         /\ \A i, j \in 1..Len(ordered) : ordered[i] = ordered[j] => i = j
         /\ ToSet(devices) = ToSet(ordered)
<1> DEFINE N == 1..Len(devices)
           R(i) == Rank(i, devices, tagged)
           ordered == Ordered(devices, tagged)
<1>1. /\ \A i \in N : R(i) \in N
      /\ \A n \in N : \E i \in N : R(i) = n
  BY RankLemma
<1>2. ordered \in Seq(D) /\ Len(ordered) = Len(devices)
  BY OrderedLemma
<1>3. \A i \in N : ordered[R(i)] = devices[i]
  BY OrderedLemma
<1>4. DOMAIN devices = N /\ DOMAIN ordered = N
  BY <1>2
<1>5. \A i, j \in N : devices[i] = devices[j] => i = j
  OBVIOUS
<1> HIDE DEF N, R, ordered
<1>6. ASSUME NEW i \in N, NEW j \in N, ordered[i] = ordered[j] PROVE i = j
  <2>1. PICK h \in N, k \in N : R(h) = i /\ R(k) = j
    BY <1>1
  <2>2. devices[h] = devices[k]
    BY <1>3, <1>6, <2>1
  <2> QED BY <1>5, <2>1, <2>2
<1>7. ToSet(devices) = {devices[i] : i \in N} /\ ToSet(ordered) = {ordered[i] : i \in N}
  BY <1>4 DEF ToSet
<1>8. ASSUME NEW j \in N PROVE \E i \in N : devices[i] = ordered[j]
  <2>1. PICK i \in N : R(i) = j
    BY <1>1
  <2>2. devices[i] = ordered[j]
    BY <1>3, <2>1
  <2> QED BY <2>2
<1>10. \A i \in N : \E j \in N : devices[i] = ordered[j]
  BY <1>1, <1>3, Zenon
<1>9. ToSet(devices) = ToSet(ordered)
  BY <1>7, <1>8, <1>10
<1> QED BY <1>2, <1>6, <1>9 DEF N, ordered

\* The phases of a strategy are stretches that end with the last device, and
\* at the canaries and the shares in between.
LEMMA PlanLemma ==
  ASSUME NEW D, NEW devices \in Seq(D), NEW tagged, NEW canaries, NEW waves,
         ValidCanary(canaries, Len(devices)), ValidWaves(waves)
  PROVE  LET ordered == Ordered(devices, tagged)
             phases == InWaves(devices, tagged, canaries, waves)
             total == Len(devices)
         IN \E b : /\ Stretches(phases, ordered, b, canaries)
                   /\ b[Len(b)] = total
                   /\ EndsOf(b) = WaveEnds(total, canaries, ToSet(Completed(waves)))
<1> DEFINE ordered == Ordered(devices, tagged)
           total == Len(devices)
           all == Completed(waves)
           n == Len(all)
           plan == Plans(ordered, canaries, all)[n]
<1>1. ordered \in Seq(D) /\ Len(ordered) = total
  BY OrderedLemma
<1>2. canaries \in 1..Len(ordered)
  BY <1>1 DEF ValidCanary
<1>3. /\ n \in Nat /\ n # 0 /\ DOMAIN all = 1..n
      /\ \A j \in 1..n : all[j] \in 1..100
      /\ \A j, k \in 1..n : j < k => all[j] < all[k]
      /\ all[n] = 100
  BY CompletedLemma, Zenon
<1>4. InWaves(devices, tagged, canaries, waves) = plan.phases
  BY DEF InWaves
<1> HIDE DEF all, ordered
<1>6. WellPlanned(plan, ordered, canaries, Upto(all, n)) /\ plan.assigned >= total
  <2>1. /\ WellPlanned(plan, ordered, canaries, Upto(all, n))
        /\ plan.assigned >= Len(ordered)
    <3>1. PercentagesOf(all)
      BY <1>3 DEF PercentagesOf
    <3> QED BY <1>1, <1>2, <1>3, <3>1, InWavesLemma, Zenon
  <2> QED BY <1>1, <2>1
<1> HIDE DEF n
<1>7. Upto(all, n) = ToSet(all)
  BY <1>3 DEF Upto, ToSet
<1> HIDE DEF plan
<1>8. PICK b : /\ Stretches(plan.phases, ordered, b, canaries)
               /\ b[Len(b)] = plan.assigned
               /\ EndsOf(b) = WaveEnds(total, canaries, ToSet(all))
  BY <1>1, <1>6, <1>7 DEF WellPlanned
<1>9. b[Len(b)] \in 1..total
  <2>1. b \in Seq(1..total) /\ b # <<>>
    BY <1>1, <1>8 DEF Stretches
  <2>2. Len(b) \in 1..Len(b)
    BY <2>1, EmptySeq
  <2> QED BY <2>1, <2>2, ElementOfSeq
<1>10. total \in Nat
  OBVIOUS
<1>11. b[Len(b)] = total
  BY <1>6, <1>8, <1>9, <1>10
<1> QED BY <1>4, <1>8, <1>11 DEF ordered, all, n

\* A strategy's phases put every device, however many there are, in exactly
\* one place, and none of them is empty (plan_phases()).
THEOREM PlansDivide ==
  ASSUME NEW D, NEW devices \in Seq(D), NEW tagged, NEW canaries, NEW waves,
         \A i, j \in 1..Len(devices) : devices[i] = devices[j] => i = j,
         ValidCanary(canaries, Len(devices)), ValidWaves(waves)
  PROVE  Divides(InWaves(devices, tagged, canaries, waves), devices)
<1> DEFINE ordered == Ordered(devices, tagged)
           phases == InWaves(devices, tagged, canaries, waves)
           total == Len(devices)
<1>1. ordered \in Seq(D) /\ Len(ordered) = total
  BY OrderedLemma
<1>2. /\ \A i, j \in 1..Len(ordered) : ordered[i] = ordered[j] => i = j
      /\ ToSet(devices) = ToSet(ordered)
  BY OnceLemma
<1>3. \E b : Stretches(phases, ordered, b, canaries) /\ b[Len(b)] = total
  BY PlanLemma
<1> HIDE DEF ordered, phases, total
<1>4. Divides(phases, devices)
  BY <1>1, <1>2, <1>3, DivideLemma
<1> QED BY <1>4 DEF phases

\* The phases end with the canaries and with the shares of the percentages,
\* each the least number of devices that makes the percentage up
\* (plan_phases(), normalize_strategy()).
THEOREM PlansAreGradual ==
  ASSUME NEW D, NEW devices \in Seq(D), NEW tagged, NEW canaries, NEW waves,
         \A i, j \in 1..Len(devices) : devices[i] = devices[j] => i = j,
         ValidCanary(canaries, Len(devices)), ValidWaves(waves)
  PROVE  Gradual(InWaves(devices, tagged, canaries, waves), Len(devices),
                 canaries, ToSet(Completed(waves)))
<1> DEFINE ordered == Ordered(devices, tagged)
           phases == InWaves(devices, tagged, canaries, waves)
           total == Len(devices)
           percentages == ToSet(Completed(waves))
<1>1. ordered \in Seq(D) /\ Len(ordered) = total
  BY OrderedLemma
<1>2. \A i, j \in 1..Len(ordered) : ordered[i] = ordered[j] => i = j
  BY OnceLemma
<1>3. PICK b : /\ Stretches(phases, ordered, b, canaries)
               /\ EndsOf(b) = WaveEnds(total, canaries, percentages)
  BY PlanLemma
<1>4. total \in Nat \ {0}
  BY DEF ValidCanary
<1>5. \A p \in percentages : p \in 1..100
  BY PercentagesLemma
<1> HIDE DEF ordered, phases, total, percentages
<1>6. \A p \in percentages : Share(total, p) = LeastShare(total, p)
  BY <1>4, <1>5, ShareLemma
<1>7. \A k \in 1..Len(b) : Reached(phases, k) = b[k]
  BY <1>1, <1>2, <1>3, ReachedLemma
<1>8. DOMAIN phases = 1..Len(b)
  BY <1>3 DEF Stretches
<1>9. {Reached(phases, k) : k \in DOMAIN phases} = EndsOf(b)
  BY <1>7, <1>8 DEF EndsOf
<1>10. {Share(total, p) : p \in percentages} = {LeastShare(total, p) : p \in percentages}
  BY <1>6
<1>11. Gradual(phases, total, canaries, percentages)
  BY <1>3, <1>9, <1>10 DEF Gradual, WaveEnds
<1> QED BY <1>11 DEF phases, total, percentages

\* The canaries are tagged devices, or all the tagged ones are among them
\* (plan_phases()).
THEOREM CanariesAreTagged ==
  ASSUME NEW D, NEW devices \in Seq(D), NEW tagged, NEW canaries, NEW waves,
         ValidCanary(canaries, Len(devices)), ValidWaves(waves)
  PROVE  TaggedFirst(InWaves(devices, tagged, canaries, waves), devices, tagged)
<1> DEFINE ordered == Ordered(devices, tagged)
           phases == InWaves(devices, tagged, canaries, waves)
           total == Len(devices)
           N == 1..total
           R(i) == Rank(i, devices, tagged)
<1>1. ordered \in Seq(D) /\ Len(ordered) = total
  BY OrderedLemma
<1>2. \A i \in N : ordered[R(i)] = devices[i]
  BY OrderedLemma
<1>3. /\ \A i \in N : R(i) \in N
      /\ \A n \in N : \E i \in N : R(i) = n
      /\ \A i, j \in N : devices[i] \in tagged /\ devices[j] \notin tagged
                           => R(i) < R(j)
  <2>1. \A i, j \in N : devices[i] \in tagged /\ devices[j] \notin tagged
                          => Before(i, j, devices, tagged)
    BY DEF Before
  <2> QED BY <2>1, RankLemma
<1>4. PICK b : Stretches(phases, ordered, b, canaries)
  BY PlanLemma
<1>5. DOMAIN devices = N /\ canaries \in N /\ total \in Nat
  BY DEF ValidCanary
<1> HIDE DEF ordered, phases, total, R
<1>6. 1 \in 1..Len(b) /\ b[1] = canaries /\ From(b, 1) = 1
  BY <1>4, EmptySeq DEF Stretches, From
<1>7. /\ DOMAIN phases[1] = 1..canaries
      /\ \A i \in 1..canaries : phases[1][i] = ordered[i]
  <2>1. /\ DOMAIN phases[1] = 1..(canaries - 1 + 1)
        /\ \A i \in DOMAIN phases[1] : phases[1][i] = ordered[1 + i - 1]
    BY <1>1, <1>4, <1>6, StretchLemma
  <2> QED BY <1>5, <2>1
<1>8. ToSet(phases[1]) = {ordered[i] : i \in 1..canaries}
  BY <1>7 DEF ToSet
<1>9. ASSUME NEW r \in 1..canaries, ordered[r] \notin tagged,
             NEW j \in N, devices[j] \in tagged
      PROVE  devices[j] \in ToSet(phases[1])
  <2>1. r \in N
    BY <1>5
  <2>2. PICK i \in N : R(i) = r
    BY <1>3, <2>1
  <2>3. devices[i] \notin tagged
    BY <1>2, <1>9, <2>2
  <2>4. R(j) < r /\ R(j) \in N
    BY <1>3, <1>9, <2>2, <2>3
  <2>5. R(j) \in 1..canaries
    BY <1>5, <2>4
  <2> QED BY <1>2, <1>8, <2>5
<1>10. ToSet(devices) = {devices[j] : j \in N}
  BY <1>5 DEF ToSet
<1>11. TaggedFirst(phases, devices, tagged)
  BY <1>8, <1>9, <1>10 DEF TaggedFirst
<1> QED BY <1>11 DEF phases

-----------------------------------------------------------------------------
(* The strategies of the runs are instances.                               *)

LEMMA NumberedLemma ==
  ASSUME NEW total \in Nat
  PROVE  LET devices == Numbered1To(total) IN
         /\ devices \in Seq(1..total) /\ Len(devices) = total
         /\ \A i, j \in 1..Len(devices) : devices[i] = devices[j] => i = j
BY DEF Numbered1To

\* No device is without its place in the phases, or has two (plan_phases()).
THEOREM DivisionIsPlanned == Spec => []PlanDivides
<1>1. Undivided = {}
  <2> SUFFICES ASSUME NEW total \in 1..4, NEW s \in Strategies(total)
               PROVE  Divides(PlanOf(total, s), Numbered1To(total))
    BY DEF Undivided
  <2>1. ValidCanary(s.canaries, total) /\ ValidWaves(s.waves)
    BY DEF Strategies
  <2> QED BY <2>1, NumberedLemma, PlansDivide DEF PlanOf
<1>2. PlanDivides
  BY <1>1 DEF PlanDivides
<1> QED BY <1>2, PTL

\* The canaries and waves are those of the strategy (plan_phases()).
THEOREM GradualIsPlanned == Spec => []PlanIsGradual
<1>1. Steep = {}
  <2> SUFFICES ASSUME NEW total \in 1..4, NEW s \in Strategies(total)
               PROVE  /\ Gradual(PlanOf(total, s), total, s.canaries,
                                 ToSet(Completed(s.waves)))
                      /\ TaggedFirst(PlanOf(total, s), Numbered1To(total), s.tagged)
    BY DEF Steep
  <2>1. ValidCanary(s.canaries, total) /\ ValidWaves(s.waves)
    BY DEF Strategies
  <2> DEFINE devices == Numbered1To(total)
  <2>2. /\ devices \in Seq(1..total) /\ Len(devices) = total
        /\ \A i, j \in 1..Len(devices) : devices[i] = devices[j] => i = j
    BY NumberedLemma
  <2> HIDE DEF devices
  <2>3. Gradual(InWaves(devices, s.tagged, s.canaries, s.waves), Len(devices),
                s.canaries, ToSet(Completed(s.waves)))
    BY <2>1, <2>2, PlansAreGradual
  <2>4. TaggedFirst(InWaves(devices, s.tagged, s.canaries, s.waves), devices, s.tagged)
    BY <2>1, <2>2, CanariesAreTagged
  <2> QED BY <2>2, <2>3, <2>4 DEF PlanOf, devices
<1>2. PlanIsGradual
  BY <1>1 DEF PlanIsGradual
<1> QED BY <1>2, PTL
=============================================================================
