----------------------------- MODULE IpamProofs -----------------------------
(***************************************************************************)
(* Theorems about Ipam, for any width of an address: 32 as in the code, or *)
(* 6 as in the runs.  They rest on a few laws of powers of two, which are  *)
(* proved from the recursive function by induction over a set of numbers.  *)
(***************************************************************************)
EXTENDS Ipam, WellFoundedInduction, TLAPS

-----------------------------------------------------------------------------
(* Induction, and the recursive function *)

\* A nonempty set of naturals has a smallest element.
LEMMA Smallest ==
  ASSUME NEW S, S \subseteq Nat, S # {}
  PROVE  \E x \in S : \A y \in S : x <= y
<1>1. \E x \in S : \A y \in S : <<y, x>> \notin OpToRel(<, Nat)
  BY WFMin, NatLessThanWellFounded
<1>2. \A x, y \in S : <<y, x>> \notin OpToRel(<, Nat) => x <= y
  BY SMT DEF OpToRel
<1> QED BY <1>1, <1>2

\* Induction, for a set.
LEMMA Induction ==
  ASSUME NEW S, 0 \in S, \A n \in Nat : n \in S => n + 1 \in S
  PROVE  \A n \in Nat : n \in S
<1> SUFFICES ASSUME NEW n \in Nat, n \notin S PROVE FALSE
  OBVIOUS
<1> DEFINE T == {m \in Nat : m \notin S}
<1>1. PICK x \in T : \A y \in T : x <= y
  <2>1. T \subseteq Nat /\ T # {}
    OBVIOUS
  <2> HIDE DEF T
  <2> QED BY <2>1, Smallest
<1>2. x # 0
  OBVIOUS
<1>3. x - 1 \in Nat /\ x - 1 \notin T
  BY <1>1, <1>2
<1>4. (x - 1) + 1 \in S
  BY <1>3
<1> QED BY <1>4

\* f is the function up to n.
UpTo(f, n) ==
  /\ f \in [0 .. n -> Nat]
  /\ \A i \in 0 .. n : f[i] = IF i = 0 THEN 1 ELSE 2 * f[i - 1]

\* Two such functions agree.
LEMMA UpToUnique ==
  ASSUME NEW f, NEW g, NEW n \in Nat, NEW m \in Nat, UpTo(f, n), UpTo(g, m), n <= m
  PROVE  f[n] = g[n]
<1> DEFINE S == {i \in Nat : i <= n => f[i] = g[i]}
<1>1. 0 \in S
  BY DEF UpTo
<1>2. ASSUME NEW i \in Nat, i \in S
      PROVE  i + 1 \in S
  <2> SUFFICES ASSUME i + 1 <= n PROVE f[i + 1] = g[i + 1]
    OBVIOUS
  <2>1. f[i] = g[i] /\ i + 1 \in 0 .. n /\ i + 1 \in 0 .. m /\ i + 1 # 0 /\ (i + 1) - 1 = i
    BY <1>2
  <2>2. f[i + 1] = 2 * f[i] /\ g[i + 1] = 2 * g[i]
    BY <2>1 DEF UpTo
  <2> QED BY <2>1, <2>2
<1> HIDE DEF S
<1>3. n \in S
  BY <1>1, <1>2, Induction
<1> QED BY <1>3 DEF S

\* There is one up to any number.
LEMMA UpToExists == \A n \in Nat : \E f : UpTo(f, n)
<1> DEFINE S == {n \in Nat : \E f : UpTo(f, n)}
<1>1. 0 \in S
  <2>1. UpTo([i \in 0 .. 0 |-> 1], 0)
    BY DEF UpTo
  <2> QED BY <2>1
<1>2. ASSUME NEW n \in Nat, n \in S
      PROVE  n + 1 \in S
  <2>1. PICK f : UpTo(f, n)
    BY <1>2
  <2> DEFINE g == [i \in 0 .. n + 1 |-> IF i = n + 1 THEN 2 * f[n] ELSE f[i]]
  <2>2. UpTo(g, n + 1)
    <3>1. g \in [0 .. n + 1 -> Nat]
      BY <2>1 DEF UpTo
    <3>2. ASSUME NEW i \in 0 .. n + 1
          PROVE  g[i] = IF i = 0 THEN 1 ELSE 2 * g[i - 1]
      <4>1. CASE i = n + 1
        BY <4>1
      <4>2. CASE i # n + 1
        BY <4>2, <2>1 DEF UpTo
      <4> QED BY <4>1, <4>2
    <3> QED BY <3>1, <3>2 DEF UpTo
  <2> QED BY <2>2
<1> HIDE DEF S
<1>3. \A n \in Nat : n \in S
  BY <1>1, <1>2, Induction
<1> QED BY <1>3 DEF S

\* The recursive function is what its definition says: with the values of the
\* functions up to each number there is a function that solves its equation.
LEMMA Pow2Def ==
  \A n \in Nat : Pow2[n] = IF n = 0 THEN 1 ELSE 2 * Pow2[n - 1]
<1> DEFINE F(n) == CHOOSE f : UpTo(f, n)
           p == [n \in Nat |-> F(n)[n]]
<1>1. \A n \in Nat : UpTo(F(n), n)
  BY UpToExists
<1>2. ASSUME NEW n \in Nat
      PROVE  F(n)[n] = IF n = 0 THEN 1 ELSE 2 * p[n - 1]
  <2> HIDE DEF F
  <2>1. CASE n = 0
    BY <1>1, <2>1 DEF UpTo
  <2>2. CASE n # 0
    <3>1. n - 1 \in Nat /\ n - 1 <= n /\ n \in 0 .. n
      BY <2>2
    <3>2. F(n - 1)[n - 1] = F(n)[n - 1]
      BY <3>1, <1>1, UpToUnique
    <3>3. F(n)[n] = 2 * F(n)[n - 1]
      BY <3>1, <1>1, <2>2 DEF UpTo
    <3> QED BY <2>2, <3>1, <3>2, <3>3
  <2> QED BY <2>1, <2>2
<1>3. p = [n \in Nat |-> IF n = 0 THEN 1 ELSE 2 * p[n - 1]]
  <2> HIDE DEF F
  <2> QED BY <1>2
<1> HIDE DEF p
<1>4. \E f : f = [n \in Nat |-> IF n = 0 THEN 1 ELSE 2 * f[n - 1]]
  BY <1>3
<1>5. Pow2 = [n \in Nat |-> IF n = 0 THEN 1 ELSE 2 * Pow2[n - 1]]
  BY <1>4 DEF Pow2
<1> QED BY <1>5

\* Powers of two are positive.
LEMMA Pow2Pos == \A n \in Nat : Pow2[n] \in Nat \ {0}
<1> DEFINE S == {n \in Nat : Pow2[n] \in Nat \ {0}}
<1>1. 0 \in S
  BY Pow2Def
<1>2. ASSUME NEW n \in Nat, n \in S
      PROVE  n + 1 \in S
  <2>1. Pow2[n + 1] = 2 * Pow2[n]
    BY Pow2Def
  <2> QED BY <1>2, <2>1
<1> HIDE DEF S
<1>3. \A n \in Nat : n \in S
  BY <1>1, <1>2, Induction
<1> QED BY <1>3 DEF S

\* The power of a sum is the product of the powers.
LEMMA Pow2Sum == \A a, b \in Nat : Pow2[a + b] = Pow2[a] * Pow2[b]
<1> SUFFICES ASSUME NEW a \in Nat PROVE \A b \in Nat : Pow2[a + b] = Pow2[a] * Pow2[b]
  OBVIOUS
<1> DEFINE S == {b \in Nat : Pow2[a + b] = Pow2[a] * Pow2[b]}
<1>1. 0 \in S
  BY Pow2Def, Pow2Pos
<1>2. ASSUME NEW b \in Nat, b \in S
      PROVE  b + 1 \in S
  <2>1. Pow2[b + 1] = 2 * Pow2[b]
    BY Pow2Def
  <2>2. Pow2[a + (b + 1)] = 2 * Pow2[a + b]
    <3>1. a + (b + 1) \in Nat /\ a + (b + 1) # 0 /\ (a + (b + 1)) - 1 = a + b
      OBVIOUS
    <3> QED BY <3>1, Pow2Def
  <2>3. Pow2[a] \in Nat /\ Pow2[b] \in Nat
    BY Pow2Pos
  <2>4. Pow2[a] * (2 * Pow2[b]) = 2 * (Pow2[a] * Pow2[b])
    BY <2>3
  <2> QED BY <1>2, <2>1, <2>2, <2>4
<1> HIDE DEF S
<1>3. \A b \in Nat : b \in S
  BY <1>1, <1>2, Induction
<1> QED BY <1>3 DEF S

\* Arithmetic of words: a block of S addresses that starts inside K blocks ends
\* inside them.
LEMMA BlockFits ==
  ASSUME NEW K \in Nat, NEW S \in Nat, S > 0, NEW x \in Nat, x < S * K
  PROVE  x - (x % S) + S <= S * K
  OBVIOUS

\* A word is its own remainder, also after a full turn below zero.
LEMMA ModWord ==
  ASSUME NEW m \in Nat, NEW x \in Nat, x < m
  PROVE  x % m = x /\ (x - m) % m = x
  OBVIOUS

-----------------------------------------------------------------------------
(* Pools *)

\* How many words there are.
AddressSpace == Pow2[Width]

\* A pool is a block of at least four words that lies within the address space.
LEMMA Block ==
  ASSUME TypeOK
  PROVE  /\ AddressSpace \in Nat /\ Size(pool) \in Nat /\ Network \in Nat
         /\ Size(pool) >= 4 /\ Network + Size(pool) <= AddressSpace
<1> DEFINE p == pool.prefix
           S == Size(pool)
<1>1. p \in Nat /\ p + 2 <= Width /\ Width \in Nat /\ pool.base \in Word
  BY IpamAssumption DEF TypeOK
<1>2. Width - p \in Nat /\ (Width - p) - 2 \in Nat
  BY <1>1
<1>3. S \in Nat \ {0} /\ Pow2[p] \in Nat \ {0} /\ AddressSpace \in Nat \ {0}
  BY <1>1, <1>2, Pow2Pos DEF Size, AddressSpace
<1>4. S >= 4
  <2> DEFINE k == (Width - p) - 2
  <2>1. Width - p = k + 2 /\ k \in Nat
    BY <1>2
  <2>2. Pow2[k + 2] = 2 * Pow2[k + 1] /\ Pow2[k + 1] = 2 * Pow2[k]
    <3>1. k + 2 \in Nat /\ k + 1 \in Nat /\ (k + 2) - 1 = k + 1 /\ (k + 1) - 1 = k /\ k + 2 # 0 /\ k + 1 # 0
      BY <2>1
    <3> HIDE DEF k
    <3> QED BY <3>1, Pow2Def
  <2>3. Pow2[k] \in Nat \ {0}
    BY <2>1, Pow2Pos
  <2>4. S = Pow2[k + 2]
    BY <2>1 DEF Size
  <2> HIDE DEF k, S
  <2> QED BY <2>2, <2>3, <2>4
<1>5. AddressSpace = S * Pow2[p]
  <2>1. (Width - p) + p = Width
    BY <1>1
  <2> QED BY <1>1, <1>2, <2>1, Pow2Sum DEF Size, AddressSpace
<1>6. pool.base \in Nat /\ pool.base < S * Pow2[p]
  BY <1>1, <1>3, <1>5 DEF Word, AddressSpace
<1> HIDE DEF S, p
<1>7. Network = pool.base - (pool.base % S)
  BY DEF Network, S
<1>8. Network + S <= S * Pow2[p]
  <2> DEFINE K == Pow2[p]
             x == pool.base
  <2>1. K \in Nat /\ S \in Nat /\ S > 0 /\ x \in Nat /\ x < S * K
    BY <1>3, <1>6
  <2> HIDE DEF K, x
  <2>2. x - (x % S) + S <= S * K
    BY <2>1, BlockFits
  <2> QED BY <2>2, <1>7 DEF K, x
<1>9. Network \in Nat
  BY <1>3, <1>6, <1>7
<1> QED BY <1>3, <1>4, <1>5, <1>8, <1>9 DEF S

\* The range of a pool below the sign bit is its hosts; above, it is as far below
\* zero as the hosts are below the end of the address space.
LEMMA Range ==
  ASSUME TypeOK
  PROVE  /\ Masked(pool) = IF LowPool THEN Network ELSE Network - AddressSpace
         /\ PoolRange(pool).first = Masked(pool) + 2
         /\ PoolRange(pool).last = Masked(pool) + Size(pool) - 2
<1>1. AddressSpace \in Nat /\ Size(pool) >= 4 /\ Network \in Nat /\ Network + Size(pool) <= AddressSpace /\ Size(pool) \in Nat
  BY Block
<1>2. Network % AddressSpace = Network
  <2>1. Network < AddressSpace
    BY <1>1
  <2> QED BY <1>1, <2>1, ModWord
<1>3. Masked(pool) = IF LowPool THEN Network ELSE Network - AddressSpace
  BY <1>2 DEF Masked, ToInt32, LowPool, Network, AddressSpace
<1> QED BY <1>3 DEF PoolRange

\* Every number of the range is handed out as a host.
LEMMA HandsOut ==
  ASSUME TypeOK, NEW n \in PoolRange(pool).first .. PoolRange(pool).last
  PROVE  IntToIp(n) = (IF LowPool THEN n ELSE n + AddressSpace) /\ IntToIp(n) \in Hosts /\ IntToIp(n) \in Word
<1>1. AddressSpace \in Nat /\ Size(pool) >= 4 /\ Network \in Nat /\ Network + Size(pool) <= AddressSpace /\ Size(pool) \in Nat
  BY Block
<1> DEFINE ip == IF LowPool THEN n ELSE n + AddressSpace
<1>2. ip \in Network + 2 .. Network + Size(pool) - 2
  BY <1>1, Range
<1>3. ip \in Nat /\ ip < AddressSpace
  BY <1>1, <1>2
<1>4. n = IF LowPool THEN ip ELSE ip - AddressSpace
  BY <1>1, Range
<1> HIDE DEF ip
<1>5. n % AddressSpace = ip
  BY <1>1, <1>3, <1>4, ModWord
<1> QED BY <1>1, <1>2, <1>3, <1>5 DEF IntToIp, Hosts, Word, AddressSpace, ip

-----------------------------------------------------------------------------
(* The allocator *)

\* What the allocations and the pool are like in every state: hosts of the pool,
\* and, in a pool below the sign bit, no failure before it is full.
IInv == TypeOK /\ HandsOutHosts /\ LowPoolsFill

\* The candidates of a pool below the sign bit are its free hosts; above it no
\* number of the range is ever found among the unsigned ones.
LEMMA CandidatesOf ==
  ASSUME TypeOK
  PROVE  /\ LowPool => Candidates = Hosts \ Taken
         /\ ~LowPool => Candidates = PoolRange(pool).first .. PoolRange(pool).last
<1>1. /\ AddressSpace \in Nat /\ Size(pool) >= 4 /\ Network \in Nat /\ Size(pool) \in Nat
      /\ Network + Size(pool) <= AddressSpace
  BY Block
<1>2. Taken \subseteq Nat
  BY DEF Taken, TypeOK, Word
<1>3. CASE LowPool
  BY <1>1, <1>3, Range DEF Candidates, Hosts
<1>4. CASE ~LowPool
  <2>1. \A n \in PoolRange(pool).first .. PoolRange(pool).last : n \notin Nat
    BY <1>1, <1>4, Range
  <2> QED BY <1>2, <1>4, <2>1 DEF Candidates
<1> QED BY <1>3, <1>4

\* One allocation: the hosts stay hosts, the lowest free one is taken, and a low
\* pool refuses nobody while it has room.
LEMMA AllocateStep ==
  ASSUME IInv, NEW c \in Configs, Allocate(c)
  PROVE  /\ IInv'
         /\ allocation' = allocation \/ \E n \in Hosts :
              /\ allocation' = [allocation EXCEPT ![c] = n]
              /\ \A ip \in Hosts \ Taken : n <= ip
<1> USE DEF IInv
<1>1. /\ AddressSpace \in Nat /\ Size(pool) >= 4 /\ Network \in Nat /\ Size(pool) \in Nat
      /\ Network + Size(pool) <= AddressSpace
  BY Block
<1>2. UNCHANGED <<pool, Hosts, LowPool>>
  BY DEF Allocate, Hosts, LowPool, Network, Size
<1>3. CASE Candidates = {} /\ outcome' = "exhausted" /\ UNCHANGED allocation
  <2>1. LowPool => Hosts \subseteq Taken
    BY <1>3, CandidatesOf
  <2>2. Taken' = Taken
    BY <1>3 DEF Taken
  <2> QED BY <1>2, <1>3, <2>1, <2>2 DEF TypeOK, HandsOutHosts, LowPoolsFill, FailsOnlyWhenFull
<1>4. ASSUME NEW n \in Candidates, \A other \in Candidates : n <= other,
             IF IntToIp(n) \in Taken
             THEN outcome' = "rejected" /\ UNCHANGED allocation
             ELSE outcome' = "ok" /\ allocation' = [allocation EXCEPT ![c] = IntToIp(n)]
      PROVE  /\ IInv'
             /\ allocation' = allocation \/ \E m \in Hosts :
                  /\ allocation' = [allocation EXCEPT ![c] = m]
                  /\ \A ip \in Hosts \ Taken : m <= ip
  <2>1. n \in PoolRange(pool).first .. PoolRange(pool).last
    BY DEF Candidates
  <2>2. IntToIp(n) \in Hosts /\ IntToIp(n) \in Word /\ IntToIp(n) = (IF LowPool THEN n ELSE n + AddressSpace)
    BY <2>1, HandsOut
  <2>3. CASE IntToIp(n) \in Taken
    <3>1. ~LowPool
      BY <2>2, <2>3, CandidatesOf
    <3>2. outcome' = "rejected" /\ allocation' = allocation /\ Taken' = Taken
      BY <1>4, <2>3 DEF Taken
    <3> QED BY <1>2, <3>1, <3>2 DEF TypeOK, HandsOutHosts, LowPoolsFill
  <2>4. CASE IntToIp(n) \notin Taken
    <3>1. outcome' = "ok" /\ allocation' = [allocation EXCEPT ![c] = IntToIp(n)]
      BY <1>4, <2>4
    <3>2. Taken' \subseteq Taken \cup {IntToIp(n)}
      BY <3>1 DEF Taken, TypeOK
    <3>3. \A ip \in Hosts \ Taken : IntToIp(n) <= ip
      <4>1. CASE LowPool
        BY <1>4, <2>2, <4>1, CandidatesOf
      <4>2. CASE ~LowPool
        <5>1. n <= PoolRange(pool).first
          BY <1>1, <1>4, <4>2, Range, CandidatesOf
        <5>2. n = (Network - AddressSpace) + 2
          BY <1>1, <2>1, <4>2, <5>1, Range
        <5>3. IntToIp(n) = Network + 2
          BY <1>1, <2>2, <4>2, <5>2
        <5> QED BY <1>1, <5>3 DEF Hosts
      <4> QED BY <4>1, <4>2
    <3>4. allocation' \in [Configs -> Word \cup {None}]
      BY <2>2, <3>1 DEF TypeOK
    <3>5. TypeOK' /\ HandsOutHosts' /\ LowPoolsFill'
      BY <1>2, <2>2, <3>1, <3>2, <3>4 DEF TypeOK, HandsOutHosts, LowPoolsFill, FailsOnlyWhenFull
    <3> QED BY <2>2, <3>1, <3>3, <3>5
  <2> QED BY <2>3, <2>4
<1> QED BY <1>3, <1>4 DEF Allocate

\* One release: there are fewer live addresses, and no failure to explain.
LEMMA ReleaseStep ==
  ASSUME IInv, NEW c \in Configs, Release(c)
  PROVE  IInv' /\ allocation' = [allocation EXCEPT ![c] = None]
<1>1. UNCHANGED <<pool, Hosts, LowPool>>
  BY DEF Release, Hosts, LowPool, Network, Size
<1>2. allocation' = [allocation EXCEPT ![c] = None] /\ outcome' = "none"
  BY DEF Release
<1>3. Taken' \subseteq Taken
  BY <1>2 DEF Taken, IInv, TypeOK
<1> QED BY <1>1, <1>2, <1>3 DEF IInv, TypeOK, HandsOutHosts, LowPoolsFill, FailsOnlyWhenFull

-----------------------------------------------------------------------------
(* The theorems *)

\* The lowest free host is taken.
LowestTaken ==
  \A c \in Configs : allocation[c] = None /\ allocation'[c] # None =>
    \A ip \in Hosts \ Taken : allocation'[c] <= ip

\* Every step keeps the invariant and takes the lowest free host, if any.
LEMMA Step == IInv /\ [Next]_vars => IInv' /\ [LowestTaken]_vars
<1> SUFFICES ASSUME IInv, [Next]_vars PROVE IInv' /\ LowestTaken
  OBVIOUS
<1>0. allocation \in [Configs -> Word \cup {None}]
  BY DEF IInv, TypeOK
<1>1. ASSUME NEW c \in Configs, Allocate(c)
      PROVE  IInv' /\ LowestTaken
  BY <1>0, <1>1, AllocateStep DEF LowestTaken
<1>2. ASSUME NEW c \in Configs, Release(c)
      PROVE  IInv' /\ LowestTaken
  BY <1>0, <1>2, ReleaseStep DEF LowestTaken
<1>3. CASE UNCHANGED vars
  <2>1. UNCHANGED <<pool, allocation, outcome, Taken, Hosts, LowPool>>
    BY <1>3 DEF vars, Taken, Hosts, LowPool, Network, Size
  <2> QED BY <2>1 DEF IInv, TypeOK, HandsOutHosts, LowPoolsFill, FailsOnlyWhenFull, LowestTaken
<1> QED BY <1>1, <1>2, <1>3 DEF Next

\* A node starts without allocations.
LEMMA InitInv == Init => IInv
<1> SUFFICES ASSUME Init PROVE IInv
  OBVIOUS
<1>1. TypeOK /\ Taken = {}
  BY DEF Init, TypeOK, Taken
<1> QED BY <1>1 DEF Init, IInv, HandsOutHosts, LowPoolsFill, FailsOnlyWhenFull

\* What is stored is an address, never a negative number, in pools anywhere in
\* the address space (ipam.ts intToIp).
THEOREM TypeCorrect == Spec => []TypeOK
<1>1. IInv => TypeOK
  BY DEF IInv
<1> QED BY InitInv, Step, <1>1, PTL DEF Spec

\* Wherever the pool lies, a client gets one of its client addresses: never the
\* network, the node's own or the broadcast address, nor one of another pool
\* (ipam.ts poolRange, allocateIp).
THEOREM OnlyHosts == Spec => []HandsOutHosts
<1>1. IInv => HandsOutHosts
  BY DEF IInv
<1> QED BY InitInv, Step, <1>1, PTL DEF Spec

\* A pool below 128.0.0.0 is used up to its last address (ipam.ts allocateIp).
THEOREM FillsLowPools == Spec => []LowPoolsFill
<1>1. IInv => LowPoolsFill
  BY DEF IInv
<1> QED BY InitInv, Step, <1>1, PTL DEF Spec

\* An allocation takes the lowest free address, wherever the pool lies: above
\* the sign bit it is the first or nothing (ipam.ts allocateIp).
THEOREM TakesLowest == Spec => LowestFree
<1>1. [LowestTaken]_vars
        => [\A c \in Configs : allocation[c] = None /\ allocation'[c] # None =>
              \A ip \in Hosts \ Taken : allocation'[c] <= ip]_vars
  BY DEF LowestTaken
<1> QED BY InitInv, Step, <1>1, PTL DEF Spec, LowestFree

\* A pool below 128.0.0.0 accepts the interfaces that lie in it, and no others
\* (ipam.ts poolContains).
THEOREM AcceptsInLowPools == Spec => []LowPoolsAccept
<1>1. ASSUME TypeOK PROVE LowPoolsAccept
  <2>1. /\ AddressSpace \in Nat /\ Size(pool) >= 4 /\ Network \in Nat /\ Size(pool) \in Nat
        /\ Network + Size(pool) <= AddressSpace
    BY <1>1, Block
  <2> SUFFICES ASSUME LowPool, NEW ip \in Word
               PROVE  PoolContains(pool, ip) <=> ip \in Network + 1 .. Network + Size(pool) - 1
    BY DEF LowPoolsAccept, AcceptsItsOwn
  <2>2. PoolRange(pool).first = Network + 2 /\ PoolRange(pool).last = Network + Size(pool) - 2
    BY <1>1, Range
  <2>3. ip \in Nat
    BY DEF Word
  <2> QED BY <2>1, <2>2, <2>3 DEF PoolContains
<1> QED BY TypeCorrect, <1>1, PTL

=============================================================================
