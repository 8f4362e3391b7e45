------------------------------- MODULE Ipam -------------------------------
(***************************************************************************)
(* The address arithmetic of src/server/ipam.ts: the pool of one node, the *)
(* scan for the lowest free address, and the check that an adopted         *)
(* interface lies in the pool.  JavaScript's & yields a signed word, so    *)
(* the bounds of a pool in the upper half of the address space are         *)
(* negative numbers; addresses read back from the database never are.      *)
(*                                                                         *)
(* Calls are sequential here: how two of them race is in Lifecycle.        *)
(***************************************************************************)
EXTENDS Integers, FiniteSets

CONSTANTS
  Width,      \* bits of an address, 32 in the code
  Prefixes,   \* prefix lengths poolRange supports, 8 .. 30 in the code
  Bases,      \* the addresses an admin may type before the slash
  Configs,    \* config rows; their number bounds the live allocations
  None

\* 2 ** n, as a recursive function.
Pow2[n \in Nat] == IF n = 0 THEN 1 ELSE 2 * Pow2[n - 1]

Word == 0 .. Pow2[Width] - 1

ASSUME IpamAssumption ==
  /\ Width \in Nat
  /\ Bases \subseteq Word
  /\ \A p \in Prefixes : p \in Nat /\ p + 2 <= Width
  /\ None \notin Word

VARIABLES
  pool,         \* the node's cidr_pool
  allocation,   \* the live address of each config
  outcome       \* how the last call ended

vars == <<pool, allocation, outcome>>

-----------------------------------------------------------------------------
\* The result of JavaScript's bitwise operators.
ToInt32(n) == IF n % Pow2[Width] < Pow2[Width - 1] THEN n % Pow2[Width]
              ELSE (n % Pow2[Width]) - Pow2[Width]

\* (mutant) intToIp shifts with >>, which keeps the sign.
IntToIpSigned(n) == n

\* intToIp shifts with >>>, which reads a negative number as an unsigned word.
IntToIp(n) == n % Pow2[Width]

Size(cidr) == Pow2[Width - cidr.prefix]

\* The base with its host bits cleared, as the signed number & makes of it.
Masked(cidr) == ToInt32(cidr.base - (cidr.base % Size(cidr)))

\* (mutant) the range starts at the node's own address.
PoolRangeFromGateway(cidr) ==
  [first |-> Masked(cidr) + 1, last |-> Masked(cidr) + Size(cidr) - 2]

\* network, broadcast and the node's own first host are left out.
PoolRange(cidr) ==
  [first |-> Masked(cidr) + 2, last |-> Masked(cidr) + Size(cidr) - 2]

Taken == {allocation[c] : c \in Configs} \ {None}

\* (mutant) the scan starts after the highest live address.
CandidatesAfterLast ==
  {n \in PoolRange(pool).first .. PoolRange(pool).last : \A ip \in Taken : ip < n}

\* What the scan does not skip: candidates are compared as the numbers they are
\* with the unsigned numbers of the rows.
Candidates == (PoolRange(pool).first .. PoolRange(pool).last) \ Taken

\* (mutant) the network address counts as inside.
PoolContainsOff(cidr, ip) == ip >= PoolRange(cidr).first - 2 /\ ip <= PoolRange(cidr).last + 1

PoolContains(cidr, ip) == ip >= PoolRange(cidr).first - 1 /\ ip <= PoolRange(cidr).last + 1

-----------------------------------------------------------------------------
Init ==
  /\ pool \in [base: Bases, prefix: Prefixes]
  /\ allocation = [c \in Configs |-> None]
  /\ outcome = "none"

\* allocateIp: the lowest candidate is inserted, and the partial unique index on
\* live addresses has the last word.
Allocate(c) ==
  /\ allocation[c] = None
  /\ \/ /\ Candidates = {}
        /\ outcome' = "exhausted"
        /\ UNCHANGED allocation
     \/ \E n \in Candidates :
          /\ \A other \in Candidates : n <= other
          /\ IF IntToIp(n) \in Taken
             THEN outcome' = "rejected" /\ UNCHANGED allocation
             ELSE /\ outcome' = "ok"
                  /\ allocation' = [allocation EXCEPT ![c] = IntToIp(n)]
  /\ UNCHANGED pool

\* releaseIp.
Release(c) ==
  /\ allocation[c] # None
  /\ allocation' = [allocation EXCEPT ![c] = None]
  /\ outcome' = "none"
  /\ UNCHANGED pool

Next == \E c \in Configs : Allocate(c) \/ Release(c)

Spec == Init /\ [][Next]_vars

-----------------------------------------------------------------------------
(* Properties, against unsigned arithmetic *)

\* Every variable keeps its shape; what is stored is an address, never a negative
\* number.
TypeOK ==
  /\ pool \in [base: Bases, prefix: Prefixes]
  /\ allocation \in [Configs -> Word \cup {None}]
  /\ outcome \in {"none", "ok", "exhausted", "rejected"}

Network == pool.base - (pool.base % Size(pool))

\* The addresses a client may get: all but the network, the node's own first
\* host and the broadcast address.
Hosts == Network + 2 .. Network + Size(pool) - 2

\* Whatever half of the address space the pool lies in, an address handed out is
\* a client address of the pool (ipam.ts poolRange and intToIp).
HandsOutHosts == Taken \subseteq Hosts

\* An allocation fails only when every client address is taken: alone, a
\* generate on a pool with room succeeds (ipam.ts allocateIp).
FailsOnlyWhenFull == outcome \in {"exhausted", "rejected"} => Hosts \subseteq Taken

\* An address that was given back is used again before a higher one is
\* (ipam.ts allocateIp: lowest free address on the node).
LowestFree ==
  [][\A c \in Configs : allocation[c] = None /\ allocation'[c] # None =>
       \A ip \in Hosts \ Taken : allocation'[c] <= ip]_vars

\* An interface is accepted exactly when its address is one of the pool's beyond
\* the network address (ipam.ts poolContains, which enrollNode asks).
AcceptsItsOwn ==
  \A ip \in Word : PoolContains(pool, ip) <=> ip \in Network + 1 .. Network + Size(pool) - 1

\* The pool lies below 128.0.0.0, where & yields no negative number.
LowPool == Network < Pow2[Width - 1]

\* In such a pool the allocator finds every free address (ipam.ts allocateIp).
LowPoolsFill == LowPool => FailsOnlyWhenFull

\* In such a pool an adopted interface is judged by its address (poolContains).
LowPoolsAccept == LowPool => AcceptsItsOwn

=============================================================================
