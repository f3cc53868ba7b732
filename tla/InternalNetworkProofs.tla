----------------------- MODULE InternalNetworkProofs -----------------------
(***************************************************************************)
(* The invariants of InternalNetwork, for any number of machines,          *)
(* functions, addresses, workers and resolvers.                            *)
(***************************************************************************)
EXTENDS InternalNetwork, FiniteSetTheorems, SequenceTheorems, TLAPS

-----------------------------------------------------------------------------
(* Lists of addresses. *)

(* More elements of a set of numbers are up to the larger of two of them.  *)
LEMMA UpToGrows ==
  ASSUME NEW S \in SUBSET Nat, IsFiniteSet(S), NEW a \in S, NEW b \in S, a < b
  PROVE  Cardinality({j \in S : j <= a}) < Cardinality({j \in S : j <= b})
<1> DEFINE A == {j \in S : j <= a}
           B == {j \in S : j <= b}
<1>1. a \in Nat /\ b \in Nat OBVIOUS
<1>2. ASSUME NEW j \in A PROVE j \in B
  <2>1. j \in Nat OBVIOUS
  <2> QED BY <1>1, <2>1
<1>3. b \in B /\ b \notin A BY <1>1
<1>4. A \in SUBSET B /\ A # B /\ B \in SUBSET S BY <1>2, <1>3
<1> HIDE DEF A, B
<1>5. IsFiniteSet(B) BY <1>4, FS_Subset
<1>6. IsFiniteSet(A) /\ Cardinality(A) <= Cardinality(B) /\ Cardinality(A) # Cardinality(B)
  BY <1>4, <1>5, FS_Subset
<1>7. Cardinality(A) \in Nat /\ Cardinality(B) \in Nat BY <1>5, <1>6, FS_CardinalityType
<1> QED BY <1>6, <1>7 DEF A, B

(* The n-th element of a finite set of numbers is there: counting the      *)
(* elements up to each is an injection of the set into 1..Cardinality(S),  *)
(* and so onto it.                                                         *)
LEMMA NthPlace ==
  ASSUME NEW S \in SUBSET Nat, IsFiniteSet(S), NEW n \in 1..Cardinality(S)
  PROVE  Nth(S, n) \in S /\ Cardinality({j \in S : j <= Nth(S, n)}) = n
<1> DEFINE upTo(k) == {j \in S : j <= k}
           rank == [k \in S |-> Cardinality(upTo(k))]
<1>1. Cardinality(S) \in Nat BY FS_CardinalityType
<1>2. \A k \in S : IsFiniteSet(upTo(k)) /\ Cardinality(upTo(k)) \in 1..Cardinality(S)
  <2>1. TAKE k \in S
  <2>2. upTo(k) \in SUBSET S /\ k \in upTo(k) OBVIOUS
  <2>3. IsFiniteSet(upTo(k)) /\ Cardinality(upTo(k)) <= Cardinality(S) BY <2>2, FS_Subset
  <2>4. Cardinality(upTo(k)) \in Nat /\ Cardinality(upTo(k)) # 0
    BY <2>2, <2>3, FS_CardinalityType, FS_EmptySet
  <2> QED BY <1>1, <2>3, <2>4
<1>3. \A j, k \in S : j < k => rank[j] < rank[k] BY UpToGrows
<1>4. rank \in Injection(S, 1..Cardinality(S))
  <2>1. rank \in [S -> 1..Cardinality(S)] BY <1>2
  <2>2. \A j, k \in S : rank[j] = rank[k] => j = k
    <3>1. TAKE j, k \in S
    <3>2. HAVE rank[j] = rank[k]
    <3>3. rank[j] \in Nat /\ rank[k] \in Nat BY <2>1
    <3>4. ~(j < k) /\ ~(k < j) BY <1>3, <3>2, <3>3
    <3> QED BY <3>4
  <2> QED BY <2>1, <2>2 DEF Injection, IsInjective
<1>5. IsFiniteSet(1..Cardinality(S)) /\ Cardinality(1..Cardinality(S)) = Cardinality(S)
  BY <1>1, FS_Interval
<1>6. rank \in Surjection(S, 1..Cardinality(S)) BY <1>4, <1>5, FS_Injection
<1>7. \E k \in S : rank[k] = n BY <1>6 DEF Surjection
<1>8. \E k \in S : Cardinality({j \in S : j <= k}) = n BY <1>7
<1> QED BY <1>8 DEF Nth

(* What a copy keeps is a list of the other addresses, no longer than its  *)
(* source; no address gets into it twice that is in its source once.       *)
LEMMA WithoutProperties ==
  ASSUME NEW T, NEW ips \in Seq(T), NEW i
  PROVE  /\ Without(ips, i) \in Seq(T)
         /\ Len(Without(ips, i)) = Cardinality(Places(ips, i))
         /\ \A n \in 1..Len(Without(ips, i)) :
              \E k \in 1..Len(ips) : ips[k] # i /\ Without(ips, i)[n] = ips[k]
         /\ \A k \in 1..Len(ips) :
              ips[k] # i => \E n \in 1..Len(Without(ips, i)) : Without(ips, i)[n] = ips[k]
         /\ (\A j, k \in 1..Len(ips) : ips[j] = ips[k] => j = k) =>
              \A m, n \in 1..Len(Without(ips, i)) :
                Without(ips, i)[m] = Without(ips, i)[n] => m = n
<1> DEFINE P == Places(ips, i)
           at(n) == Nth(P, n)
           kept == Without(ips, i)
<1>1. Len(ips) \in Nat /\ ips \in [1..Len(ips) -> T] BY LenProperties
<1>2. P \in SUBSET (1..Len(ips)) /\ P \in SUBSET Nat BY <1>1 DEF Places
<1>3. IsFiniteSet(P) /\ Cardinality(P) \in Nat
  <2>1. IsFiniteSet(1..Len(ips)) BY <1>1, FS_Interval
  <2>2. IsFiniteSet(P) BY <1>2, <2>1, FS_Subset
  <2> QED BY <2>2, FS_CardinalityType
<1>4. \A n \in 1..Cardinality(P) :
        at(n) \in P /\ Cardinality({j \in P : j <= at(n)}) = n
  BY <1>2, <1>3, NthPlace
<1>5. kept = [n \in 1..Cardinality(P) |-> ips[at(n)]] BY DEF Without
<1> HIDE DEF P, at, kept
<1>6. \A n \in 1..Cardinality(P) : kept[n] = ips[at(n)] /\ ips[at(n)] \in T
  BY <1>1, <1>2, <1>4, <1>5
<1>7. kept \in [1..Cardinality(P) -> T] BY <1>5, <1>6
<1>8. kept \in Seq(T) BY <1>3, <1>7, SeqDef
<1>9. Len(kept) = Cardinality(P)
  <2>1. DOMAIN kept = 1..Len(kept) /\ Len(kept) \in Nat BY <1>8, LenProperties
  <2>2. DOMAIN kept = 1..Cardinality(P) BY <1>7
  <2> QED BY <1>3, <2>1, <2>2
<1>10. \A k \in P : \E n \in 1..Cardinality(P) : at(n) = k
  <2>1. TAKE k \in P
  <2> DEFINE n == Cardinality({j \in P : j <= k})
  <2>2. n \in 1..Cardinality(P)
    <3>1. {j \in P : j <= k} \in SUBSET P /\ k \in {j \in P : j <= k} BY <1>2
    <3>2. IsFiniteSet({j \in P : j <= k}) /\ n <= Cardinality(P) BY <1>3, <3>1, FS_Subset
    <3>3. n \in Nat /\ n # 0 BY <3>1, <3>2, FS_CardinalityType, FS_EmptySet
    <3> QED BY <1>3, <3>2, <3>3
  <2>3. Cardinality({j \in P : j <= at(n)}) = n /\ at(n) \in P BY <1>4, <2>2
  <2>4. \A l \in P : k < l => n < Cardinality({j \in P : j <= l}) BY <1>2, <1>3, UpToGrows
  <2>5. \A l \in P : l < k => Cardinality({j \in P : j <= l}) < n BY <1>2, <1>3, UpToGrows
  <2>6. k \in Nat /\ at(n) \in Nat BY <1>2, <2>3
  <2>7. n \in Nat BY <2>2
  <2> HIDE DEF n
  <2>8. ~(k < at(n)) BY <2>3, <2>4, <2>7
  <2>9. ~(at(n) < k) BY <2>3, <2>5, <2>7
  <2> QED BY <2>2, <2>6, <2>8, <2>9
<1>11. \A k \in P : k \in 1..Len(ips) /\ ips[k] # i BY DEF P, Places
<1>12. \A k \in 1..Len(ips) : ips[k] # i => k \in P BY DEF P, Places
<1>13. \A m, n \in 1..Cardinality(P) : at(m) = at(n) => m = n BY <1>4
<1>14. ASSUME NEW k \in 1..Len(ips), ips[k] # i
       PROVE  \E n \in 1..Cardinality(P) : kept[n] = ips[k]
  BY <1>6, <1>10, <1>12, <1>14
<1>15. ASSUME \A j, k \in 1..Len(ips) : ips[j] = ips[k] => j = k,
              NEW m \in 1..Cardinality(P), NEW n \in 1..Cardinality(P), kept[m] = kept[n]
       PROVE  m = n
  <2>1. ips[at(m)] = ips[at(n)] BY <1>6, <1>15
  <2>2. at(m) \in 1..Len(ips) /\ at(n) \in 1..Len(ips) BY <1>4, <1>11
  <2> QED BY <1>13, <1>15, <2>1, <2>2
<1>16. \A n \in 1..Cardinality(P) : \E k \in 1..Len(ips) : ips[k] # i /\ kept[n] = ips[k]
  BY <1>4, <1>6, <1>11
<1>17. /\ kept \in Seq(T)
       /\ Len(kept) = Cardinality(P)
       /\ \A n \in 1..Len(kept) : \E k \in 1..Len(ips) : ips[k] # i /\ kept[n] = ips[k]
       /\ \A k \in 1..Len(ips) : ips[k] # i => \E n \in 1..Len(kept) : kept[n] = ips[k]
       /\ (\A j, k \in 1..Len(ips) : ips[j] = ips[k] => j = k) =>
            \A m, n \in 1..Len(kept) : kept[m] = kept[n] => m = n
  BY <1>8, <1>9, <1>14, <1>15, <1>16
<1> QED BY <1>17 DEF P, kept

(* Without an address that is not there, nothing is left out. *)
LEMMA NothingToRemove ==
  ASSUME NEW T, NEW ips \in Seq(T), NEW i, \A k \in 1..Len(ips) : ips[k] # i
  PROVE  Len(Without(ips, i)) = Len(ips)
<1>1. Places(ips, i) = 1..Len(ips) BY DEF Places
<1>2. Len(ips) \in Nat BY LenProperties
<1>3. Cardinality(1..Len(ips)) = Len(ips) BY <1>2, FS_Interval
<1> QED BY <1>1, <1>3, WithoutProperties

(* An address that is there once is the only one left out. *)
LEMMA OneToRemove ==
  ASSUME NEW T, NEW ips \in Seq(T), NEW p \in 1..Len(ips),
         \A j, k \in 1..Len(ips) : ips[j] = ips[k] => j = k
  PROVE  Len(Without(ips, ips[p])) = Len(ips) - 1
<1>1. Places(ips, ips[p]) = (1..Len(ips)) \ {p} BY DEF Places
<1>2. Len(ips) \in Nat BY LenProperties
<1>3. IsFiniteSet(1..Len(ips)) /\ Cardinality(1..Len(ips)) = Len(ips) BY <1>2, FS_Interval
<1>4. Cardinality((1..Len(ips)) \ {p}) = Len(ips) - 1 BY <1>3, FS_RemoveElement
<1>5. Len(Without(ips, ips[p])) = Cardinality(Places(ips, ips[p])) BY WithoutProperties
<1> QED BY <1>1, <1>4, <1>5

(* The rest of the new slice holds empty strings. *)
LEMMA Padded ==
  ASSUME NEW T, NEW ips \in Seq(T), Blank \in T, NEW n \in Nat
  PROVE  /\ ips \o [k \in 1..n |-> Blank] \in Seq(T)
         /\ n = 0 => ips \o [k \in 1..n |-> Blank] = ips
<1> DEFINE pad == [k \in 1..n |-> Blank]
<1>1. pad \in [1..n -> T] OBVIOUS
<1>2. pad \in Seq(T) BY <1>1, SeqDef
<1>3. n = 0 => pad = <<>>
  <2>1. DOMAIN pad = 1..Len(pad) /\ Len(pad) \in Nat BY <1>2, LenProperties
  <2>2. DOMAIN pad = 1..n OBVIOUS
  <2>3. n = 0 => Len(pad) = 0
    <3> HIDE DEF pad
    <3> QED BY <2>1, <2>2
  <2> HIDE DEF pad
  <2> QED BY <1>2, <2>3, EmptySeq
<1> HIDE DEF pad
<1>4. ips \o pad \in Seq(T) /\ (pad = <<>> => ips \o pad = ips)
  BY <1>2, ConcatProperties, ConcatEmptySeq
<1> QED BY <1>3, <1>4 DEF pad

LEMMA ListsEmpty ==
  Lists(<<>>, {})
<1>1. Len(<<>>) = 0 /\ Cardinality({}) = 0 BY FS_EmptySet, EmptySeq
<1>2. 1..0 = {} OBVIOUS
<1> QED BY <1>1, <1>2 DEF Lists

(* Appending another address lists that address too. *)
LEMMA ListsAppend ==
  ASSUME NEW T, NEW ips \in Seq(T), NEW A, IsFiniteSet(A), NEW i \in T, i \notin A, Lists(ips, A)
  PROVE  /\ Lists(Append(ips, i), A \cup {i})
         /\ Cardinality(A \cup {i}) = Cardinality(A) + 1
<1> DEFINE new == Append(ips, i)
<1>1. /\ Len(ips) \in Nat
      /\ Len(new) = Len(ips) + 1
      /\ \A k \in 1..Len(ips) : new[k] = ips[k]
      /\ new[Len(ips) + 1] = i
  BY LenProperties, AppendProperties
<1> HIDE DEF new
<1>2. Cardinality(A \cup {i}) = Cardinality(A) + 1 BY FS_AddElement
<1>3. /\ Len(ips) = Cardinality(A)
      /\ {ips[k] : k \in 1..Len(ips)} = A
      /\ \A j, k \in 1..Len(ips) : ips[j] = ips[k] => j = k
  BY DEF Lists
<1>4. Len(new) = Cardinality(A \cup {i}) BY <1>1, <1>2, <1>3
<1>5. \A k \in 1..Len(new) : k \in 1..Len(ips) \/ k = Len(ips) + 1 BY <1>1
<1>6. \A k \in 1..Len(ips) : k \in 1..Len(new) BY <1>1
<1>7. Len(ips) + 1 \in 1..Len(new) BY <1>1
<1>8. {new[k] : k \in 1..Len(new)} = A \cup {i}
  <2>1. ASSUME NEW k \in 1..Len(new) PROVE new[k] \in A \cup {i} BY <1>1, <1>3, <1>5
  <2>2. ASSUME NEW a \in A \cup {i} PROVE \E k \in 1..Len(new) : new[k] = a
    <3>1. CASE a = i BY <1>1, <1>7, <3>1
    <3>2. CASE a \in A
      <4>1. PICK k \in 1..Len(ips) : ips[k] = a BY <1>3, <3>2
      <4> QED BY <1>1, <1>6, <4>1
    <3> QED BY <3>1, <3>2
  <2> QED BY <2>1, <2>2
<1>9. \A k \in 1..Len(ips) : ips[k] # i BY <1>3
<1>10. ASSUME NEW j \in 1..Len(new), NEW k \in 1..Len(new), new[j] = new[k] PROVE j = k
  BY <1>1, <1>3, <1>5, <1>9, <1>10
<1> QED BY <1>2, <1>4, <1>8, <1>10 DEF Lists, new

(* Leaving out an address takes it off the list. *)
LEMMA ListsWithout ==
  ASSUME NEW T, NEW ips \in Seq(T), NEW A, IsFiniteSet(A), NEW i \in A, Lists(ips, A)
  PROVE  /\ Lists(Without(ips, i), A \ {i})
         /\ Len(Without(ips, i)) = Len(ips) - 1
         /\ Cardinality(A \ {i}) = Cardinality(A) - 1
<1> DEFINE new == Without(ips, i)
<1>1. Cardinality(A \ {i}) = Cardinality(A) - 1 BY FS_RemoveElement
<1>2. /\ Len(ips) = Cardinality(A)
      /\ {ips[k] : k \in 1..Len(ips)} = A
      /\ \A j, k \in 1..Len(ips) : ips[j] = ips[k] => j = k
  BY DEF Lists
<1>3. PICK p \in 1..Len(ips) : ips[p] = i BY <1>2
<1>4. Len(Without(ips, ips[p])) = Len(ips) - 1 BY <1>2, OneToRemove
<1>5. Len(new) = Len(ips) - 1 BY <1>3, <1>4
<1>6. /\ \A n \in 1..Len(new) : \E k \in 1..Len(ips) : ips[k] # i /\ new[n] = ips[k]
      /\ \A k \in 1..Len(ips) : ips[k] # i => \E n \in 1..Len(new) : new[n] = ips[k]
      /\ \A j, k \in 1..Len(new) : new[j] = new[k] => j = k
  <2>1. \A n \in 1..Len(new) : \E k \in 1..Len(ips) : ips[k] # i /\ new[n] = ips[k]
    BY WithoutProperties
  <2>2. \A k \in 1..Len(ips) : ips[k] # i => \E n \in 1..Len(new) : new[n] = ips[k]
    BY WithoutProperties
  <2>3. \A j, k \in 1..Len(ips) : ips[j] = ips[k] => j = k BY <1>2
  <2>4. \A j, k \in 1..Len(new) : new[j] = new[k] => j = k BY <2>3, WithoutProperties
  <2> QED BY <2>1, <2>2, <2>4
<1> HIDE DEF new
<1>7. {new[k] : k \in 1..Len(new)} = A \ {i}
  <2>1. ASSUME NEW k \in 1..Len(new) PROVE new[k] \in A \ {i} BY <1>2, <1>6
  <2>2. ASSUME NEW a \in A \ {i} PROVE \E k \in 1..Len(new) : new[k] = a
    <3>1. PICK k \in 1..Len(ips) : ips[k] = a BY <1>2
    <3> QED BY <1>6, <3>1
  <2> QED BY <2>1, <2>2
<1>8. Len(new) = Cardinality(A \ {i}) BY <1>1, <1>2, <1>5
<1>9. Lists(new, A \ {i}) BY <1>6, <1>7, <1>8 DEF Lists
<1> QED BY <1>1, <1>5, <1>9 DEF new

-----------------------------------------------------------------------------
(* Types. *)

LEMMA Wraps ==
  ASSUME NEW n \in Nat
  PROVE  n % CountWrap \in 0..(CountWrap - 1)
BY CountWrapNat

(* A load balancer keeps its type when one of its fields is written. *)
LEMMA FieldsWritten ==
  ASSUME NEW b \in LoadBalancer
  PROVE  /\ b.size \in Nat /\ b.ips \in Seq(Ip \cup {Blank})
         /\ \A n \in Nat : \E x \in LoadBalancer :
              x = [b EXCEPT !.size = n] /\ x.size = n /\ x.ips = b.ips
         /\ \A l \in Seq(Ip \cup {Blank}) : \E x \in LoadBalancer :
              x = [b EXCEPT !.ips = l] /\ x.size = b.size /\ x.ips = l
<1>1. b.size \in Nat /\ b.ips \in Seq(Ip \cup {Blank}) BY DEF LoadBalancer
<1>2. ASSUME NEW n \in Nat
      PROVE  \E x \in LoadBalancer : x = [b EXCEPT !.size = n] /\ x.size = n /\ x.ips = b.ips
  <2> DEFINE x == [b EXCEPT !.size = n]
  <2>1. x \in LoadBalancer /\ x.size = n /\ x.ips = b.ips BY DEF LoadBalancer
  <2> HIDE DEF x
  <2> QED BY <2>1 DEF x
<1>3. ASSUME NEW l \in Seq(Ip \cup {Blank})
      PROVE  \E x \in LoadBalancer : x = [b EXCEPT !.ips = l] /\ x.size = b.size /\ x.ips = l
  <2> DEFINE x == [b EXCEPT !.ips = l]
  <2>1. x \in LoadBalancer /\ x.size = b.size /\ x.ips = l BY DEF LoadBalancer
  <2> HIDE DEF x
  <2> QED BY <2>1 DEF x
<1> QED BY <1>1, <1>2, <1>3

LEMMA ChecksAreBoolean ==
  ASSUME NEW i
  PROVE  CheckHealth(i) \subseteq BOOLEAN
BY DEF CheckHealth

(* The load balancer that a call of a function works on. *)
LEMMA GrowWrites ==
  ASSUME TypeOK, Placed, NEW m \in Machine, Grow(m)
  PROVE  /\ lb[m] \in Balancer /\ tmp[m] \in Nat
         /\ \E x \in LoadBalancer :
              /\ heap' = [heap EXCEPT ![lb[m]] = x]
              /\ x.size = tmp[m] + 1 /\ x.ips = heap[lb[m]].ips
         /\ heap[lb[m]].ips \in Seq(Ip \cup {Blank})
<1>1. lb[m] \in Balancer /\ tmp[m] \in Nat
  BY DEF TypeOK, Placed, Grow, Caller, AddStep
<1>2. heap[lb[m]] \in LoadBalancer BY <1>1 DEF TypeOK
<1>3. heap' = [heap EXCEPT ![lb[m]] = [heap[lb[m]] EXCEPT !.size = tmp[m] + 1]]
  BY DEF Grow
<1>4. PICK n \in Nat : n = tmp[m] + 1 BY <1>1
<1>5. PICK b \in LoadBalancer : b = heap[lb[m]] BY <1>2
<1>6. PICK x \in LoadBalancer : x = [b EXCEPT !.size = n] /\ x.size = n /\ x.ips = b.ips
  BY FieldsWritten
<1>7. heap[lb[m]].ips \in Seq(Ip \cup {Blank}) BY <1>2, FieldsWritten
<1>8. heap' = [heap EXCEPT ![lb[m]] = x] BY <1>3, <1>4, <1>5, <1>6
<1> QED BY <1>1, <1>4, <1>5, <1>6, <1>7, <1>8

LEMMA AppendWrites ==
  ASSUME TypeOK, Placed, NEW m \in Machine, AppendIp(m)
  PROVE  /\ lb[m] \in Balancer
         /\ \E x \in LoadBalancer :
              /\ heap' = [heap EXCEPT ![lb[m]] = x]
              /\ x.size = heap[lb[m]].size /\ x.ips = Append(got[m], addr[m])
         /\ heap[lb[m]].size \in Nat
         /\ got[m] \in Seq(Ip \cup {Blank})
         /\ addr[m] \in Ip
         /\ Append(got[m], addr[m]) \in Seq(Ip \cup {Blank})
<1>1. lb[m] \in Balancer /\ got[m] \in Seq(Ip \cup {Blank}) /\ addr[m] \in Ip
  BY DEF TypeOK, Placed, AppendIp, Caller, AddStep
<1>2. heap[lb[m]] \in LoadBalancer BY <1>1 DEF TypeOK
<1>3. heap' = [heap EXCEPT ![lb[m]] = [heap[lb[m]] EXCEPT !.ips = Append(got[m], addr[m])]]
  BY DEF AppendIp
<1>4. Append(got[m], addr[m]) \in Seq(Ip \cup {Blank}) BY <1>1, AppendProperties
<1>5. PICK l \in Seq(Ip \cup {Blank}) : l = Append(got[m], addr[m]) BY <1>4
<1>6. PICK x \in LoadBalancer :
        x = [heap[lb[m]] EXCEPT !.ips = l] /\ x.size = heap[lb[m]].size /\ x.ips = l
  BY <1>2, FieldsWritten
<1>7. heap[lb[m]].size \in Nat BY <1>2, FieldsWritten
<1>8. heap' = [heap EXCEPT ![lb[m]] = x] BY <1>3, <1>5, <1>6
<1> QED BY <1>1, <1>4, <1>5, <1>6, <1>7, <1>8

(* The new slice: the kept addresses and what is left of its room. *)
Filled(w) ==
  Kept(w) \o [k \in 1..(tmp[w] - 1 - Len(Kept(w))) |-> Blank]

LEMMA CopyWrites ==
  ASSUME TypeOK, Placed, Sized, NEW w \in Worker, Copy(w)
  PROVE  /\ lb[w] \in Balancer /\ goal[w] \in Machine
         /\ <<w, goal[w]>> \in Balancer
         /\ heap[lb[w]].size - 1 \in Nat /\ tmp[w] - 1 \in Nat
         /\ heap[lb[w]].ips \in Seq(Ip \cup {Blank})
         /\ Kept(w) \in Seq(Ip \cup {Blank}) /\ Len(Kept(w)) \in Nat
         /\ tmp[w] - 1 - Len(Kept(w)) \in Nat
         /\ Filled(w) \in Seq(Ip \cup {Blank})
         /\ Len(Kept(w)) = tmp[w] - 1 => Filled(w) = Kept(w)
         /\ \E x \in LoadBalancer :
              /\ heap' = [heap EXCEPT ![<<w, goal[w]>>] = x]
              /\ x.size = heap[lb[w]].size - 1 /\ x.ips = Filled(w)
<1>1. lb[w] \in Balancer /\ goal[w] \in Machine /\ tmp[w] \in Nat
  BY DEF TypeOK, Placed, Copy, Caller, DeleteStep
<1>2. heap[lb[w]].size \in Nat /\ heap[lb[w]].ips \in Seq(Ip \cup {Blank})
  BY <1>1, FieldsWritten DEF TypeOK
<1>3. heap[lb[w]].size - 1 \in Nat /\ tmp[w] - 1 \in Nat
  <2>1. tmp[w] > 0 /\ heap[lb[w]].size > 0 BY DEF Sized, Copy
  <2> QED BY <1>1, <1>2, <2>1
<1>4. Kept(w) \in Seq(Ip \cup {Blank}) BY <1>2, WithoutProperties DEF Kept
<1>5. Len(Kept(w)) \in Nat BY <1>4, LenProperties
<1>6. tmp[w] - 1 - Len(Kept(w)) \in Nat BY <1>3, <1>5 DEF Copy
<1>7. Filled(w) \in Seq(Ip \cup {Blank})
      /\ (tmp[w] - 1 - Len(Kept(w)) = 0 => Filled(w) = Kept(w))
  BY <1>4, <1>6, Padded DEF Filled
<1>8. <<w, goal[w]>> \in Balancer BY <1>1 DEF Balancer
<1>9. heap' = [heap EXCEPT ![<<w, goal[w]>>] =
                 [size |-> heap[lb[w]].size - 1, ips |-> Filled(w)]]
  BY DEF Copy, Filled
<1>10. Len(Kept(w)) = tmp[w] - 1 => Filled(w) = Kept(w) BY <1>3, <1>5, <1>7
<1>11. \E x \in LoadBalancer :
         /\ heap' = [heap EXCEPT ![<<w, goal[w]>>] = x]
         /\ x.size = heap[lb[w]].size - 1 /\ x.ips = Filled(w)
  <2> DEFINE x == [size |-> heap[lb[w]].size - 1, ips |-> Filled(w)]
  <2>1. x \in LoadBalancer BY <1>3, <1>7 DEF LoadBalancer
  <2> QED BY <1>9, <2>1
<1> QED BY <1>1, <1>2, <1>3, <1>4, <1>5, <1>6, <1>7, <1>8, <1>10, <1>11

(* What a resolution writes of its record. *)
LEMMA IpChosen ==
  ASSUME NEW x \in Resolution, NEW i \in Ip \cup {Blank}
  PROVE  LET y == [x EXCEPT !.at = "check", !.ip = i] IN
         /\ y \in Resolution /\ y.at = "check" /\ y.ip = i
         /\ y.svc = x.svc /\ y.lb = x.lb /\ y.gone = x.gone
BY DEF Resolution

LEMMA ResolutionWritten ==
  ASSUME NEW x \in Resolution
  PROVE  /\ LET y == [x EXCEPT !.at = "next", !.ip = Blank, !.tries = @ + 1] IN
              /\ y \in Resolution /\ y.at = "next"
              /\ y.svc = x.svc /\ y.lb = x.lb /\ y.gone = x.gone
         /\ LET y == [x EXCEPT !.at = "answer"] IN
              /\ y \in Resolution /\ y.at = "answer" /\ y.ip = x.ip
              /\ y.svc = x.svc /\ y.lb = x.lb /\ y.gone = x.gone
<1>1. LET y == [x EXCEPT !.at = "next", !.ip = Blank, !.tries = @ + 1] IN
        /\ y \in Resolution /\ y.at = "next"
        /\ y.svc = x.svc /\ y.lb = x.lb /\ y.gone = x.gone
  <2> DEFINE y == [x EXCEPT !.at = "next", !.ip = Blank, !.tries = @ + 1]
             z == [x EXCEPT !.at = "next", !.ip = Blank]
  <2>1. z \in Resolution /\ z.at = "next" /\ z.tries = x.tries
        /\ z.svc = x.svc /\ z.lb = x.lb /\ z.gone = x.gone
    BY DEF Resolution
  <2>2. y = [z EXCEPT !.tries = x.tries + 1] OBVIOUS
  <2>3. x.tries + 1 \in Nat BY DEF Resolution
  <2>4. \A u \in Resolution, n \in Nat :
          LET v == [u EXCEPT !.tries = n] IN
          /\ v \in Resolution /\ v.at = u.at
          /\ v.svc = u.svc /\ v.lb = u.lb /\ v.gone = u.gone
    BY DEF Resolution
  <2> HIDE DEF y, z
  <2>5. /\ y \in Resolution /\ y.at = "next"
        /\ y.svc = x.svc /\ y.lb = x.lb /\ y.gone = x.gone
    BY <2>1, <2>2, <2>3, <2>4
  <2> QED BY <2>5 DEF y
<1>2. LET y == [x EXCEPT !.at = "answer"] IN
        /\ y \in Resolution /\ y.at = "answer" /\ y.ip = x.ip
        /\ y.svc = x.svc /\ y.lb = x.lb /\ y.gone = x.gone
  BY DEF Resolution
<1> QED BY <1>1, <1>2

LEMMA NoResolveTyped ==
  NoResolve \in Resolution
BY NothingOutside DEF NoResolve, Resolution

LEMMA ResolveWrites ==
  ASSUME TypeOK, NEW r \in Resolver, NEW s \in Service, Resolve(r, s)
  PROVE  \E y \in Resolution :
           /\ res' = [res EXCEPT ![r] = y]
           /\ y.at = "next" /\ y.svc = s /\ y.lb = instances[s] /\ y.gone = Gone(s)
           /\ instances[s] \in Balancer
<1>1. instances[s] \in Balancer BY DEF TypeOK, Resolve
<1>2. heap[instances[s]].size \in Nat BY <1>1, FieldsWritten DEF TypeOK
<1>3. Gone(s) \in SUBSET Machine BY DEF Gone, TypeOK
<1> DEFINE y == [at |-> "next", svc |-> s, lb |-> instances[s], max |-> heap[instances[s]].size,
                 tries |-> 0, ip |-> Blank, gone |-> Gone(s)]
<1>4. y \in Resolution BY <1>1, <1>2, <1>3 DEF Resolution
<1>5. res' = [res EXCEPT ![r] = y] BY DEF Resolve
<1> QED BY <1>1, <1>4, <1>5

LEMMA NextInstanceWrites ==
  ASSUME TypeOK, Resolving, NEW r \in Resolver, NextInstance(r)
  PROVE  \E y \in Resolution :
           /\ res' = [res EXCEPT ![r] = y]
           /\ y = NoResolve
              \/ /\ y.at = "check"
                 /\ y.svc = res[r].svc /\ y.lb = res[r].lb /\ y.gone = res[r].gone
                 /\ \E k \in 1..Len(heap[res[r].lb].ips) : y.ip = heap[res[r].lb].ips[k]
<1> DEFINE b == heap[res[r].lb]
<1>1. res[r] \in Resolution BY DEF TypeOK
<1>2. res[r].lb \in Balancer
  BY <1>1 DEF Resolving, Resolution, NextInstance
<1>3. b.size \in Nat /\ b.ips \in Seq(Ip \cup {Blank}) BY <1>2, FieldsWritten DEF TypeOK
<1>4. CASE GiveUp(r) BY <1>4, NoResolveTyped DEF GiveUp
<1>5. CASE ~GiveUp(r)
  <2>1. PICK k \in 1..b.size :
          /\ ~(k > Len(b.ips))
          /\ res' = [res EXCEPT ![r].at = "check", ![r].ip = b.ips[k]]
    BY <1>5 DEF NextInstance
  <2>2. k \in 1..Len(b.ips) BY <1>3, <2>1, LenProperties
  <2>3. b.ips[k] \in Ip \cup {Blank} BY <1>3, <2>2, ElementOfSeq
  <2>4. PICK i \in Ip \cup {Blank} : i = b.ips[k] BY <2>3
  <2> DEFINE y == [res[r] EXCEPT !.at = "check", !.ip = i]
  <2>5. res' = [res EXCEPT ![r].at = "check", ![r].ip = i] BY <2>1, <2>4
  <2>6. res' = [res EXCEPT ![r] = y] BY <2>5 DEF TypeOK
  <2>7. y \in Resolution /\ y.at = "check" /\ y.ip = i
        /\ y.svc = res[r].svc /\ y.lb = res[r].lb /\ y.gone = res[r].gone
    BY <1>1, IpChosen
  <2> HIDE DEF y
  <2> QED BY <2>2, <2>4, <2>6, <2>7
<1> QED BY <1>4, <1>5

LEMMA CheckIpWrites ==
  ASSUME TypeOK, NEW r \in Resolver, CheckIp(r)
  PROVE  \E y \in Resolution :
           /\ res' = [res EXCEPT ![r] = y]
           /\ \/ y = NoResolve
              \/ /\ y.at = "next"
                 /\ y.svc = res[r].svc /\ y.lb = res[r].lb /\ y.gone = res[r].gone
              \/ /\ y.at = "answer" /\ y.ip = res[r].ip /\ res[r].ip \in Ip
                 /\ y.svc = res[r].svc /\ y.lb = res[r].lb /\ y.gone = res[r].gone
<1>1. res[r] \in Resolution BY DEF TypeOK
<1>2. CASE GiveUp(r) BY <1>2, NoResolveTyped DEF GiveUp
<1>3. CASE Healthy(res[r].ip)
  <2> DEFINE y == [res[r] EXCEPT !.at = "answer"]
  <2>1. res' = [res EXCEPT ![r] = y] BY <1>3 DEF CheckIp, TypeOK
  <2>2. y \in Resolution /\ y.at = "answer" /\ y.ip = res[r].ip
        /\ y.svc = res[r].svc /\ y.lb = res[r].lb /\ y.gone = res[r].gone
    BY <1>1, ResolutionWritten
  <2>3. res[r].ip \in Ip BY <1>3 DEF Healthy
  <2> HIDE DEF y
  <2> QED BY <2>1, <2>2, <2>3
<1>4. CASE ~GiveUp(r) /\ ~Healthy(res[r].ip)
  <2> DEFINE y == [res[r] EXCEPT !.at = "next", !.ip = Blank, !.tries = @ + 1]
  <2>1. res' = [res EXCEPT ![r].at = "next", ![r].ip = Blank, ![r].tries = @ + 1]
    BY <1>4 DEF CheckIp
  <2>2. res' = [res EXCEPT ![r] = y] BY <2>1 DEF TypeOK
  <2>3. y \in Resolution /\ y.at = "next"
        /\ y.svc = res[r].svc /\ y.lb = res[r].lb /\ y.gone = res[r].gone
    BY <1>1, ResolutionWritten
  <2> HIDE DEF y
  <2> QED BY <2>2, <2>3
<1> QED BY <1>2, <1>3, <1>4

LEMMA TypeStep ==
  ASSUME Inductive, Next
  PROVE  TypeOK'
<1> USE DEF world, tables, local, history, vars, Goto, Overlap, Caller, CallerStep, AddStep, DeleteStep
<1>0. TypeOK /\ Placed /\ Sized /\ Resolving BY DEF Inductive
<1>1. ASSUME NEW m \in Machine, GuestStops(m) PROVE TypeOK'
  BY <1>0, <1>1 DEF TypeOK, GuestStops
<1>2. ASSUME NEW m \in Machine, LoadOrCreate(m) PROVE TypeOK'
  <2> DEFINE b == IF instances[svc[m]] = None THEN m ELSE instances[svc[m]]
  <2>1. b \in Balancer BY <1>0 DEF TypeOK, Balancer
  <2>2. heap[b].size \in Nat BY <1>0, <2>1, FieldsWritten DEF TypeOK
  <2>3. lb' = [lb EXCEPT ![m] = b] /\ tmp' = [tmp EXCEPT ![m] = heap[b].size]
    BY <1>2 DEF LoadOrCreate
  <2> HIDE DEF b
  <2>4. lb' \in [Caller -> Balancer \cup {None}] /\ tmp' \in [Caller -> Nat]
    BY <1>0, <2>1, <2>2, <2>3 DEF TypeOK
  <2>5. raced' \in SUBSET Service /\ pc' \in [Caller -> CallerStep]
    BY <1>0, <1>2 DEF LoadOrCreate, Svc, Target, TypeOK
  <2> QED BY <1>0, <1>2, <2>4, <2>5 DEF LoadOrCreate, TypeOK
<1>3. ASSUME NEW m \in Machine, Grow(m) PROVE TypeOK'
  <2>1. PICK x \in LoadBalancer : heap' = [heap EXCEPT ![lb[m]] = x]
    BY <1>0, <1>3, GrowWrites
  <2>2. heap[lb[m]].ips \in Seq(Ip \cup {Blank}) BY <1>0, <1>3, GrowWrites
  <2>3. heap' \in [Balancer -> LoadBalancer] BY <1>0, <2>1 DEF TypeOK
  <2>4. /\ got' \in [Machine -> Seq(Ip \cup {Blank})]
        /\ tmp' \in [Caller -> Nat]
        /\ pc' \in [Caller -> CallerStep]
    BY <1>0, <1>3, <2>2 DEF Grow, TypeOK
  <2> QED BY <1>0, <1>3, <2>3, <2>4 DEF Grow, TypeOK
<1>4. ASSUME NEW m \in Machine, AppendIp(m) PROVE TypeOK'
  <2>1. PICK x \in LoadBalancer : heap' = [heap EXCEPT ![lb[m]] = x]
    BY <1>0, <1>4, AppendWrites
  <2>2. heap' \in [Balancer -> LoadBalancer] BY <1>0, <2>1 DEF TypeOK
  <2>3. <<>> \in Seq(Ip \cup {Blank}) BY EmptySeq
  <2>4. /\ got' \in [Machine -> Seq(Ip \cup {Blank})]
        /\ pc' \in [Caller -> CallerStep]
    BY <1>0, <1>4, <2>3 DEF AppendIp, TypeOK
  <2>5. probed' \in [Machine -> BOOLEAN]
    BY <1>0, <1>4, ChecksAreBoolean DEF AppendIp, TypeOK
  <2> QED BY <1>0, <1>4, <2>2, <2>4, <2>5 DEF AppendIp, TypeOK
<1>5. ASSUME NEW m \in Machine, StoreHealth(m) PROVE TypeOK'
  BY <1>0, <1>5 DEF TypeOK, StoreHealth, State
<1>6. ASSUME NEW m \in Machine, Publish(m) PROVE TypeOK'
  BY <1>0, <1>6 DEF TypeOK, Publish
<1>7. ASSUME NEW m \in Machine, CountUp(m) PROVE TypeOK'
  <2>1. tmp[m] + 1 \in Nat BY <1>0 DEF TypeOK
  <2>2. count' \in 0..(CountWrap - 1) BY <1>7, <2>1, Wraps DEF CountUp
  <2>3. tmp' \in [Caller -> Nat] /\ pc' \in [Caller -> CallerStep]
    BY <1>0, <1>7 DEF CountUp, TypeOK
  <2> QED BY <1>0, <1>7, <2>2, <2>3 DEF CountUp, TypeOK
<1>8. ASSUME NEW w \in Worker, NEW m \in Machine, Pick(w, m) PROVE TypeOK'
  BY <1>0, <1>8 DEF TypeOK, Pick
<1>9. ASSUME NEW w \in Worker, Load(w) PROVE TypeOK'
  <2>1. goal[w] \in Machine BY <1>0, <1>9 DEF Load, TypeOK, Placed
  <2>2. Svc(w) = svc[goal[w]] /\ Svc(w) \in Service
    BY <1>0, <2>1, GoroutinesDiffer DEF Svc, Target, TypeOK
  <2>3. marked' \subseteq Machine /\ undue' \subseteq Machine
    BY <1>0, <1>9, <2>1 DEF Load, TypeOK
  <2>4. raced' \subseteq Service BY <1>0, <1>9, <2>2 DEF Load, TypeOK
  <2>5. lb' \in [Caller -> Balancer \cup {None}] /\ pc' \in [Caller -> CallerStep]
    BY <1>0, <1>9, <2>2 DEF Load, TypeOK
  <2> QED BY <1>0, <1>9, <2>3, <2>4, <2>5 DEF Load, TypeOK
<1>10. ASSUME NEW w \in Worker, Shrink(w) PROVE TypeOK'
  <2>1. lb[w] \in Balancer BY <1>0, <1>10 DEF TypeOK, Placed, Shrink
  <2>2. heap[lb[w]].size \in Nat BY <1>0, <2>1, FieldsWritten DEF TypeOK
  <2>3. tmp' \in [Caller -> Nat] /\ pc' \in [Caller -> CallerStep]
    BY <1>0, <1>10, <2>2 DEF TypeOK, Shrink
  <2> QED BY <1>0, <1>10, <2>3 DEF TypeOK, Shrink
<1>11. ASSUME NEW w \in Worker, Copy(w) PROVE TypeOK'
  <2>1. PICK x \in LoadBalancer : heap' = [heap EXCEPT ![<<w, goal[w]>>] = x]
    BY <1>0, <1>11, CopyWrites
  <2>2. heap' \in [Balancer -> LoadBalancer] BY <1>0, <2>1 DEF TypeOK
  <2>3. PICK b \in Balancer : b = <<w, goal[w]>> BY <1>0, <1>11, CopyWrites
  <2>4. lb' = [lb EXCEPT ![w] = b] BY <1>11, <2>3 DEF Copy
  <2>5. /\ lb' \in [Caller -> Balancer \cup {None}]
        /\ tmp' \in [Caller -> Nat]
        /\ pc' \in [Caller -> CallerStep]
    <3>1. pc' = [pc EXCEPT ![w] = "replace"] /\ tmp' = [tmp EXCEPT ![w] = 0] BY <1>11 DEF Copy
    <3>2. "replace" \in CallerStep BY DEF CallerStep
    <3> QED BY <1>0, <2>4, <3>1, <3>2 DEF TypeOK
  <2> QED BY <1>0, <1>11, <2>2, <2>5 DEF Copy, TypeOK
<1>12. ASSUME NEW w \in Worker, CopyPanics(w) PROVE TypeOK'
  BY <1>0, <1>12 DEF TypeOK, CopyPanics
<1>13. ASSUME NEW w \in Worker, Replace(w) PROVE TypeOK'
  BY <1>0, <1>13 DEF TypeOK, Replace
<1>14. ASSUME NEW w \in Worker, Forget(w) PROVE TypeOK'
  BY <1>0, <1>14 DEF TypeOK, Forget
<1>15. ASSUME NEW w \in Worker, CountDown(w) PROVE TypeOK'
  <2>1. tmp[w] + CountWrap - 1 \in Nat BY <1>0, CountWrapNat DEF TypeOK
  <2>2. count' \in 0..(CountWrap - 1) BY <1>15, <2>1, Wraps DEF CountDown
  <2>3. tmp' \in [Caller -> Nat] /\ pc' \in [Caller -> CallerStep]
    BY <1>0, <1>15 DEF CountDown, TypeOK
  <2> QED BY <1>0, <1>15, <2>2, <2>3 DEF CountDown, TypeOK
<1>16. ASSUME NEW c \in Caller, ReadCount(c) PROVE TypeOK'
  BY <1>0, <1>16 DEF TypeOK, ReadCount
<1>17. ASSUME NEW i \in Visited, Visit(i) PROVE TypeOK'
  BY <1>0, <1>17, VisitedIp, ChecksAreBoolean DEF TypeOK, Visit, Checking
<1>18. ASSUME StoreCheck PROVE TypeOK'
  BY <1>0, <1>18 DEF TypeOK, StoreCheck, Checking, NoCheck, State
<1>19. ASSUME NEW r \in Resolver, NEW s \in Service, Resolve(r, s) PROVE TypeOK'
  <2>1. PICK y \in Resolution : res' = [res EXCEPT ![r] = y]
    BY <1>0, <1>19, ResolveWrites
  <2>2. res' \in [Resolver -> Resolution] BY <1>0, <2>1 DEF TypeOK
  <2> QED BY <1>0, <1>19, <2>2 DEF Resolve, TypeOK
<1>20. ASSUME NEW r \in Resolver, NextInstance(r) PROVE TypeOK'
  BY <1>0, <1>20, NextInstanceWrites DEF TypeOK, NextInstance
<1>21. ASSUME NEW r \in Resolver, CheckIp(r) PROVE TypeOK'
  BY <1>0, <1>21, CheckIpWrites DEF TypeOK, CheckIp
<1>22. ASSUME NEW r \in Resolver, Answer(r) PROVE TypeOK'
  BY <1>0, <1>22, NoResolveTyped DEF TypeOK, Answer, GiveUp
<1> QED BY <1>1, <1>2, <1>3, <1>4, <1>5, <1>6, <1>7, <1>8, <1>9, <1>10, <1>11, <1>12,
           <1>13, <1>14, <1>15, <1>16, <1>17, <1>18, <1>19, <1>20, <1>21, <1>22 DEF Next,
           AddServiceIP, DeleteServiceIP

(* What only the calls that add or delete an address write. *)
callers ==
  <<svc, addr, instances, heap, pc, goal, lb, tmp, got, marked, listed, raced, miscounted, undue>>

-----------------------------------------------------------------------------
(* Where the goroutines are. *)

LEMMA PlacedStep ==
  ASSUME Inductive, Next
  PROVE  Placed'
<1> USE DEF world, tables, local, history, vars, Goto, Caller, AddStep, DeleteStep
<1>0. TypeOK /\ Placed /\ Sized BY DEF Inductive
<1>1. ASSUME NEW m \in Machine, LoadOrCreate(m) PROVE Placed'
  BY <1>0, <1>1, GoroutinesDiffer, NothingOutside DEF TypeOK, Placed, LoadOrCreate, Svc, Target
<1>2. ASSUME NEW m \in Machine, Grow(m) PROVE Placed'
  BY <1>0, <1>2, GoroutinesDiffer, NothingOutside DEF TypeOK, Placed, Grow, Svc, Target
<1>3. ASSUME NEW m \in Machine, AppendIp(m) PROVE Placed'
  BY <1>0, <1>3, GoroutinesDiffer, NothingOutside DEF TypeOK, Placed, AppendIp, Svc, Target
<1>4. ASSUME NEW m \in Machine, StoreHealth(m) PROVE Placed'
  BY <1>0, <1>4, GoroutinesDiffer, NothingOutside DEF TypeOK, Placed, StoreHealth, Svc, Target
<1>5. ASSUME NEW m \in Machine, Publish(m) PROVE Placed'
  BY <1>0, <1>5, GoroutinesDiffer, NothingOutside DEF TypeOK, Placed, Publish, Svc, Target
<1>6. ASSUME NEW m \in Machine, CountUp(m) PROVE Placed'
  <2>1. /\ pc[m] = "writecount" /\ pc' = [pc EXCEPT ![m] = "done"]
        /\ UNCHANGED <<svc, instances, goal, lb, marked, listed>>
    BY <1>6 DEF CountUp
  <2>2. pc'[m] = "done" /\ \A c \in Caller : c # m => pc'[c] = pc[c]
    BY <1>0, <2>1 DEF TypeOK
  <2>3. \A w \in Worker : pc'[w] = pc[w] BY <2>2, GoroutinesDiffer
  <2> QED BY <1>0, <2>1, <2>2, <2>3 DEF Placed
<1>7. ASSUME NEW w \in Worker, NEW m \in Machine, Pick(w, m) PROVE Placed'
  <2>1. /\ pc[w] = "idle" /\ pc' = [pc EXCEPT ![w] = "load"]
        /\ goal' = [goal EXCEPT ![w] = m] /\ m # None
        /\ UNCHANGED <<svc, instances, lb, marked, listed>>
    BY <1>7, NothingOutside DEF Pick
  <2>2. \A n \in Machine : pc'[n] = pc[n] BY <1>0, <2>1, GoroutinesDiffer DEF TypeOK
  <2>3. \A v \in Worker : v # w => pc'[v] = pc[v] /\ goal'[v] = goal[v]
    BY <1>0, <2>1 DEF TypeOK
  <2>4. pc'[w] = "load" /\ goal'[w] = m BY <1>0, <2>1 DEF TypeOK
  <2>5. \A c \in Caller : c # w => pc'[c] = pc[c] BY <1>0, <2>1 DEF TypeOK
  <2>6. lb[w] = None BY <1>0, <2>1 DEF Placed
  <2> QED BY <1>0, <2>1, <2>2, <2>3, <2>4, <2>5, <2>6 DEF TypeOK, Placed
<1>8. ASSUME NEW w \in Worker, Load(w) PROVE Placed'
  BY <1>0, <1>8, GoroutinesDiffer, NothingOutside DEF TypeOK, Placed, Load, Svc, Target
<1>9. ASSUME NEW w \in Worker, Shrink(w) PROVE Placed'
  BY <1>0, <1>9, GoroutinesDiffer, NothingOutside DEF TypeOK, Placed, Shrink, Svc, Target
<1>10. ASSUME NEW w \in Worker, Copy(w) PROVE Placed'
  <2>1. PICK b \in Balancer : b = <<w, goal[w]>>
    BY <1>0, <1>10, CopyWrites
  <2>2. b # None BY <1>0, <1>10, <2>1, CopyWrites, BalancersDiffer DEF TypeOK
  <2>3. /\ pc[w] = "copy" /\ pc' = [pc EXCEPT ![w] = "replace"]
        /\ lb' = [lb EXCEPT ![w] = b]
        /\ UNCHANGED <<svc, instances, goal, marked, listed>>
    BY <1>10, <2>1 DEF Copy
  <2> QED BY <1>0, <2>2, <2>3, GoroutinesDiffer DEF TypeOK, Placed
<1>11. ASSUME NEW w \in Worker, CopyPanics(w) PROVE Placed'
  BY <1>0, <1>11, GoroutinesDiffer, NothingOutside DEF TypeOK, Placed, CopyPanics, Svc, Target
<1>12. ASSUME NEW w \in Worker, Replace(w) PROVE Placed'
  BY <1>0, <1>12, GoroutinesDiffer, NothingOutside DEF TypeOK, Placed, Replace, Svc, Target
<1>13. ASSUME NEW w \in Worker, Forget(w) PROVE Placed'
  BY <1>0, <1>13, GoroutinesDiffer, NothingOutside DEF TypeOK, Placed, Forget, Svc, Target
<1>14. ASSUME NEW w \in Worker, CountDown(w) PROVE Placed'
  <2>1. /\ pc[w] = "writecount" /\ pc' = [pc EXCEPT ![w] = "idle"]
        /\ goal' = [goal EXCEPT ![w] = None]
        /\ UNCHANGED <<svc, instances, lb, marked, listed>>
    BY <1>14 DEF CountDown
  <2>2. pc'[w] = "idle" /\ \A c \in Caller : c # w => pc'[c] = pc[c]
    BY <1>0, <2>1 DEF TypeOK
  <2>3. goal'[w] = None /\ \A v \in Worker : v # w => goal'[v] = goal[v]
    BY <1>0, <2>1 DEF TypeOK
  <2>4. \A m \in Machine : pc'[m] = pc[m] BY <2>2, GoroutinesDiffer
  <2>5. lb[w] = None BY <1>0, <2>1 DEF Placed
  <2> QED BY <1>0, <2>1, <2>2, <2>3, <2>4, <2>5 DEF TypeOK, Placed
<1>15. ASSUME NEW c \in Caller, ReadCount(c) PROVE Placed'
  BY <1>0, <1>15, GoroutinesDiffer, NothingOutside DEF TypeOK, Placed, ReadCount, Svc, Target
<1>16. ASSUME UNCHANGED callers PROVE Placed'
  BY <1>0, <1>16 DEF Placed, callers
<1> QED BY <1>1, <1>2, <1>3, <1>4, <1>5, <1>6, <1>7, <1>8, <1>9, <1>10, <1>11, <1>12,
           <1>13, <1>14, <1>15, <1>16
  DEF Next, AddServiceIP, DeleteServiceIP, callers, GuestStops, Visit, StoreCheck, Resolve,
      NextInstance, CheckIp, Answer

-----------------------------------------------------------------------------
(* Load balancers that are not made yet. *)

LEMMA Made ==
  /\ \A m \in Machine : Unmade(m) <=> pc[m] = "idle"
  /\ \A w \in Worker, n \in Machine :
       Unmade(<<w, n>>) <=>
         (n \in marked => goal[w] = n /\ pc[w] \in {"load", "shrink", "copy"})
<1>1. \A w \in Worker, n \in Machine : <<w, n>> \notin Machine BY BalancersDiffer
<1> QED BY <1>1 DEF Unmade

(* Once made, a load balancer stays made. *)
LEMMA StaysMade ==
  ASSUME Inductive, Next
  PROVE  \A b \in Balancer : Unmade(b)' => Unmade(b)
<1> USE DEF world, tables, local, history, vars, Goto, Caller
<1> DEFINE Kept1 == \A m \in Machine : pc'[m] = "idle" => pc[m] = "idle"
           Kept2 == \A w \in Worker, n \in Machine :
             (n \in marked' => goal'[w] = n /\ pc'[w] \in {"load", "shrink", "copy"})
               => (n \in marked => goal[w] = n /\ pc[w] \in {"load", "shrink", "copy"})
           OK == Kept1 /\ Kept2
<1>0. TypeOK /\ Placed BY DEF Inductive
<1>1. ASSUME NEW m \in Machine, LoadOrCreate(m) PROVE OK
  BY <1>0, <1>1, GoroutinesDiffer DEF TypeOK, Placed, LoadOrCreate
<1>2. ASSUME NEW m \in Machine, Grow(m) PROVE OK
  BY <1>0, <1>2, GoroutinesDiffer DEF TypeOK, Placed, Grow
<1>3. ASSUME NEW m \in Machine, AppendIp(m) PROVE OK
  BY <1>0, <1>3, GoroutinesDiffer DEF TypeOK, Placed, AppendIp
<1>4. ASSUME NEW m \in Machine, StoreHealth(m) PROVE OK
  BY <1>0, <1>4, GoroutinesDiffer DEF TypeOK, Placed, StoreHealth
<1>5. ASSUME NEW m \in Machine, Publish(m) PROVE OK
  BY <1>0, <1>5, GoroutinesDiffer DEF TypeOK, Placed, Publish
<1>6. ASSUME NEW m \in Machine, CountUp(m) PROVE OK
  BY <1>0, <1>6, GoroutinesDiffer DEF TypeOK, Placed, CountUp
<1>7. ASSUME NEW w \in Worker, NEW m \in Machine, Pick(w, m) PROVE OK
  BY <1>0, <1>7, GoroutinesDiffer DEF TypeOK, Placed, Pick
<1>8. ASSUME NEW w \in Worker, Load(w) PROVE OK
  BY <1>0, <1>8, GoroutinesDiffer DEF TypeOK, Placed, Load
<1>9. ASSUME NEW w \in Worker, Shrink(w) PROVE OK
  BY <1>0, <1>9, GoroutinesDiffer DEF TypeOK, Placed, Shrink
<1>10. ASSUME NEW w \in Worker, Copy(w) PROVE OK
  BY <1>0, <1>10, GoroutinesDiffer DEF TypeOK, Placed, Copy
<1>11. ASSUME NEW w \in Worker, CopyPanics(w) PROVE OK
  BY <1>0, <1>11, GoroutinesDiffer DEF TypeOK, Placed, CopyPanics
<1>12. ASSUME NEW w \in Worker, Replace(w) PROVE OK
  BY <1>0, <1>12, GoroutinesDiffer DEF TypeOK, Placed, Replace
<1>13. ASSUME NEW w \in Worker, Forget(w) PROVE OK
  BY <1>0, <1>13, GoroutinesDiffer DEF TypeOK, Placed, Forget
<1>14. ASSUME NEW w \in Worker, CountDown(w) PROVE OK
  BY <1>0, <1>14, GoroutinesDiffer DEF TypeOK, Placed, CountDown
<1>15. ASSUME NEW c \in Caller, ReadCount(c) PROVE OK
  BY <1>0, <1>15, GoroutinesDiffer DEF TypeOK, Placed, ReadCount
<1>16. ASSUME UNCHANGED callers PROVE OK
  BY <1>16 DEF callers
<1>17. OK
  BY <1>1, <1>2, <1>3, <1>4, <1>5, <1>6, <1>7, <1>8, <1>9, <1>10, <1>11, <1>12, <1>13,
     <1>14, <1>15, <1>16
    DEF Next, AddServiceIP, DeleteServiceIP, callers, GuestStops, Visit, StoreCheck, Resolve,
      NextInstance, CheckIp, Answer
<1>18. ASSUME NEW m \in Machine, Unmade(m)' PROVE Unmade(m)
  <2>1. Unmade(m)' <=> pc'[m] = "idle" BY DEF Unmade
  <2> QED BY <1>17, <1>18, <2>1, Made
<1>19. ASSUME NEW w \in Worker, NEW n \in Machine, Unmade(<<w, n>>)' PROVE Unmade(<<w, n>>)
  <2>1. <<w, n>> \notin Machine BY BalancersDiffer
  <2>2. Unmade(<<w, n>>)' <=>
          (n \in marked' => goal'[w] = n /\ pc'[w] \in {"load", "shrink", "copy"})
    BY <2>1 DEF Unmade
  <2>3. n \in marked => goal[w] = n /\ pc[w] \in {"load", "shrink", "copy"}
    BY <1>17, <1>19, <2>2
  <2> QED BY <2>3, Made
<1> QED BY <1>18, <1>19 DEF Balancer

LEMMA FreshStep ==
  ASSUME Inductive, Next
  PROVE  Fresh'
<1> USE DEF world, tables, local, history, vars, Goto, Caller, AddStep, DeleteStep
<1> SUFFICES ASSUME NEW b \in Balancer, Unmade(b)'
             PROVE  Untouched(b)'
  BY DEF Fresh
<1>0. /\ TypeOK /\ Placed /\ Sized /\ Resolving
      /\ Unmade(b) /\ Untouched(b) /\ b # None
  BY StaysMade, BalancersDiffer, NothingOutside DEF Inductive, Fresh, Balancer
<1>1. ASSUME NEW m \in Machine, LoadOrCreate(m) PROVE Untouched(b)'
  <2>1. pc'[m] # "idle" BY <1>0, <1>1 DEF TypeOK, LoadOrCreate
  <2>2. b # m BY <2>1 DEF Unmade
  <2>3. lb'[m] # b BY <1>0, <1>1, <2>2 DEF TypeOK, LoadOrCreate, Untouched
  <2> QED BY <1>0, <1>1, <2>3 DEF TypeOK, LoadOrCreate, Untouched
<1>2. ASSUME NEW m \in Machine, Grow(m) PROVE Untouched(b)'
  <2>1. PICK x \in LoadBalancer : heap' = [heap EXCEPT ![lb[m]] = x]
    BY <1>0, <1>2, GrowWrites
  <2>2. lb[m] # b BY <1>0 DEF Untouched
  <2>3. heap'[b] = heap[b] BY <1>0, <2>1, <2>2 DEF TypeOK
  <2> QED BY <1>0, <1>2, <2>3 DEF Grow, Untouched
<1>3. ASSUME NEW m \in Machine, AppendIp(m) PROVE Untouched(b)'
  <2>1. PICK x \in LoadBalancer : heap' = [heap EXCEPT ![lb[m]] = x]
    BY <1>0, <1>3, AppendWrites
  <2>2. lb[m] # b BY <1>0 DEF Untouched
  <2>3. heap'[b] = heap[b] BY <1>0, <2>1, <2>2 DEF TypeOK
  <2> QED BY <1>0, <1>3, <2>3 DEF AppendIp, Untouched
<1>4. ASSUME NEW m \in Machine, StoreHealth(m) PROVE Untouched(b)'
  BY <1>0, <1>4, GoroutinesDiffer DEF TypeOK, Untouched, StoreHealth
<1>5. ASSUME NEW m \in Machine, Publish(m) PROVE Untouched(b)'
  BY <1>0, <1>5, GoroutinesDiffer DEF TypeOK, Untouched, Publish
<1>6. ASSUME NEW m \in Machine, CountUp(m) PROVE Untouched(b)'
  BY <1>0, <1>6, GoroutinesDiffer DEF TypeOK, Untouched, CountUp
<1>7. ASSUME NEW w \in Worker, NEW m \in Machine, Pick(w, m) PROVE Untouched(b)'
  BY <1>0, <1>7, GoroutinesDiffer DEF TypeOK, Untouched, Pick
<1>8. ASSUME NEW w \in Worker, Load(w) PROVE Untouched(b)'
  <2>1. goal[w] \in Machine /\ Svc(w) \in Service
    BY <1>0, <1>8, GoroutinesDiffer DEF Load, TypeOK, Placed, Svc, Target
  <2>2. lb' = [lb EXCEPT ![w] = instances[Svc(w)]] BY <1>8 DEF Load
  <2>3. \A c \in Caller : lb'[c] # b BY <1>0, <2>1, <2>2 DEF TypeOK, Untouched
  <2> QED BY <1>0, <1>8, <2>3 DEF Load, Untouched
<1>9. ASSUME NEW w \in Worker, Shrink(w) PROVE Untouched(b)'
  BY <1>0, <1>9, GoroutinesDiffer DEF TypeOK, Untouched, Shrink
<1>10. ASSUME NEW w \in Worker, Copy(w) PROVE Untouched(b)'
  <2> DEFINE new == <<w, goal[w]>>
  <2>1. goal[w] \in Machine /\ goal[w] \in marked
    BY <1>0, <1>10, CopyWrites DEF Copy, Placed
  <2>2. pc'[w] = "replace" /\ UNCHANGED <<goal, marked>> BY <1>0, <1>10 DEF Copy, TypeOK
  <2>3. b # new
    <3>1. SUFFICES ASSUME b = new PROVE FALSE OBVIOUS
    <3>2. b \notin Machine /\ b[1] = w /\ b[2] = goal[w] BY <2>1, <3>1, BalancersDiffer
    <3> QED BY <2>1, <2>2, <3>2 DEF Unmade
  <2>4. PICK x \in LoadBalancer : heap' = [heap EXCEPT ![new] = x]
    BY <1>0, <1>10, CopyWrites
  <2>5. lb' = [lb EXCEPT ![w] = new] BY <1>10 DEF Copy
  <2> HIDE DEF new
  <2>6. heap'[b] = heap[b] /\ \A c \in Caller : lb'[c] # b
    BY <1>0, <2>3, <2>4, <2>5 DEF TypeOK, Untouched
  <2> QED BY <1>0, <1>10, <2>6 DEF Copy, Untouched
<1>11. ASSUME NEW w \in Worker, CopyPanics(w) PROVE Untouched(b)'
  BY <1>0, <1>11, GoroutinesDiffer DEF TypeOK, Untouched, CopyPanics
<1>12. ASSUME NEW w \in Worker, Replace(w) PROVE Untouched(b)'
  BY <1>0, <1>12, GoroutinesDiffer DEF TypeOK, Untouched, Replace
<1>13. ASSUME NEW w \in Worker, Forget(w) PROVE Untouched(b)'
  BY <1>0, <1>13, GoroutinesDiffer DEF TypeOK, Untouched, Forget
<1>14. ASSUME NEW w \in Worker, CountDown(w) PROVE Untouched(b)'
  BY <1>0, <1>14, GoroutinesDiffer DEF TypeOK, Untouched, CountDown
<1>15. ASSUME NEW c \in Caller, ReadCount(c) PROVE Untouched(b)'
  BY <1>0, <1>15, GoroutinesDiffer DEF TypeOK, Untouched, ReadCount
<1>16. ASSUME NEW r \in Resolver, NEW s \in Service, Resolve(r, s) PROVE Untouched(b)'
  <2>1. PICK y \in Resolution : res' = [res EXCEPT ![r] = y] /\ y.lb = instances[s]
    BY <1>0, <1>16, ResolveWrites
  <2> QED BY <1>0, <1>16, <2>1 DEF TypeOK, Resolve, Untouched
<1>17. ASSUME NEW r \in Resolver, NextInstance(r) PROVE Untouched(b)'
  <2>1. PICK y \in Resolution : res' = [res EXCEPT ![r] = y] /\ (y.lb = None \/ y.lb = res[r].lb)
    BY <1>0, <1>17, NextInstanceWrites DEF NoResolve
  <2> QED BY <1>0, <1>17, <2>1 DEF TypeOK, NextInstance, Untouched
<1>18. ASSUME NEW r \in Resolver, CheckIp(r) PROVE Untouched(b)'
  <2>1. PICK y \in Resolution : res' = [res EXCEPT ![r] = y] /\ (y.lb = None \/ y.lb = res[r].lb)
    BY <1>0, <1>18, CheckIpWrites DEF NoResolve
  <2> QED BY <1>0, <1>18, <2>1 DEF TypeOK, CheckIp, Untouched
<1>19. ASSUME NEW r \in Resolver, Answer(r) PROVE Untouched(b)'
  <2>1. res' = [res EXCEPT ![r] = NoResolve] /\ NoResolve.lb = None
    BY <1>19 DEF Answer, GiveUp, NoResolve
  <2> QED BY <1>0, <1>19, <2>1 DEF TypeOK, Answer, Untouched
<1>20. ASSUME UNCHANGED callers, UNCHANGED res PROVE Untouched(b)'
  BY <1>0, <1>20 DEF callers, Untouched
<1> QED BY <1>1, <1>2, <1>3, <1>4, <1>5, <1>6, <1>7, <1>8, <1>9, <1>10, <1>11, <1>12,
           <1>13, <1>14, <1>15, <1>16, <1>17, <1>18, <1>19, <1>20
  DEF Next, AddServiceIP, DeleteServiceIP, callers, GuestStops, Visit, StoreCheck

(* A worker copies into a load balancer that nothing refers to. *)
LEMMA CopyIsNew ==
  ASSUME TypeOK, Placed, Sized, Fresh, NEW w \in Worker, Copy(w)
  PROVE  Untouched(<<w, goal[w]>>)
<1>1. goal[w] \in Machine /\ <<w, goal[w]>> \in Balancer BY CopyWrites
<1>2. Unmade(<<w, goal[w]>>) BY <1>1, Made DEF Copy
<1> QED BY <1>1, <1>2 DEF Fresh

LEMMA SizedStep ==
  ASSUME Inductive, Next
  PROVE  Sized'
<1> USE DEF world, tables, local, history, vars, Goto, Caller
<1>0. TypeOK /\ Placed /\ Sized /\ Fresh BY DEF Inductive
<1>1. ASSUME NEW m \in Machine, LoadOrCreate(m) PROVE Sized'
  BY <1>0, <1>1, GoroutinesDiffer DEF TypeOK, Sized, Placed, LoadOrCreate
<1>2. ASSUME NEW m \in Machine, Grow(m) PROVE Sized'
  <2>1. PICK x \in LoadBalancer : heap' = [heap EXCEPT ![lb[m]] = x] /\ x.size = tmp[m] + 1
    BY <1>0, <1>2, GrowWrites
  <2>2. lb[m] \in Balancer /\ tmp[m] \in Nat /\ lb' = lb BY <1>0, <1>2, GrowWrites
                                                            DEF Grow, TypeOK, Caller
  <2>3. ASSUME NEW w \in Worker, pc'[w] = "copy"
        PROVE  tmp'[w] > 0 /\ heap'[lb[w]].size > 0
    <3>1. pc[w] = "copy" /\ tmp'[w] = tmp[w]
      BY <1>0, <1>2, <2>3, GoroutinesDiffer DEF TypeOK, Grow
    <3>2. lb[w] \in Balancer BY <1>0, <3>1 DEF TypeOK, Placed, DeleteStep
    <3>3. tmp[w] > 0 /\ heap[lb[w]].size > 0 BY <1>0, <3>1 DEF Sized
    <3>4. CASE lb[w] = lb[m]
      <4>1. heap'[lb[w]] = x BY <1>0, <2>1, <3>2, <3>4 DEF TypeOK
      <4> QED BY <2>1, <2>2, <3>1, <3>3, <3>4, <4>1
    <3>5. CASE lb[w] # lb[m]
      <4>1. heap'[lb[w]] = heap[lb[w]] BY <1>0, <2>1, <3>2, <3>5 DEF TypeOK
      <4> QED BY <3>1, <3>3, <4>1
    <3> QED BY <3>4, <3>5
  <2> QED BY <2>2, <2>3 DEF Sized
<1>3. ASSUME NEW m \in Machine, AppendIp(m) PROVE Sized'
  <2>1. PICK x \in LoadBalancer : heap' = [heap EXCEPT ![lb[m]] = x] /\ x.size = heap[lb[m]].size
    BY <1>0, <1>3, AppendWrites
  <2>2. lb[m] \in Balancer /\ tmp[m] \in Nat /\ lb' = lb BY <1>0, <1>3, AppendWrites
                                                            DEF AppendIp, TypeOK, Caller
  <2>3. ASSUME NEW w \in Worker, pc'[w] = "copy"
        PROVE  tmp'[w] > 0 /\ heap'[lb[w]].size > 0
    <3>1. pc[w] = "copy" /\ tmp'[w] = tmp[w]
      BY <1>0, <1>3, <2>3, GoroutinesDiffer DEF TypeOK, AppendIp
    <3>2. lb[w] \in Balancer BY <1>0, <3>1 DEF TypeOK, Placed, DeleteStep
    <3>3. tmp[w] > 0 /\ heap[lb[w]].size > 0 BY <1>0, <3>1 DEF Sized
    <3>4. CASE lb[w] = lb[m]
      <4>1. heap'[lb[w]] = x BY <1>0, <2>1, <3>2, <3>4 DEF TypeOK
      <4> QED BY <2>1, <2>2, <3>1, <3>3, <3>4, <4>1
    <3>5. CASE lb[w] # lb[m]
      <4>1. heap'[lb[w]] = heap[lb[w]] BY <1>0, <2>1, <3>2, <3>5 DEF TypeOK
      <4> QED BY <3>1, <3>3, <4>1
    <3> QED BY <3>4, <3>5
  <2> QED BY <2>2, <2>3 DEF Sized
<1>4. ASSUME NEW m \in Machine, StoreHealth(m) PROVE Sized'
  BY <1>0, <1>4, GoroutinesDiffer DEF TypeOK, Sized, Placed, StoreHealth
<1>5. ASSUME NEW m \in Machine, Publish(m) PROVE Sized'
  BY <1>0, <1>5, GoroutinesDiffer DEF TypeOK, Sized, Placed, Publish
<1>6. ASSUME NEW m \in Machine, CountUp(m) PROVE Sized'
  BY <1>0, <1>6, GoroutinesDiffer DEF TypeOK, Sized, Placed, CountUp
<1>7. ASSUME NEW w \in Worker, NEW m \in Machine, Pick(w, m) PROVE Sized'
  BY <1>0, <1>7, GoroutinesDiffer DEF TypeOK, Sized, Placed, Pick
<1>8. ASSUME NEW w \in Worker, Load(w) PROVE Sized'
  BY <1>0, <1>8, GoroutinesDiffer DEF TypeOK, Sized, Placed, Load
<1>9. ASSUME NEW w \in Worker, Shrink(w) PROVE Sized'
  <2>1. lb[w] \in Balancer BY <1>0, <1>9 DEF TypeOK, Placed, Shrink, DeleteStep
  <2>2. heap[lb[w]].size \in Nat BY <1>0, <2>1, FieldsWritten DEF TypeOK
  <2> QED BY <1>0, <1>9, <2>2 DEF TypeOK, Sized, Shrink
<1>10. ASSUME NEW w \in Worker, Copy(w) PROVE Sized'
  <2> DEFINE new == <<w, goal[w]>>
  <2>1. Untouched(new) BY <1>0, <1>10, CopyIsNew
  <2>2. PICK x \in LoadBalancer : heap' = [heap EXCEPT ![new] = x]
    BY <1>0, <1>10, CopyWrites
  <2>3. lb' = [lb EXCEPT ![w] = new] /\ pc[w] = "copy" /\ pc' = [pc EXCEPT ![w] = "replace"]
        /\ tmp' = [tmp EXCEPT ![w] = 0]
    BY <1>10 DEF Copy
  <2>4. \A c \in Caller : lb[c] # new BY <2>1 DEF Untouched
  <2> HIDE DEF new
  <2>5. ASSUME NEW v \in Worker, pc'[v] = "copy"
        PROVE  tmp'[v] > 0 /\ heap'[lb'[v]].size > 0
    <3>1. v # w /\ pc[v] = "copy" /\ tmp'[v] = tmp[v] /\ lb'[v] = lb[v]
      BY <1>0, <2>3, <2>5 DEF TypeOK
    <3>2. lb[v] \in Balancer BY <1>0, <3>1 DEF TypeOK, Placed, DeleteStep
    <3>3. heap'[lb[v]] = heap[lb[v]] BY <1>0, <2>2, <2>4, <3>2 DEF TypeOK
    <3> QED BY <1>0, <3>1, <3>3 DEF Sized
  <2> QED BY <2>5 DEF Sized
<1>11. ASSUME NEW w \in Worker, CopyPanics(w) PROVE Sized'
  BY <1>0, <1>11, GoroutinesDiffer DEF TypeOK, Sized, Placed, CopyPanics
<1>12. ASSUME NEW w \in Worker, Replace(w) PROVE Sized'
  BY <1>0, <1>12, GoroutinesDiffer DEF TypeOK, Sized, Placed, Replace
<1>13. ASSUME NEW w \in Worker, Forget(w) PROVE Sized'
  BY <1>0, <1>13, GoroutinesDiffer DEF TypeOK, Sized, Placed, Forget
<1>14. ASSUME NEW w \in Worker, CountDown(w) PROVE Sized'
  BY <1>0, <1>14, GoroutinesDiffer DEF TypeOK, Sized, Placed, CountDown
<1>15. ASSUME NEW c \in Caller, ReadCount(c) PROVE Sized'
  BY <1>0, <1>15, GoroutinesDiffer DEF TypeOK, Sized, Placed, ReadCount
<1>16. ASSUME UNCHANGED callers PROVE Sized'
  BY <1>0, <1>16 DEF callers, Sized
<1> QED BY <1>1, <1>2, <1>3, <1>4, <1>5, <1>6, <1>7, <1>8, <1>9, <1>10, <1>11, <1>12,
           <1>13, <1>14, <1>15, <1>16
  DEF Next, AddServiceIP, DeleteServiceIP, callers, GuestStops, Visit, StoreCheck, Resolve,
      NextInstance, CheckIp, Answer

-----------------------------------------------------------------------------
(* Load balancers and addresses stay with their function. *)

LEMMA WorldFixed ==
  ASSUME Next
  PROVE  UNCHANGED <<svc, addr>>
BY DEF Next, AddServiceIP, DeleteServiceIP, GuestStops, LoadOrCreate, Grow, AppendIp,
   StoreHealth,
       Publish, CountUp, Pick, Load, Shrink, Copy, CopyPanics, Replace, Forget, CountDown,
       ReadCount, Visit, StoreCheck, Resolve, NextInstance, CheckIp, Answer, world

LEMMA OwnersFixed ==
  ASSUME Next
  PROVE  /\ \A b : Owner(b)' = Owner(b)
         /\ \A s : OwnIps(s)' = OwnIps(s)
BY WorldFixed DEF Owner, OwnIps

LEMMA SvcOf ==
  ASSUME TypeOK
  PROVE  /\ \A m \in Machine : Svc(m) = svc[m] /\ Address(m) = addr[m]
         /\ \A w \in Worker : Svc(w) = svc[goal[w]] /\ Address(w) = addr[goal[w]]
         /\ \A w \in Worker : pc[w] # "idle" /\ Placed => goal[w] \in Machine /\ Svc(w) \in Service
BY GoroutinesDiffer DEF TypeOK, Placed, Svc, Address, Target, Caller

LEMMA OwnedStep ==
  ASSUME Inductive, Next
  PROVE  Owned'
<1> USE DEF world, tables, local, history, vars, Goto, Caller
<1> DEFINE Refs ==
      /\ \A s \in Service : instances'[s] # None => Owner(instances'[s]) = s
      /\ \A m \in Machine : lb'[m] # None => Owner(lb'[m]) = svc[m]
      /\ \A w \in Worker : lb'[w] # None => Owner(lb'[w]) = svc[goal'[w]]
<1>0. /\ TypeOK /\ Placed /\ Sized
      /\ \A s \in Service : instances[s] # None => Owner(instances[s]) = s
      /\ \A m \in Machine : lb[m] # None => Owner(lb[m]) = svc[m]
      /\ \A w \in Worker : lb[w] # None => Owner(lb[w]) = svc[goal[w]]
  BY SvcOf DEF Inductive, Owned
<1>1. ASSUME NEW m \in Machine, LoadOrCreate(m) PROVE Refs
  <2> DEFINE b == IF instances[svc[m]] = None THEN m ELSE instances[svc[m]]
  <2>1. Owner(m) = svc[m] BY DEF Owner
  <2>2. svc[m] \in Service BY <1>0 DEF TypeOK
  <2>3. Owner(b) = svc[m]
    <3>1. CASE instances[svc[m]] = None BY <2>1, <3>1
    <3>2. CASE instances[svc[m]] # None
      <4>1. PICK i : i = instances[svc[m]] BY <3>2
      <4>2. b = i BY <3>2, <4>1
      <4>3. Owner(i) = svc[m] BY <1>0, <2>2, <3>2, <4>1 DEF Owner
      <4> HIDE DEF b
      <4> QED BY <4>2, <4>3
    <3> QED BY <3>1, <3>2
  <2>4. lb' = [lb EXCEPT ![m] = b] /\ UNCHANGED <<instances, goal>> BY <1>1 DEF LoadOrCreate
  <2> HIDE DEF b
  <2>5. PICK i : i = b OBVIOUS
  <2>6. Owner(i) = svc[m] BY <2>3, <2>5 DEF Owner
  <2>7. lb'[m] = i /\ \A c \in Caller : c # m => lb'[c] = lb[c] BY <1>0, <2>4, <2>5 DEF TypeOK
  <2> QED BY <1>0, <2>4, <2>6, <2>7, GoroutinesDiffer DEF Owner
<1>2. ASSUME NEW m \in Machine, Grow(m) PROVE Refs
  BY <1>0, <1>2, GoroutinesDiffer DEF TypeOK, Placed, AddStep, DeleteStep, Grow
<1>3. ASSUME NEW m \in Machine, AppendIp(m) PROVE Refs
  BY <1>0, <1>3, GoroutinesDiffer DEF TypeOK, Placed, AddStep, DeleteStep, AppendIp
<1>4. ASSUME NEW m \in Machine, StoreHealth(m) PROVE Refs
  BY <1>0, <1>4, GoroutinesDiffer DEF TypeOK, Placed, AddStep, DeleteStep, StoreHealth
<1>5. ASSUME NEW m \in Machine, Publish(m) PROVE Refs
  BY <1>0, <1>5, GoroutinesDiffer DEF TypeOK, Placed, AddStep, DeleteStep, Publish
<1>6. ASSUME NEW m \in Machine, CountUp(m) PROVE Refs
  BY <1>0, <1>6, GoroutinesDiffer DEF TypeOK, Placed, AddStep, DeleteStep, CountUp
<1>7. ASSUME NEW w \in Worker, NEW m \in Machine, Pick(w, m) PROVE Refs
  <2>1. lb[w] = None BY <1>0, <1>7 DEF Placed, Pick, AddStep, DeleteStep
  <2>2. UNCHANGED <<instances, lb>> /\ goal' = [goal EXCEPT ![w] = m] BY <1>7 DEF Pick
  <2>3. \A v \in Worker : v # w => goal'[v] = goal[v] BY <1>0, <2>2 DEF TypeOK
  <2> QED BY <1>0, <2>1, <2>2, <2>3
<1>8. ASSUME NEW w \in Worker, Load(w) PROVE Refs
  <2>1. goal[w] \in Machine /\ Svc(w) = svc[goal[w]] /\ svc[goal[w]] \in Service
    BY <1>0, <1>8, SvcOf DEF Load
  <2>2. lb' = [lb EXCEPT ![w] = instances[Svc(w)]] /\ UNCHANGED <<instances, goal>>
    BY <1>8 DEF Load
  <2>3. PICK i : i = instances[svc[goal[w]]] BY <2>1
  <2>4. i # None => Owner(i) = svc[goal[w]] BY <1>0, <2>1, <2>3 DEF Owner
  <2>5. lb'[w] = i /\ \A c \in Caller : c # w => lb'[c] = lb[c]
    BY <1>0, <2>1, <2>2, <2>3 DEF TypeOK
  <2> QED BY <1>0, <2>2, <2>4, <2>5, GoroutinesDiffer DEF Owner
<1>9. ASSUME NEW w \in Worker, Shrink(w) PROVE Refs
  BY <1>0, <1>9, GoroutinesDiffer DEF TypeOK, Placed, AddStep, DeleteStep, Shrink
<1>10. ASSUME NEW w \in Worker, Copy(w) PROVE Refs
  <2>1. goal[w] \in Machine /\ <<w, goal[w]>> \in Balancer BY <1>0, <1>10, CopyWrites
  <2>2. PICK i : i = <<w, goal[w]>> OBVIOUS
  <2>3. i \notin Machine /\ i[2] = goal[w] BY <2>1, <2>2, BalancersDiffer
  <2>4. Owner(i) = svc[goal[w]] BY <2>3 DEF Owner
  <2>5. lb' = [lb EXCEPT ![w] = i] /\ UNCHANGED <<instances, goal>> BY <1>10, <2>2 DEF Copy
  <2>6. lb'[w] = i /\ \A c \in Caller : c # w => lb'[c] = lb[c] BY <1>0, <2>5 DEF TypeOK
  <2> QED BY <1>0, <2>4, <2>5, <2>6, GoroutinesDiffer DEF Owner
<1>11. ASSUME NEW w \in Worker, CopyPanics(w) PROVE Refs
  BY <1>0, <1>11, GoroutinesDiffer DEF TypeOK, Placed, AddStep, DeleteStep, CopyPanics
<1>12. ASSUME NEW w \in Worker, Replace(w) PROVE Refs
  <2>1. goal[w] \in Machine /\ Svc(w) = svc[goal[w]] /\ svc[goal[w]] \in Service
    BY <1>0, <1>12, SvcOf DEF Replace
  <2>2. /\ instances' = [instances EXCEPT ![Svc(w)] = lb[w]]
        /\ lb' = [lb EXCEPT ![w] = None] /\ goal' = goal
    BY <1>12 DEF Replace
  <2>3. lb[w] # None => Owner(lb[w]) = svc[goal[w]] BY <1>0
  <2>4. PICK i : i = lb[w] OBVIOUS
  <2>5. i # None => Owner(i) = svc[goal[w]] BY <2>3, <2>4 DEF Owner
  <2>6. /\ instances'[svc[goal[w]]] = i
        /\ \A s \in Service : s # svc[goal[w]] => instances'[s] = instances[s]
        /\ lb'[w] = None /\ \A c \in Caller : c # w => lb'[c] = lb[c]
    BY <1>0, <2>1, <2>2, <2>4 DEF TypeOK
  <2> QED BY <1>0, <2>2, <2>5, <2>6, GoroutinesDiffer DEF Owner
<1>13. ASSUME NEW w \in Worker, Forget(w) PROVE Refs
  BY <1>0, <1>13, GoroutinesDiffer DEF TypeOK, Placed, AddStep, DeleteStep, Forget
<1>14. ASSUME NEW w \in Worker, CountDown(w) PROVE Refs
  <2>1. lb[w] = None BY <1>0, <1>14 DEF Placed, CountDown, AddStep, DeleteStep
  <2>2. UNCHANGED <<instances, lb>> /\ goal' = [goal EXCEPT ![w] = None] BY <1>14 DEF CountDown
  <2>3. \A v \in Worker : v # w => goal'[v] = goal[v] BY <1>0, <2>2 DEF TypeOK
  <2> QED BY <1>0, <2>1, <2>2, <2>3
<1>15. ASSUME NEW c \in Caller, ReadCount(c) PROVE Refs
  BY <1>0, <1>15, GoroutinesDiffer DEF TypeOK, Placed, AddStep, DeleteStep, ReadCount
<1>16. ASSUME UNCHANGED callers PROVE Refs
  BY <1>0, <1>16 DEF callers
<1>17. Refs
  BY <1>1, <1>2, <1>3, <1>4, <1>5, <1>6, <1>7, <1>8, <1>9, <1>10, <1>11, <1>12, <1>13,
     <1>14, <1>15, <1>16
  DEF Next, AddServiceIP, DeleteServiceIP, callers, GuestStops, Visit, StoreCheck, Resolve,
      NextInstance, CheckIp, Answer
<1>18. TypeOK' /\ UNCHANGED svc BY TypeStep, WorldFixed
<1>19. /\ \A m \in Machine : Svc(m)' = svc[m]
       /\ \A w \in Worker : Svc(w)' = svc[goal'[w]]
  BY <1>18, GoroutinesDiffer DEF Svc, Target
<1> QED BY <1>17, <1>19, OwnersFixed DEF Owned

(* The lists that a step may write are those of the objects it works on. *)
LEMMA OwnListsStep ==
  ASSUME Inductive, Next
  PROVE  OwnLists'
<1> USE DEF world, tables, local, history, vars
<1> DEFINE Entries(s) == OwnIps(s) \cup {Blank}
           Kept1 == \A b \in Balancer : heap'[b].ips \in Seq(Entries(Owner(b)))
           Kept2 == \A m \in Machine : got'[m] \in Seq(Entries(svc[m]))
           OK == Kept1 /\ Kept2
<1>0. /\ TypeOK /\ Placed /\ Sized /\ Owned
      /\ \A b \in Balancer : heap[b].ips \in Seq(Entries(Owner(b)))
      /\ \A m \in Machine : got[m] \in Seq(Entries(svc[m]))
  BY DEF Inductive, OwnLists
<1> HIDE DEF Entries
<1>1. ASSUME NEW m \in Machine, Grow(m) PROVE OK
  <2>1. PICK x \in LoadBalancer : heap' = [heap EXCEPT ![lb[m]] = x] /\ x.ips = heap[lb[m]].ips
    BY <1>0, <1>1, GrowWrites
  <2>2. lb[m] \in Balancer /\ lb[m] # None
    BY <1>0, <1>1, GrowWrites, BalancersDiffer, NothingOutside DEF Balancer
  <2>3. PICK b \in Balancer : b = lb[m] BY <2>2
  <2>4. Owner(b) = svc[m] BY <1>0, <2>2, <2>3, SvcOf DEF Owned, Owner, Caller
  <2>5. heap[b].ips \in Seq(Entries(Owner(b))) /\ heap' = [heap EXCEPT ![b] = x]
        /\ x.ips = heap[b].ips
    BY <1>0, <2>1, <2>3
  <2>6. Kept1 BY <1>0, <2>5 DEF TypeOK
  <2>7. got' = [got EXCEPT ![m] = heap[b].ips] BY <1>1, <2>3 DEF Grow
  <2>8. heap[b].ips \in Seq(Entries(svc[m])) BY <2>4, <2>5
  <2>9. Kept2 BY <1>0, <2>7, <2>8 DEF TypeOK
  <2> QED BY <2>6, <2>9
<1>2. ASSUME NEW m \in Machine, AppendIp(m) PROVE OK
  <2>1. PICK x \in LoadBalancer :
          heap' = [heap EXCEPT ![lb[m]] = x] /\ x.ips = Append(got[m], addr[m])
    BY <1>0, <1>2, AppendWrites
  <2>2. lb[m] \in Balancer /\ lb[m] # None
    BY <1>0, <1>2, AppendWrites, BalancersDiffer, NothingOutside DEF Balancer
  <2>3. PICK b \in Balancer : b = lb[m] BY <2>2
  <2>4. Owner(b) = svc[m] BY <1>0, <2>2, <2>3, SvcOf DEF Owned, Owner, Caller
  <2>5. addr[m] \in Entries(svc[m]) /\ got[m] \in Seq(Entries(svc[m]))
    BY <1>0 DEF OwnIps, Entries
  <2>6. x.ips \in Seq(Entries(Owner(b))) BY <2>1, <2>4, <2>5, AppendProperties
  <2>7. Kept1 BY <1>0, <2>1, <2>3, <2>6 DEF TypeOK
  <2>8. got' = [got EXCEPT ![m] = <<>>] /\ <<>> \in Seq(Entries(svc[m]))
    BY <1>2, EmptySeq DEF AppendIp
  <2>9. Kept2 BY <1>0, <2>8 DEF TypeOK
  <2> QED BY <2>7, <2>9
<1>3. ASSUME NEW w \in Worker, Copy(w) PROVE OK
  <2>1. PICK x \in LoadBalancer :
          heap' = [heap EXCEPT ![<<w, goal[w]>>] = x] /\ x.ips = Filled(w)
    BY <1>0, <1>3, CopyWrites
  <2>2. /\ lb[w] \in Balancer /\ lb[w] # None /\ goal[w] \in Machine
        /\ <<w, goal[w]>> \in Balancer
    BY <1>0, <1>3, CopyWrites, BalancersDiffer, NothingOutside DEF Balancer
  <2>3. PICK b \in Balancer : b = lb[w] BY <2>2
  <2>4. PICK n \in Balancer : n = <<w, goal[w]>> BY <2>2
  <2>5. Owner(b) = svc[goal[w]] BY <1>0, <2>2, <2>3, SvcOf DEF Owned, Owner, Caller
  <2>6. n \notin Machine /\ n[2] = goal[w] BY <2>2, <2>4, BalancersDiffer
  <2>7. Owner(n) = svc[goal[w]] BY <2>6 DEF Owner
  <2>8. heap[lb[w]].ips \in Seq(Entries(svc[goal[w]])) BY <1>0, <2>3, <2>5
  <2>9. Kept(w) \in Seq(Entries(svc[goal[w]])) BY <2>8, WithoutProperties DEF Kept
  <2>10. Blank \in Entries(svc[goal[w]]) BY DEF Entries
  <2>11. tmp[w] - 1 - Len(Kept(w)) \in Nat BY <1>0, <1>3, CopyWrites
  <2>12. Filled(w) \in Seq(Entries(svc[goal[w]])) BY <2>9, <2>10, <2>11, Padded DEF Filled
  <2>13. x.ips \in Seq(Entries(Owner(n))) BY <2>1, <2>7, <2>12
  <2>14. Kept1 BY <1>0, <2>1, <2>4, <2>13 DEF TypeOK
  <2>15. got' = got BY <1>3 DEF Copy
  <2> QED BY <1>0, <2>14, <2>15
<1>4. ASSUME UNCHANGED <<heap, got>> PROVE OK
  BY <1>0, <1>4
<1>5. OK
  BY <1>1, <1>2, <1>3, <1>4
  DEF Next, AddServiceIP, DeleteServiceIP, GuestStops, LoadOrCreate, StoreHealth, Publish, CountUp,
      Pick, Load, Shrink, CopyPanics, Replace, Forget, CountDown, ReadCount, Visit, StoreCheck,
      Resolve, NextInstance, CheckIp, Answer
<1>6. \A b : Entries(Owner(b))' = Entries(Owner(b)) BY OwnersFixed DEF Entries
<1>7. \A m \in Machine : Entries(svc[m])' = Entries(svc[m]) BY OwnersFixed, WorldFixed
                                                               DEF Entries
<1> QED BY <1>5, <1>6, <1>7 DEF OwnLists, Entries

(* A machine that is gone does not come back. *)
LEMMA GoneStays ==
  ASSUME Inductive, Next
  PROVE  \A n \in Machine :
           pc[n] = "done" /\ n \in marked \ listed => pc'[n] = "done" /\ n \in marked' \ listed'
<1> USE DEF world, tables, local, history, vars, Goto, Caller
<1> SUFFICES ASSUME NEW n \in Machine, pc[n] = "done", n \in marked \ listed
             PROVE  pc'[n] = "done" /\ n \in marked' \ listed'
  OBVIOUS
<1> DEFINE OK == pc'[n] = "done" /\ n \in marked' \ listed'
<1>0. TypeOK BY DEF Inductive
<1>1. ASSUME NEW m \in Machine, LoadOrCreate(m) PROVE OK
  BY <1>0, <1>1, GoroutinesDiffer DEF TypeOK, LoadOrCreate
<1>2. ASSUME NEW m \in Machine, Grow(m) PROVE OK
  BY <1>0, <1>2, GoroutinesDiffer DEF TypeOK, Grow
<1>3. ASSUME NEW m \in Machine, AppendIp(m) PROVE OK
  BY <1>0, <1>3, GoroutinesDiffer DEF TypeOK, AppendIp
<1>4. ASSUME NEW m \in Machine, StoreHealth(m) PROVE OK
  BY <1>0, <1>4, GoroutinesDiffer DEF TypeOK, StoreHealth
<1>5. ASSUME NEW m \in Machine, Publish(m) PROVE OK
  BY <1>0, <1>5, GoroutinesDiffer DEF TypeOK, Publish
<1>6. ASSUME NEW m \in Machine, CountUp(m) PROVE OK
  BY <1>0, <1>6, GoroutinesDiffer DEF TypeOK, CountUp
<1>7. ASSUME NEW w \in Worker, NEW m \in Machine, Pick(w, m) PROVE OK
  BY <1>0, <1>7, GoroutinesDiffer DEF TypeOK, Pick
<1>8. ASSUME NEW w \in Worker, Load(w) PROVE OK
  BY <1>0, <1>8, GoroutinesDiffer DEF TypeOK, Load
<1>9. ASSUME NEW w \in Worker, Shrink(w) PROVE OK
  BY <1>0, <1>9, GoroutinesDiffer DEF TypeOK, Shrink
<1>10. ASSUME NEW w \in Worker, Copy(w) PROVE OK
  BY <1>0, <1>10, GoroutinesDiffer DEF TypeOK, Copy
<1>11. ASSUME NEW w \in Worker, CopyPanics(w) PROVE OK
  BY <1>0, <1>11, GoroutinesDiffer DEF TypeOK, CopyPanics
<1>12. ASSUME NEW w \in Worker, Replace(w) PROVE OK
  BY <1>0, <1>12, GoroutinesDiffer DEF TypeOK, Replace
<1>13. ASSUME NEW w \in Worker, Forget(w) PROVE OK
  BY <1>0, <1>13, GoroutinesDiffer DEF TypeOK, Forget
<1>14. ASSUME NEW w \in Worker, CountDown(w) PROVE OK
  BY <1>0, <1>14, GoroutinesDiffer DEF TypeOK, CountDown
<1>15. ASSUME NEW c \in Caller, ReadCount(c) PROVE OK
  BY <1>0, <1>15, GoroutinesDiffer DEF TypeOK, ReadCount
<1>16. ASSUME UNCHANGED callers PROVE OK
  BY <1>16 DEF callers
<1> QED
  BY <1>1, <1>2, <1>3, <1>4, <1>5, <1>6, <1>7, <1>8, <1>9, <1>10, <1>11, <1>12, <1>13,
     <1>14, <1>15, <1>16
  DEF Next, AddServiceIP, DeleteServiceIP, callers, GuestStops, Visit, StoreCheck, Resolve,
      NextInstance, CheckIp, Answer

(* What a resolution has read belongs to its function. *)
LEMMA ResolvingStep ==
  ASSUME Inductive, Next
  PROVE  Resolving'
<1> USE DEF world, tables, local, history, vars
<1> DEFINE Fits(y) ==
      /\ y.at \in {"next", "check"} => y.lb # None /\ Owner(y.lb) = y.svc
      /\ y.at = "check" => y.ip \in OwnIps(y.svc) \cup {Blank}
      /\ y.at = "answer" => y.ip \in OwnIps(y.svc)
      /\ \A m \in y.gone : svc[m] = y.svc /\ pc[m] = "done" /\ m \in marked \ listed
<1>0. TypeOK /\ Placed /\ Owned /\ OwnLists /\ Resolving BY DEF Inductive
<1>1. \A q \in Resolver : Fits(res[q]) BY <1>0 DEF Resolving
<1>2. Fits(NoResolve) BY DEF NoResolve
<1>3. ASSUME NEW r \in Resolver, NEW s \in Service, Resolve(r, s)
      PROVE  \A q \in Resolver : Fits(res'[q])
  <2>1. PICK y \in Resolution :
          /\ res' = [res EXCEPT ![r] = y]
          /\ y.at = "next" /\ y.svc = s /\ y.lb = instances[s] /\ y.gone = Gone(s)
    BY <1>0, <1>3, ResolveWrites
  <2>2. instances[s] # None BY <1>3 DEF Resolve
  <2>3. PICK i : i = instances[s] OBVIOUS
  <2>4. Owner(i) = s BY <1>0, <2>2, <2>3 DEF Owned, Owner
  <2>5. PICK l : l = y.lb OBVIOUS
  <2>6. Owner(l) = s BY <2>1, <2>3, <2>4, <2>5 DEF Owner
  <2>7. Owner(y.lb) = s BY <2>5, <2>6 DEF Owner
  <2>8. \A m \in y.gone : svc[m] = s /\ pc[m] = "done" /\ m \in marked \ listed
    BY <2>1 DEF Gone
  <2>9. Fits(y) BY <2>1, <2>2, <2>7, <2>8
  <2> HIDE DEF Fits
  <2> QED BY <1>0, <1>1, <2>1, <2>9 DEF TypeOK
<1>4. ASSUME NEW r \in Resolver, NextInstance(r)
      PROVE  \A q \in Resolver : Fits(res'[q])
  <2>1. PICK y \in Resolution :
          /\ res' = [res EXCEPT ![r] = y]
          /\ y = NoResolve
             \/ /\ y.at = "check"
                /\ y.svc = res[r].svc /\ y.lb = res[r].lb /\ y.gone = res[r].gone
                /\ \E k \in 1..Len(heap[res[r].lb].ips) : y.ip = heap[res[r].lb].ips[k]
    BY <1>0, <1>4, NextInstanceWrites
  <2>2. Fits(y)
    <3>1. CASE y = NoResolve
      <4> HIDE DEF Fits
      <4>1. PICK z : z = NoResolve /\ Fits(z) BY <1>2
      <4> QED BY <1>2, <3>1 DEF Fits, NoResolve
    <3>2. CASE y # NoResolve
      <4>1. Fits(res[r]) /\ res[r].at = "next" /\ res[r] \in Resolution
        BY <1>0, <1>1, <1>4 DEF NextInstance, TypeOK
      <4>2. res[r].lb # None /\ Owner(res[r].lb) = res[r].svc BY <4>1
      <4>3. PICK b \in Balancer : b = res[r].lb BY <4>1, <4>2 DEF Resolution
      <4>4. Owner(b) = res[r].svc BY <4>2, <4>3 DEF Owner
      <4>5. heap[b].ips \in Seq(OwnIps(res[r].svc) \cup {Blank}) BY <1>0, <4>4 DEF OwnLists
      <4>6. y.ip \in OwnIps(res[r].svc) \cup {Blank} BY <2>1, <3>2, <4>3, <4>5, ElementOfSeq
      <4>7. y.lb # None /\ Owner(y.lb) = y.svc BY <2>1, <3>2, <4>2 DEF Owner
      <4>8. PICK s : s = res[r].svc OBVIOUS
      <4>9. y.ip \in OwnIps(s) \cup {Blank} /\ y.svc = s BY <2>1, <3>2, <4>6, <4>8
      <4>10. y.ip \in OwnIps(y.svc) \cup {Blank} BY <4>9 DEF OwnIps
      <4>11. \A m \in y.gone : svc[m] = y.svc /\ pc[m] = "done" /\ m \in marked \ listed
        BY <2>1, <3>2, <4>1
      <4> QED BY <2>1, <3>2, <4>7, <4>10, <4>11
    <3> QED BY <3>1, <3>2
  <2> HIDE DEF Fits
  <2> QED BY <1>0, <1>1, <2>1, <2>2 DEF TypeOK
<1>5. ASSUME NEW r \in Resolver, CheckIp(r)
      PROVE  \A q \in Resolver : Fits(res'[q])
  <2>1. PICK y \in Resolution :
          /\ res' = [res EXCEPT ![r] = y]
          /\ \/ y = NoResolve
             \/ /\ y.at = "next"
                /\ y.svc = res[r].svc /\ y.lb = res[r].lb /\ y.gone = res[r].gone
             \/ /\ y.at = "answer" /\ y.ip = res[r].ip /\ res[r].ip \in Ip
                /\ y.svc = res[r].svc /\ y.lb = res[r].lb /\ y.gone = res[r].gone
    BY <1>0, <1>5, CheckIpWrites
  <2>2. Fits(y)
    <3>1. CASE y = NoResolve BY <1>2, <3>1 DEF NoResolve
    <3>2. CASE y # NoResolve
      <4>1. Fits(res[r]) /\ res[r].at = "check" BY <1>1, <1>5 DEF CheckIp
      <4>2. PICK x : x = res[r] OBVIOUS
      <4>3. Fits(x) /\ x.at = "check" BY <4>1, <4>2 DEF Owner, OwnIps
      <4>4. y.lb # None /\ Owner(y.lb) = y.svc BY <2>1, <3>2, <4>2, <4>3 DEF Owner
      <4>5. y.at = "answer" => y.ip \in OwnIps(y.svc)
        BY <2>1, <3>2, <4>2, <4>3, NothingOutside DEF OwnIps
      <4>6. \A m \in y.gone : svc[m] = y.svc /\ pc[m] = "done" /\ m \in marked \ listed
        BY <2>1, <3>2, <4>2, <4>3
      <4> QED BY <2>1, <3>2, <4>4, <4>5, <4>6
    <3> QED BY <3>1, <3>2
  <2> HIDE DEF Fits
  <2> QED BY <1>0, <1>1, <2>1, <2>2 DEF TypeOK
<1>6. ASSUME NEW r \in Resolver, Answer(r)
      PROVE  \A q \in Resolver : Fits(res'[q])
  <2>1. res' = [res EXCEPT ![r] = NoResolve] BY <1>6 DEF Answer, GiveUp
  <2>2. PICK y : y = NoResolve OBVIOUS
  <2>3. Fits(y) BY <1>2, <2>2 DEF NoResolve
  <2> HIDE DEF Fits
  <2> QED BY <1>0, <1>1, <2>1, <2>2, <2>3 DEF TypeOK
<1>7. ASSUME UNCHANGED res PROVE \A q \in Resolver : Fits(res'[q])
  <2> HIDE DEF Fits
  <2> QED BY <1>1, <1>7
<1>8. \A q \in Resolver : Fits(res'[q])
  <2> HIDE DEF Fits
  <2> QED
    BY <1>3, <1>4, <1>5, <1>6, <1>7
    DEF Next, AddServiceIP, DeleteServiceIP, GuestStops, LoadOrCreate, Grow, AppendIp, StoreHealth,
        Publish, CountUp, Pick, Load, Shrink, Copy, CopyPanics, Replace, Forget, CountDown,
        ReadCount, Visit, StoreCheck
<1>9. TypeOK' /\ UNCHANGED svc BY TypeStep, WorldFixed
<1>10. ASSUME NEW q \in Resolver, NEW m \in res'[q].gone
       PROVE  svc'[m] = res'[q].svc /\ pc'[m] = "done" /\ m \in marked' \ listed'
  <2>1. res'[q] \in Resolution BY <1>9 DEF TypeOK
  <2>2. m \in Machine BY <2>1 DEF Resolution
  <2> QED BY <1>8, <1>9, <2>2, GoneStays
<1>11. ASSUME NEW q \in Resolver
       PROVE  /\ res'[q].at \in {"next", "check"} =>
                    res'[q].lb # None /\ Owner(res'[q].lb) = res'[q].svc
              /\ res'[q].at = "check" => res'[q].ip \in OwnIps(res'[q].svc) \cup {Blank}
              /\ res'[q].at = "answer" => res'[q].ip \in OwnIps(res'[q].svc)
  BY <1>8
<1> QED BY <1>10, <1>11, WorldFixed DEF Resolving, Owner, OwnIps

-----------------------------------------------------------------------------
(* Calls on a function that do not overlap. *)

(* Who goes on with a call does so on the same function; who starts one    *)
(* finds no other call, or marks the function as raced.                    *)
LEMMA CallsBegin ==
  ASSUME Inductive, Next
  PROVE  /\ raced \subseteq raced'
         /\ \/ \A c \in Caller : Calling(c)' => Calling(c) /\ Svc(c)' = Svc(c)
            \/ \E a \in Caller :
                 /\ \A c \in Caller : c # a /\ Calling(c)' => Calling(c) /\ Svc(c)' = Svc(c)
                 /\ Calling(a)' =>
                      \/ Calling(a) /\ Svc(a)' = Svc(a)
                      \/ Svc(a)' \in raced'
                      \/ \A c \in Caller : Calling(c) => Svc(c) # Svc(a)'
<1> USE DEF world, tables, local, history, vars, Goto, Overlap, InCall
<1> DEFINE Other(a) == \A c \in Caller : c # a /\ Calling(c)' => Calling(c) /\ Svc(c)' = Svc(c)
           Starts(a) ==
             Calling(a)' =>
               \/ Calling(a) /\ Svc(a)' = Svc(a)
               \/ Svc(a)' \in raced'
               \/ \A c \in Caller : Calling(c) => Svc(c) # Svc(a)'
           Same == \A c \in Caller : Calling(c)' => Calling(c) /\ Svc(c)' = Svc(c)
           OK == raced \subseteq raced' /\ (Same \/ \E a \in Caller : Other(a) /\ Starts(a))
<1>0. TypeOK /\ Placed BY DEF Inductive
<1>1. ASSUME NEW m \in Machine, LoadOrCreate(m) PROVE OK
  <2>1. m \in Caller BY DEF Caller
  <2>2. raced \subseteq raced' /\ Other(m)
    BY <1>0, <1>1, GoroutinesDiffer DEF TypeOK, Placed, LoadOrCreate, Svc, Target,
       Calling, AddStep, DeleteStep, Caller
  <2>3. Starts(m)
    BY <1>0, <1>1, GoroutinesDiffer DEF TypeOK, Placed, LoadOrCreate, Svc, Target,
       Calling, AddStep, DeleteStep, Caller
  <2> QED BY <2>1, <2>2, <2>3
<1>2. ASSUME NEW m \in Machine, Grow(m) PROVE OK
  <2>1. m \in Caller BY DEF Caller
  <2>2. raced \subseteq raced' /\ Other(m)
    BY <1>0, <1>2, GoroutinesDiffer DEF TypeOK, Placed, Grow, Svc, Target, Calling,
       AddStep, DeleteStep, Caller
  <2>3. Starts(m)
    BY <1>0, <1>2, GoroutinesDiffer DEF TypeOK, Placed, Grow, Svc, Target, Calling,
       AddStep, DeleteStep, Caller
  <2> QED BY <2>1, <2>2, <2>3
<1>3. ASSUME NEW m \in Machine, AppendIp(m) PROVE OK
  <2>1. m \in Caller BY DEF Caller
  <2>2. raced \subseteq raced' /\ Other(m)
    BY <1>0, <1>3, GoroutinesDiffer DEF TypeOK, Placed, AppendIp, Svc, Target, Calling,
       AddStep, DeleteStep, Caller
  <2>3. Starts(m)
    BY <1>0, <1>3, GoroutinesDiffer DEF TypeOK, Placed, AppendIp, Svc, Target, Calling,
       AddStep, DeleteStep, Caller
  <2> QED BY <2>1, <2>2, <2>3
<1>4. ASSUME NEW m \in Machine, StoreHealth(m) PROVE OK
  <2>1. m \in Caller BY DEF Caller
  <2>2. raced \subseteq raced' /\ Other(m)
    BY <1>0, <1>4, GoroutinesDiffer DEF TypeOK, Placed, StoreHealth, Svc, Target, Calling,
       AddStep, DeleteStep, Caller
  <2>3. Starts(m)
    BY <1>0, <1>4, GoroutinesDiffer DEF TypeOK, Placed, StoreHealth, Svc, Target, Calling,
       AddStep, DeleteStep, Caller
  <2> QED BY <2>1, <2>2, <2>3
<1>5. ASSUME NEW m \in Machine, Publish(m) PROVE OK
  <2>1. m \in Caller BY DEF Caller
  <2>2. raced \subseteq raced' /\ Other(m)
    BY <1>0, <1>5, GoroutinesDiffer DEF TypeOK, Placed, Publish, Svc, Target, Calling,
       AddStep, DeleteStep, Caller
  <2>3. Starts(m)
    BY <1>0, <1>5, GoroutinesDiffer DEF TypeOK, Placed, Publish, Svc, Target, Calling,
       AddStep, DeleteStep, Caller
  <2> QED BY <2>1, <2>2, <2>3
<1>6. ASSUME NEW m \in Machine, CountUp(m) PROVE OK
  <2>1. m \in Caller BY DEF Caller
  <2>2. raced \subseteq raced' /\ Other(m)
    BY <1>0, <1>6, GoroutinesDiffer DEF TypeOK, Placed, CountUp, Svc, Target, Calling,
       AddStep, DeleteStep, Caller
  <2>3. Starts(m)
    BY <1>0, <1>6, GoroutinesDiffer DEF TypeOK, Placed, CountUp, Svc, Target, Calling,
       AddStep, DeleteStep, Caller
  <2> QED BY <2>1, <2>2, <2>3
<1>7. ASSUME NEW w \in Worker, NEW m \in Machine, Pick(w, m) PROVE OK
  <2>1. w \in Caller BY DEF Caller
  <2>2. raced \subseteq raced' /\ Other(w)
    BY <1>0, <1>7, GoroutinesDiffer DEF TypeOK, Placed, Pick, Svc, Target, Calling,
       AddStep, DeleteStep, Caller
  <2>3. Starts(w)
    BY <1>0, <1>7, GoroutinesDiffer DEF TypeOK, Placed, Pick, Svc, Target, Calling,
       AddStep, DeleteStep, Caller
  <2> QED BY <2>1, <2>2, <2>3
<1>8. ASSUME NEW w \in Worker, Load(w) PROVE OK
  <2>1. w \in Caller BY DEF Caller
  <2>2. raced \subseteq raced' /\ Other(w)
    BY <1>0, <1>8, GoroutinesDiffer DEF TypeOK, Placed, Load, Svc, Target, Calling,
       AddStep, DeleteStep, Caller
  <2>3. Starts(w)
    BY <1>0, <1>8, GoroutinesDiffer DEF TypeOK, Placed, Load, Svc, Target, Calling,
       AddStep, DeleteStep, Caller
  <2> QED BY <2>1, <2>2, <2>3
<1>9. ASSUME NEW w \in Worker, Shrink(w) PROVE OK
  <2>1. w \in Caller BY DEF Caller
  <2>2. raced \subseteq raced' /\ Other(w)
    BY <1>0, <1>9, GoroutinesDiffer DEF TypeOK, Placed, Shrink, Svc, Target, Calling,
       AddStep, DeleteStep, Caller
  <2>3. Starts(w)
    BY <1>0, <1>9, GoroutinesDiffer DEF TypeOK, Placed, Shrink, Svc, Target, Calling,
       AddStep, DeleteStep, Caller
  <2> QED BY <2>1, <2>2, <2>3
<1>10. ASSUME NEW w \in Worker, Copy(w) PROVE OK
  <2>1. w \in Caller BY DEF Caller
  <2>2. raced \subseteq raced' /\ Other(w)
    BY <1>0, <1>10, GoroutinesDiffer DEF TypeOK, Placed, Copy, Svc, Target, Calling,
       AddStep, DeleteStep, Caller
  <2>3. Starts(w)
    BY <1>0, <1>10, GoroutinesDiffer DEF TypeOK, Placed, Copy, Svc, Target, Calling,
       AddStep, DeleteStep, Caller
  <2> QED BY <2>1, <2>2, <2>3
<1>11. ASSUME NEW w \in Worker, CopyPanics(w) PROVE OK
  <2>1. w \in Caller BY DEF Caller
  <2>2. raced \subseteq raced' /\ Other(w)
    BY <1>0, <1>11, GoroutinesDiffer DEF TypeOK, Placed, CopyPanics, Svc, Target, Calling,
       AddStep, DeleteStep, Caller
  <2>3. Starts(w)
    BY <1>0, <1>11, GoroutinesDiffer DEF TypeOK, Placed, CopyPanics, Svc, Target, Calling,
       AddStep, DeleteStep, Caller
  <2> QED BY <2>1, <2>2, <2>3
<1>12. ASSUME NEW w \in Worker, Replace(w) PROVE OK
  <2>1. w \in Caller BY DEF Caller
  <2>2. raced \subseteq raced' /\ Other(w)
    BY <1>0, <1>12, GoroutinesDiffer DEF TypeOK, Placed, Replace, Svc, Target, Calling,
       AddStep, DeleteStep, Caller
  <2>3. Starts(w)
    BY <1>0, <1>12, GoroutinesDiffer DEF TypeOK, Placed, Replace, Svc, Target, Calling,
       AddStep, DeleteStep, Caller
  <2> QED BY <2>1, <2>2, <2>3
<1>13. ASSUME NEW w \in Worker, Forget(w) PROVE OK
  <2>1. w \in Caller BY DEF Caller
  <2>2. raced \subseteq raced' /\ Other(w)
    BY <1>0, <1>13, GoroutinesDiffer DEF TypeOK, Placed, Forget, Svc, Target, Calling,
       AddStep, DeleteStep, Caller
  <2>3. Starts(w)
    BY <1>0, <1>13, GoroutinesDiffer DEF TypeOK, Placed, Forget, Svc, Target, Calling,
       AddStep, DeleteStep, Caller
  <2> QED BY <2>1, <2>2, <2>3
<1>14. ASSUME NEW w \in Worker, CountDown(w) PROVE OK
  <2>1. w \in Caller BY DEF Caller
  <2>2. raced \subseteq raced' /\ Other(w)
    BY <1>0, <1>14, GoroutinesDiffer DEF TypeOK, Placed, CountDown, Svc, Target, Calling,
       AddStep, DeleteStep, Caller
  <2>3. Starts(w)
    BY <1>0, <1>14, GoroutinesDiffer DEF TypeOK, Placed, CountDown, Svc, Target, Calling,
       AddStep, DeleteStep, Caller
  <2> QED BY <2>1, <2>2, <2>3
<1>15. ASSUME NEW c \in Caller, ReadCount(c) PROVE OK
  <2>1. c \in Caller BY DEF Caller
  <2>2. raced \subseteq raced' /\ Other(c)
    BY <1>0, <1>15, GoroutinesDiffer DEF TypeOK, Placed, ReadCount, Svc, Target, Calling,
       AddStep, DeleteStep, Caller
  <2>3. Starts(c)
    BY <1>0, <1>15, GoroutinesDiffer DEF TypeOK, Placed, ReadCount, Svc, Target, Calling,
       AddStep, DeleteStep, Caller
  <2> QED BY <2>1, <2>2, <2>3
<1>16. ASSUME UNCHANGED callers PROVE OK
  BY <1>16 DEF callers, Calling, Svc, Target
<1> QED
  BY <1>1, <1>2, <1>3, <1>4, <1>5, <1>6, <1>7, <1>8, <1>9, <1>10, <1>11, <1>12, <1>13,
     <1>14, <1>15, <1>16
  DEF Next, AddServiceIP, DeleteServiceIP, callers, GuestStops, Visit, StoreCheck, Resolve,
      NextInstance, CheckIp, Answer

LEMMA AloneStep ==
  ASSUME Inductive, Next
  PROVE  Alone'
<1>1. \A c, d \in Caller :
        Calling(c) /\ Calling(d) /\ Svc(c) = Svc(d) /\ Svc(c) \in Service \ raced => c = d
  BY DEF Inductive, Alone, InCall, Calling
<1>2. ASSUME NEW c \in Caller, NEW d \in Caller, Calling(c)', Calling(d)',
             Svc(c)' = Svc(d)', Svc(c)' \in Service \ raced'
      PROVE  c = d
  BY <1>1, <1>2, CallsBegin
<1> QED BY <1>2 DEF Alone, InCall, Calling

LEMMA DeletesListedStep ==
  ASSUME Inductive, Next
  PROVE  DeletesListed'
<1> USE DEF world, tables, local, history, vars, Goto, Caller, DeleteStep
<1> DEFINE OK == \A w \in Worker :
      pc'[w] \in DeleteStep /\ svc[goal'[w]] \notin raced' => goal'[w] \in listed' \cup undue'
<1>0. /\ TypeOK /\ Placed
      /\ raced \subseteq raced'
      /\ \A w \in Worker :
           pc[w] \in DeleteStep /\ svc[goal[w]] \notin raced => goal[w] \in listed \cup undue
      /\ \A v, w \in Worker :
           /\ pc[v] \in DeleteStep /\ pc[w] \in DeleteStep
           /\ svc[goal[v]] = svc[goal[w]] /\ svc[goal[v]] \notin raced
           => v = w
  <2>1. TypeOK /\ Placed /\ Alone /\ DeletesListed /\ raced \subseteq raced'
    BY CallsBegin DEF Inductive
  <2>2. ASSUME NEW v \in Worker, NEW w \in Worker, pc[v] \in DeleteStep, pc[w] \in DeleteStep,
               svc[goal[v]] = svc[goal[w]], svc[goal[v]] \notin raced
        PROVE  v = w
    <3>1. Svc(v) = svc[goal[v]] /\ Svc(w) = svc[goal[w]] /\ Svc(v) \in Service
      BY <2>1, <2>2, SvcOf
    <3>2. v \in InCall(Svc(v)) /\ w \in InCall(Svc(v)) BY <2>2, <3>1 DEF InCall, Calling
    <3> QED BY <2>1, <2>2, <3>1, <3>2 DEF Alone
  <2> QED BY <2>1, <2>2, SvcOf DEF DeletesListed
<1>1. ASSUME NEW m \in Machine, LoadOrCreate(m) PROVE OK
  BY <1>0, <1>1, GoroutinesDiffer DEF TypeOK, Placed, AddStep, LoadOrCreate
<1>2. ASSUME NEW m \in Machine, Grow(m) PROVE OK
  BY <1>0, <1>2, GoroutinesDiffer DEF TypeOK, Placed, AddStep, Grow
<1>3. ASSUME NEW m \in Machine, AppendIp(m) PROVE OK
  BY <1>0, <1>3, GoroutinesDiffer DEF TypeOK, Placed, AddStep, AppendIp
<1>4. ASSUME NEW m \in Machine, StoreHealth(m) PROVE OK
  BY <1>0, <1>4, GoroutinesDiffer DEF TypeOK, Placed, AddStep, StoreHealth
<1>5. ASSUME NEW m \in Machine, Publish(m) PROVE OK
  BY <1>0, <1>5, GoroutinesDiffer DEF TypeOK, Placed, AddStep, Publish
<1>6. ASSUME NEW m \in Machine, CountUp(m) PROVE OK
  BY <1>0, <1>6, GoroutinesDiffer DEF TypeOK, Placed, AddStep, CountUp
<1>7. ASSUME NEW w \in Worker, NEW m \in Machine, Pick(w, m) PROVE OK
  BY <1>0, <1>7, GoroutinesDiffer DEF TypeOK, Placed, AddStep, Pick
<1>8. ASSUME NEW w \in Worker, Load(w) PROVE OK
  BY <1>0, <1>8, GoroutinesDiffer DEF TypeOK, Placed, AddStep, Load
<1>9. ASSUME NEW w \in Worker, Shrink(w) PROVE OK
  BY <1>0, <1>9, GoroutinesDiffer DEF TypeOK, Placed, AddStep, Shrink
<1>10. ASSUME NEW w \in Worker, Copy(w) PROVE OK
  BY <1>0, <1>10, GoroutinesDiffer DEF TypeOK, Placed, AddStep, Copy
<1>11. ASSUME NEW w \in Worker, CopyPanics(w) PROVE OK
  BY <1>0, <1>11, GoroutinesDiffer DEF TypeOK, Placed, AddStep, CopyPanics
<1>12. ASSUME NEW w \in Worker, Replace(w) PROVE OK
  BY <1>0, <1>12, GoroutinesDiffer DEF TypeOK, Placed, AddStep, Replace
<1>13. ASSUME NEW w \in Worker, Forget(w) PROVE OK
  BY <1>0, <1>13, GoroutinesDiffer DEF TypeOK, Placed, AddStep, Forget
<1>14. ASSUME NEW w \in Worker, CountDown(w) PROVE OK
  BY <1>0, <1>14, GoroutinesDiffer DEF TypeOK, Placed, AddStep, CountDown
<1>15. ASSUME NEW c \in Caller, ReadCount(c) PROVE OK
  BY <1>0, <1>15, GoroutinesDiffer DEF TypeOK, Placed, AddStep, ReadCount
<1>16. ASSUME UNCHANGED callers PROVE OK
  BY <1>0, <1>16 DEF callers
<1>17. OK
  BY <1>1, <1>2, <1>3, <1>4, <1>5, <1>6, <1>7, <1>8, <1>9, <1>10, <1>11, <1>12, <1>13,
     <1>14, <1>15, <1>16
  DEF Next, AddServiceIP, DeleteServiceIP, callers, GuestStops, Visit, StoreCheck, Resolve,
      NextInstance, CheckIp, Answer
<1>18. \A w \in Worker : Svc(w)' = svc[goal'[w]]
  BY WorldFixed, GoroutinesDiffer DEF Svc, Target
<1> QED BY <1>17, <1>18 DEF DeletesListed

-----------------------------------------------------------------------------
(* Lists are exact. *)

LEMMA AddressesFinite ==
  ASSUME TypeOK, NEW s
  PROVE  /\ IsFiniteSet(Addresses(s))
         /\ Distinct(s) => Cardinality(Addresses(s)) = Cardinality({m \in listed : svc[m] = s})
<1> DEFINE M == {m \in listed : svc[m] = s}
           f == [m \in M |-> addr[m]]
<1>1. M \in SUBSET Machine BY DEF TypeOK
<1>2. IsFiniteSet(M) BY <1>1, MachinesFinite, FS_Subset
<1>3. Addresses(s) = {addr[m] : m \in M} BY DEF Addresses
<1> HIDE DEF M
<1>4. f \in Surjection(M, Addresses(s)) BY <1>3 DEF Surjection
<1>5. Distinct(s) => f \in Injection(M, Addresses(s))
  <2>1. ASSUME Distinct(s), NEW m \in M, NEW n \in M, f[m] = f[n] PROVE m = n
    BY <1>1, <2>1 DEF Distinct, M
  <2>2. f \in [M -> Addresses(s)] BY <1>3
  <2> QED BY <2>1, <2>2 DEF Injection, IsInjective
<1> HIDE DEF f
<1>6. IsFiniteSet(Addresses(s))
      /\ (Cardinality(Addresses(s)) = Cardinality(M) <=> f \in Injection(M, Addresses(s)))
  BY <1>2, <1>4, FS_Surjection
<1> QED BY <1>5, <1>6 DEF M

(* A step leaves the list of s and the calls that work on it alone. *)
Elsewhere(s) ==
  /\ instances'[s] = instances[s]
  /\ \A m \in Machine : svc[m] = s =>
       /\ m \in listed' <=> m \in listed
       /\ pc[m] \in {"append", "report", "publish"} => pc'[m] = pc[m]
  /\ \A b \in Balancer : Owner(b) = s => heap'[b] = heap[b]
  /\ \A c \in Caller : Calling(c)' /\ Svc(c)' = s =>
       /\ Calling(c) /\ Svc(c) = s /\ Address(c)' = Address(c)
       /\ pc'[c] = pc[c] /\ lb'[c] = lb[c] /\ tmp'[c] = tmp[c]
       /\ c \in Machine => got'[c] = got[c]

LEMMA ElsewhereKeeps ==
  ASSUME Inductive, Next, NEW s \in Service, Elsewhere(s), Undisturbed(s)
  PROVE  /\ PublishedList(s)'
         /\ \A c \in Caller : Calling(c)' /\ Svc(c)' = s => ListInHand(c)'
<1>0. TypeOK /\ Placed /\ Owned /\ PublishedList(s) /\ UNCHANGED <<svc, addr>> /\ TypeOK'
  BY WorldFixed, TypeStep DEF Inductive, Published
<1>1. Addresses(s)' = Addresses(s)
  <2>1. listed \in SUBSET Machine /\ listed' \in SUBSET Machine BY <1>0 DEF TypeOK
  <2>2. {n \in listed' : svc[n] = s} = {n \in listed : svc[n] = s} BY <2>1 DEF Elsewhere
  <2> QED BY <1>0, <2>2 DEF Addresses
<1>2. PublishedList(s)'
  <2>1. CASE instances[s] = None BY <1>0, <1>1, <2>1 DEF PublishedList, Elsewhere
  <2>2. CASE instances[s] # None
    <3>1. PICK b \in Balancer : b = instances[s] BY <1>0, <2>2 DEF TypeOK
    <3>2. Owner(b) = s BY <1>0, <2>2, <3>1 DEF Owned, Owner
    <3>3. heap'[b] = heap[b] /\ instances'[s] = b BY <3>1, <3>2 DEF Elsewhere
    <3>4. Exact(heap[b], Addresses(s)) => Exact(heap'[b], Addresses(s)') BY <1>1, <3>3
    <3>5. \/ \E m \in Machine : svc[m] = s /\ pc[m] \in {"append", "report", "publish"}
          \/ Exact(heap[b], Addresses(s))
      BY <1>0, <2>2, <3>1 DEF PublishedList
    <3>6. \/ \E m \in Machine : svc'[m] = s /\ pc'[m] \in {"append", "report", "publish"}
          \/ Exact(heap'[b], Addresses(s)')
      BY <1>0, <3>4, <3>5 DEF Elsewhere
    <3>7. instances'[s] # None BY <2>2, <3>1, <3>3
    <3> QED BY <3>3, <3>6, <3>7 DEF PublishedList
  <2> QED BY <2>1, <2>2
<1>3. ASSUME NEW c \in Caller, Calling(c)', Svc(c)' = s PROVE ListInHand(c)'
  <2>1. /\ Calling(c) /\ Svc(c) = s /\ Address(c)' = Address(c)
        /\ pc'[c] = pc[c] /\ lb'[c] = lb[c] /\ tmp'[c] = tmp[c]
        /\ c \in Machine => got'[c] = got[c]
    BY <1>3 DEF Elsewhere
  <2>2. ListInHand(c) BY <2>1 DEF Inductive, InHand
  <2>3. PICK b \in Balancer : b = lb[c] BY <1>0, <2>1 DEF TypeOK, Placed, Calling
  <2>4. b # None BY BalancersDiffer, NothingOutside DEF Balancer
  <2>5. Owner(b) = s BY <1>0, <2>1, <2>3, <2>4 DEF Owned, Owner
  <2>6. heap'[b] = heap[b] BY <2>5 DEF Elsewhere
  <2>7. pc[c] = "append" => c \in Machine BY <1>0 DEF Placed, DeleteStep, Caller
  <2>8. instances'[s] = instances[s] BY DEF Elsewhere
  <2> QED BY <1>1, <1>3, <2>1, <2>2, <2>3, <2>6, <2>7, <2>8 DEF ListInHand
<1> QED BY <1>2, <1>3

(* A step of a that writes only what belongs to its function. *)
Touches(a) ==
  /\ Svc(a) \in Service /\ Svc(a)' = Svc(a) /\ Address(a)' = Address(a)
  /\ Calling(a) \/ Calling(a)'
  /\ \A t \in Service : t # Svc(a) => instances'[t] = instances[t]
  /\ \A b \in Balancer : Owner(b) # Svc(a) => heap'[b] = heap[b]
  /\ \A m \in Machine : svc[m] # Svc(a) => (m \in listed' <=> m \in listed)
  /\ \A c \in Caller : c # a =>
       /\ pc'[c] = pc[c] /\ lb'[c] = lb[c] /\ tmp'[c] = tmp[c]
       /\ Svc(c)' = Svc(c) /\ Address(c)' = Address(c)
       /\ c \in Machine => got'[c] = got[c]

ListsKept(s) ==
  Undisturbed(s)' =>
    /\ PublishedList(s)'
    /\ \A c \in Caller : Calling(c)' /\ Svc(c)' = s => ListInHand(c)'

(* So only the list of that function and the call of a are of interest. *)
LEMMA OnlyItsList ==
  ASSUME Inductive, Next, Alone', NEW a \in Caller, Touches(a), NEW t \in Service, Svc(a) = t,
         Undisturbed(t)' => PublishedList(t)' /\ (Calling(a)' => ListInHand(a)')
  PROVE  \A s \in Service : ListsKept(s)
<1>1. TAKE s \in Service
<1>2. SUFFICES ASSUME Undisturbed(s)'
               PROVE  /\ PublishedList(s)'
                      /\ \A c \in Caller : Calling(c)' /\ Svc(c)' = s => ListInHand(c)'
  BY DEF ListsKept
<1>3. Undisturbed(s) /\ raced \subseteq raced'
  BY <1>2, WorldFixed, CallsBegin DEF Undisturbed, Distinct
<1>4. CASE Svc(a) # s
  <2>1. \A m \in Machine : m \in Caller /\ Svc(m) = svc[m]
    BY SvcOf DEF Caller, Inductive
  <2>2. \A m \in Machine : svc[m] = s /\ pc[m] \in {"append", "report", "publish"}
                            => pc'[m] = pc[m]
    BY <1>4, <2>1 DEF Touches
  <2>3. Elsewhere(s)
    BY <1>4, <2>2 DEF Touches, Elsewhere, Calling
  <2> QED BY <1>3, <2>3, ElsewhereKeeps
<1>5. CASE Svc(a) = s
  <2>1. ASSUME NEW c \in Caller, Calling(c)', Svc(c)' = s PROVE c = a
    <3>1. SUFFICES ASSUME c # a PROVE FALSE OBVIOUS
    <3>2. Calling(c) /\ Svc(c) = s BY <2>1, <3>1 DEF Touches, Calling
    <3>3. CASE Calling(a)
      <4>1. a \in InCall(s) /\ c \in InCall(s) BY <1>5, <3>2, <3>3 DEF InCall
      <4> QED BY <1>3, <3>1, <4>1 DEF Inductive, Alone, Undisturbed
    <3>4. CASE Calling(a)'
      <4>1. a \in InCall(s)' /\ c \in InCall(s)'
        BY <1>5, <2>1, <3>4 DEF InCall, Touches
      <4> QED BY <1>2, <3>1, <4>1 DEF Alone, Undisturbed
    <3> QED BY <3>3, <3>4 DEF Touches
  <2>2. t = s BY <1>5
  <2> QED BY <1>2, <2>1, <2>2
<1> QED BY <1>4, <1>5

LEMMA SerialCall ==
  ASSUME Inductive, Next, NEW t \in Service, Undisturbed(t)'
  PROVE  /\ Undisturbed(t) /\ PublishedList(t) /\ IsFiniteSet(Addresses(t))
         /\ listed' = listed => Addresses(t)' = Addresses(t)
         /\ \A c \in Caller : Calling(c) /\ Svc(c) = t => ListInHand(c)
<1>1. Undisturbed(t)
  BY WorldFixed, CallsBegin DEF Undisturbed, Distinct
<1>2. PublishedList(t) /\ \A c \in Caller : Calling(c) /\ Svc(c) = t => ListInHand(c)
  BY <1>1 DEF Inductive, Published, InHand
<1>3. IsFiniteSet(Addresses(t)) BY AddressesFinite DEF Inductive
<1>4. listed' = listed => Addresses(t)' = Addresses(t) BY WorldFixed DEF Addresses
<1> QED BY <1>1, <1>2, <1>3, <1>4

LEMMA TouchesOwn ==
  ASSUME Inductive, Next
  PROVE  /\ \A m \in Machine :
              LoadOrCreate(m) \/ Grow(m) \/ AppendIp(m) \/ StoreHealth(m) \/ Publish(m) => Touches(m)
         /\ \A w \in Worker :
              \/ Load(w) /\ instances[Svc(w)] # None
              \/ Shrink(w) \/ Copy(w) \/ Replace(w)
              => Touches(w)
<1> USE DEF world, tables, local, history, vars, Goto
<1> DEFINE T(a, t) ==
      /\ \A u \in Service : u # t => instances'[u] = instances[u]
      /\ \A b \in Balancer : Owner(b) # t => heap'[b] = heap[b]
      /\ \A m \in Machine : svc[m] # t => (m \in listed' <=> m \in listed)
      /\ \A c \in Caller : c # a =>
           /\ pc'[c] = pc[c] /\ lb'[c] = lb[c] /\ tmp'[c] = tmp[c]
           /\ c \in Machine => got'[c] = got[c]
      /\ Calling(a) \/ Calling(a)'
      /\ UNCHANGED goal
<1>0. /\ TypeOK /\ Placed /\ Sized /\ Owned /\ UNCHANGED <<svc, addr>>
      /\ \A c \in Caller : Target(c)' = IF c \in Machine THEN c ELSE goal'[c]
  BY WorldFixed DEF Inductive, Target
<1> USE DEF Calling, AddStep, DeleteStep, Caller
<1>1. ASSUME NEW m \in Machine, LoadOrCreate(m) PROVE T(m, svc[m])
  BY <1>0, <1>1, GoroutinesDiffer DEF TypeOK, Placed, LoadOrCreate
<1>2. ASSUME NEW m \in Machine, Grow(m) PROVE T(m, svc[m])
  <2>1. PICK x \in LoadBalancer : heap' = [heap EXCEPT ![lb[m]] = x] BY <1>0, <1>2, GrowWrites
  <2>2. lb[m] \in Balancer /\ lb[m] # None
    BY <1>0, <1>2, BalancersDiffer, NothingOutside DEF Balancer, TypeOK, Placed, Grow
  <2>3. PICK b \in Balancer : b = lb[m] BY <2>2
  <2>4. Owner(b) = svc[m] BY <1>0, <2>2, <2>3, SvcOf DEF Owned, Owner
  <2>5. \A d \in Balancer : Owner(d) # svc[m] => heap'[d] = heap[d]
    BY <1>0, <2>1, <2>3, <2>4 DEF TypeOK
  <2> QED BY <1>0, <1>2, <2>5, GoroutinesDiffer DEF TypeOK, Grow
<1>3. ASSUME NEW m \in Machine, AppendIp(m) PROVE T(m, svc[m])
  <2>1. PICK x \in LoadBalancer : heap' = [heap EXCEPT ![lb[m]] = x] BY <1>0, <1>3, AppendWrites
  <2>2. lb[m] \in Balancer /\ lb[m] # None
    BY <1>0, <1>3, BalancersDiffer, NothingOutside DEF Balancer, TypeOK, Placed, AppendIp
  <2>3. PICK b \in Balancer : b = lb[m] BY <2>2
  <2>4. Owner(b) = svc[m] BY <1>0, <2>2, <2>3, SvcOf DEF Owned, Owner
  <2>5. \A d \in Balancer : Owner(d) # svc[m] => heap'[d] = heap[d]
    BY <1>0, <2>1, <2>3, <2>4 DEF TypeOK
  <2> QED BY <1>0, <1>3, <2>5, GoroutinesDiffer DEF TypeOK, AppendIp
<1>4. ASSUME NEW m \in Machine, StoreHealth(m) PROVE T(m, svc[m])
  BY <1>0, <1>4, GoroutinesDiffer DEF TypeOK, Placed, StoreHealth
<1>5. ASSUME NEW m \in Machine, Publish(m) PROVE T(m, svc[m])
  BY <1>0, <1>5, GoroutinesDiffer DEF TypeOK, Placed, Publish
<1>6. ASSUME NEW w \in Worker, Load(w), instances[Svc(w)] # None PROVE T(w, svc[goal[w]])
  BY <1>0, <1>6, GoroutinesDiffer DEF TypeOK, Placed, Load
<1>7. ASSUME NEW w \in Worker, Shrink(w) PROVE T(w, svc[goal[w]])
  BY <1>0, <1>7, GoroutinesDiffer DEF TypeOK, Placed, Shrink
<1>8. ASSUME NEW w \in Worker, Copy(w) PROVE T(w, svc[goal[w]])
  <2>1. PICK x \in LoadBalancer : heap' = [heap EXCEPT ![<<w, goal[w]>>] = x]
    BY <1>0, <1>8, CopyWrites
  <2>2. Owner(<<w, goal[w]>>) = svc[goal[w]]
    <3>1. goal[w] \in Machine BY <1>0, <1>8, CopyWrites
    <3>2. <<w, goal[w]>> \notin Machine BY <3>1, BalancersDiffer
    <3> QED BY <3>2 DEF Owner
  <2>3. PICK b : b = <<w, goal[w]>> OBVIOUS
  <2>4. Owner(b) = svc[goal[w]] BY <2>2, <2>3 DEF Owner
  <2>5. \A d \in Balancer : Owner(d) # svc[goal[w]] => heap'[d] = heap[d]
    BY <1>0, <2>1, <2>3, <2>4 DEF TypeOK
  <2> QED BY <1>0, <1>8, <2>5, GoroutinesDiffer DEF TypeOK, Copy
<1>9. ASSUME NEW w \in Worker, Replace(w) PROVE T(w, svc[goal[w]])
  <2>1. Svc(w) = svc[goal[w]] /\ goal[w] \in Machine
    BY <1>0, <1>9, SvcOf DEF Replace
  <2> QED BY <1>0, <1>9, <2>1, GoroutinesDiffer DEF TypeOK, Placed, Replace
<1>10. ASSUME NEW a \in Caller, a \in Worker => goal[a] \in Machine, T(a, Svc(a)) PROVE Touches(a)
  <2>1. UNCHANGED <<svc, addr, goal>> BY <1>0, <1>10
  <2>2. \A c \in Caller : Svc(c)' = Svc(c) /\ Address(c)' = Address(c)
    BY <2>1 DEF Svc, Address, Target
  <2>3. Svc(a) \in Service BY <1>0, <1>10 DEF TypeOK, Svc, Target
  <2> QED BY <1>10, <2>2, <2>3 DEF Touches
<1>11. \A w \in Worker : Load(w) \/ Shrink(w) \/ Copy(w) \/ Replace(w) => goal[w] \in Machine
  BY <1>0, SvcOf DEF Load, Shrink, Copy, Replace
<1> HIDE DEF T
<1>12. \A m \in Machine : m \in Caller /\ m \notin Worker /\ Svc(m) = svc[m] BY <1>0,
                                                                                SvcOf,
                                                                                GoroutinesDiffer
<1>13. \A w \in Worker : w \in Caller /\ Svc(w) = svc[goal[w]] BY <1>0, SvcOf
<1>14. ASSUME NEW m \in Machine, T(m, svc[m]) PROVE Touches(m)
  <2>1. T(m, Svc(m)) BY <1>12, <1>14
  <2> QED BY <1>10, <1>12, <2>1
<1>15. ASSUME NEW w \in Worker, goal[w] \in Machine, T(w, svc[goal[w]]) PROVE Touches(w)
  <2>1. T(w, Svc(w)) BY <1>13, <1>15
  <2> QED BY <1>10, <1>13, <1>15, <2>1
<1> QED
  BY <1>1, <1>2, <1>3, <1>4, <1>5, <1>6, <1>7, <1>8, <1>9, <1>11, <1>14, <1>15

(* The list, and the call of a that works on it, at each step of a call.   *)
ListsOf(a, t) == PublishedList(t)' /\ (Calling(a)' => ListInHand(a)')

LEMMA AddsToList ==
  ASSUME Inductive, Next, NEW m \in Machine, NEW t \in Service, svc[m] = t, Undisturbed(t)',
         LoadOrCreate(m) \/ Grow(m) \/ AppendIp(m) \/ StoreHealth(m) \/ Publish(m)
  PROVE  ListsOf(m, t)
<1> USE DEF world, tables, local, history, vars, Goto, Caller, AddStep, DeleteStep
<1> DEFINE A == Addresses(t)
           i == addr[m]
<1>0. /\ TypeOK /\ Placed /\ Fresh /\ UNCHANGED <<svc, addr>> /\ m \in Caller /\ m \notin Worker
      /\ Undisturbed(t) /\ PublishedList(t) /\ IsFiniteSet(A)
      /\ Calling(m) => ListInHand(m)
      /\ listed' = listed => Addresses(t)' = A
      /\ Svc(m) = t /\ Svc(m)' = t /\ Address(m) = i /\ Address(m)' = i
  <2>1. TypeOK /\ Placed /\ Fresh /\ UNCHANGED <<svc, addr>> BY WorldFixed DEF Inductive
  <2>2. m \in Caller /\ m \notin Worker BY GoroutinesDiffer
  <2>3. Svc(m) = t /\ Svc(m)' = t /\ Address(m) = i /\ Address(m)' = i
    BY <2>1 DEF Svc, Address, Target
  <2> QED BY <2>1, <2>2, <2>3, SerialCall
<1> HIDE DEF A, i
<1>1. CASE LoadOrCreate(m)
  <2>1. InCall(t) = {} BY <1>0, <1>1 DEF LoadOrCreate, Overlap, Undisturbed, TypeOK
  <2>2. \A n \in Machine : svc[n] = t => pc[n] \notin {"append", "report", "publish"}
    BY <1>0, <2>1, SvcOf DEF InCall, Calling
  <2>3. PICK b : b = IF instances[t] = None THEN m ELSE instances[t] OBVIOUS
  <2>4. b \in Balancer /\ b # None /\ instances[t] \in {None, b}
    BY <1>0, <2>3, BalancersDiffer, NothingOutside DEF TypeOK, Balancer
  <2>5. Exact(heap[b], A)
    <3>1. CASE instances[t] = None
      <4>1. Unmade(m) BY <1>1, Made DEF LoadOrCreate
      <4>2. heap[b] = [size |-> 0, ips |-> <<>>]
        BY <1>0, <2>3, <2>4, <3>1, <4>1 DEF Fresh, Untouched
      <4>3. A = {} BY <1>0, <3>1 DEF PublishedList, A
      <4> QED BY <4>2, <4>3, ListsEmpty, FS_EmptySet DEF Exact
    <3>2. CASE instances[t] # None
      BY <1>0, <2>2, <2>3, <3>2 DEF PublishedList, A
    <3> QED BY <3>1, <3>2
  <2>6. /\ pc' = [pc EXCEPT ![m] = "grow"] /\ lb' = [lb EXCEPT ![m] = b]
        /\ tmp' = [tmp EXCEPT ![m] = heap[b].size] /\ UNCHANGED <<heap, instances, listed>>
    BY <1>1, <2>3 DEF LoadOrCreate
  <2>7. pc'[m] = "grow" /\ lb'[m] = b /\ tmp'[m] = heap[b].size
    BY <1>0, <2>6 DEF TypeOK
  <2>8. Addresses(t)' = A BY <1>0, <2>6
  <2>9. PublishedList(t)'
    <3>1. instances[t] = None => A = {} BY <1>0 DEF PublishedList, A
    <3>2. instances[t] # None => instances[t] = b BY <2>4
    <3> QED BY <2>5, <2>6, <2>8, <3>1, <3>2 DEF PublishedList
  <2>10. ListInHand(m)' BY <1>0, <2>4, <2>5, <2>6, <2>7, <2>8 DEF ListInHand
  <2> QED BY <2>9, <2>10 DEF ListsOf
<1>2. CASE Grow(m)
  <2>1. pc[m] = "grow" /\ ListInHand(m) BY <1>0, <1>2 DEF Grow, Calling
  <2>2. PICK x \in LoadBalancer :
          heap' = [heap EXCEPT ![lb[m]] = x] /\ x.size = tmp[m] + 1 /\ x.ips = heap[lb[m]].ips
    BY <1>0, <1>2, GrowWrites
  <2>3. PICK b \in Balancer : b = lb[m] BY <1>0, <1>2, GrowWrites
  <2>4. heap'[b] = x BY <1>0, <2>2, <2>3 DEF TypeOK
  <2>5. /\ pc' = [pc EXCEPT ![m] = "append"] /\ got' = [got EXCEPT ![m] = heap[lb[m]].ips]
        /\ UNCHANGED <<instances, listed, lb>>
    BY <1>2 DEF Grow
  <2>6. pc'[m] = "append" /\ got'[m] = x.ips /\ lb'[m] = b
    BY <1>0, <2>2, <2>3, <2>5 DEF TypeOK
  <2>7. Addresses(t)' = A BY <1>0, <2>5
  <2>8. Exact(heap[b], A) /\ tmp[m] = heap[b].size /\ instances[t] \in {None, b}
    BY <1>0, <2>1, <2>3 DEF ListInHand, A
  <2>9. x.size = Cardinality(A) + 1 /\ Lists(x.ips, A)
    BY <2>2, <2>3, <2>8 DEF Exact
  <2>10. PublishedList(t)'
    <3>1. instances[t] = None => A = {} BY <1>0 DEF PublishedList, A
    <3> QED BY <1>0, <2>5, <2>6, <2>7, <3>1 DEF PublishedList
  <2>11. ListInHand(m)' BY <1>0, <2>4, <2>5, <2>6, <2>7, <2>8, <2>9 DEF ListInHand
  <2> QED BY <2>10, <2>11 DEF ListsOf
<1>3. CASE AppendIp(m)
  <2>1. pc[m] = "append" /\ ListInHand(m) BY <1>0, <1>3 DEF AppendIp, Calling
  <2>2. PICK x \in LoadBalancer :
          /\ heap' = [heap EXCEPT ![lb[m]] = x]
          /\ x.size = heap[lb[m]].size /\ x.ips = Append(got[m], addr[m])
    BY <1>0, <1>3, AppendWrites
  <2>3. PICK b \in Balancer : b = lb[m] BY <1>0, <1>3, AppendWrites
  <2>4. heap'[b] = x BY <1>0, <2>2, <2>3 DEF TypeOK
  <2>5. pc' = [pc EXCEPT ![m] = "report"] /\ UNCHANGED <<instances, listed, lb>>
    BY <1>3 DEF AppendIp
  <2>6. pc'[m] = "report" /\ lb'[m] = b BY <1>0, <2>3, <2>5 DEF TypeOK
  <2>7. Addresses(t)' = A BY <1>0, <2>5
  <2>8. /\ heap[b].size = Cardinality(A) + 1 /\ Lists(got[m], A)
        /\ instances[t] \in {None, b}
    BY <1>0, <2>1, <2>3 DEF ListInHand, A
  <2>9. i \notin A
    <3>1. m \notin listed BY <1>0, <2>1 DEF Placed
    <3> QED BY <1>0, <3>1 DEF Undisturbed, Distinct, Addresses, TypeOK, A, i
  <2>10. Exact(x, A \cup {i})
    <3>1. got[m] \in Seq(Ip \cup {Blank}) /\ i \in Ip \cup {Blank}
      BY <1>0, <1>3, AppendWrites DEF i
    <3>2. Lists(Append(got[m], i), A \cup {i}) /\ Cardinality(A \cup {i}) = Cardinality(A) + 1
      <4>1. IsFiniteSet(A) /\ Lists(got[m], A) BY <1>0, <2>8
      <4>2. PICK T : T = Ip \cup {Blank} OBVIOUS
      <4>3. PICK ips : ips = got[m] OBVIOUS
      <4>4. ips \in Seq(T) /\ i \in T /\ Lists(ips, A) BY <3>1, <4>1, <4>2, <4>3
      <4>5. Lists(Append(ips, i), A \cup {i}) /\ Cardinality(A \cup {i}) = Cardinality(A) + 1
        BY <2>9, <4>1, <4>4, ListsAppend
      <4> QED BY <4>3, <4>5
    <3> QED BY <2>2, <2>3, <2>8, <3>2 DEF Exact, i
  <2>11. PublishedList(t)'
    <3>1. instances[t] = None => A = {} BY <1>0 DEF PublishedList, A
    <3> QED BY <1>0, <2>5, <2>6, <2>7, <3>1 DEF PublishedList
  <2>12. ListInHand(m)' BY <1>0, <2>4, <2>5, <2>6, <2>7, <2>8, <2>10 DEF ListInHand
  <2> QED BY <2>11, <2>12 DEF ListsOf
<1>4. CASE StoreHealth(m)
  <2>1. pc[m] = "report" /\ ListInHand(m) BY <1>0, <1>4 DEF StoreHealth, Calling
  <2>2. pc' = [pc EXCEPT ![m] = "publish"] /\ UNCHANGED <<instances, heap, listed, lb>>
    BY <1>4 DEF StoreHealth
  <2>3. pc'[m] = "publish" BY <1>0, <2>2 DEF TypeOK
  <2>4. Addresses(t)' = A BY <1>0, <2>2
  <2>5. PublishedList(t)'
    <3>1. instances[t] = None => A = {} BY <1>0 DEF PublishedList, A
    <3> QED BY <1>0, <2>2, <2>3, <2>4, <3>1 DEF PublishedList
  <2>6. ListInHand(m)' BY <1>0, <2>1, <2>2, <2>3, <2>4 DEF ListInHand, A
  <2> QED BY <2>5, <2>6 DEF ListsOf
<1>5. CASE Publish(m)
  <2>1. pc[m] = "publish" /\ ListInHand(m) /\ lb[m] # None
    BY <1>0, <1>5 DEF Publish, Calling, Placed
  <2>2. PICK b \in Balancer : b = lb[m] BY <1>0, <2>1 DEF TypeOK
  <2>3. /\ pc' = [pc EXCEPT ![m] = "readcount"] /\ listed' = listed \cup {m}
        /\ instances' = [instances EXCEPT ![t] = b] /\ UNCHANGED heap
    BY <1>5, <2>2 DEF Publish
  <2>4. pc'[m] = "readcount" /\ instances'[t] = b /\ b # None
    BY <1>0, <2>1, <2>2, <2>3 DEF TypeOK
  <2>5. Addresses(t)' = A \cup {i}
    BY <1>0, <2>3 DEF Addresses, TypeOK, A, i
  <2>6. Exact(heap[b], A \cup {i}) BY <1>0, <2>1, <2>2 DEF ListInHand, A
  <2>7. PublishedList(t)' BY <2>3, <2>4, <2>5, <2>6 DEF PublishedList
  <2>8. ~Calling(m)' BY <2>4 DEF Calling
  <2> QED BY <2>7, <2>8 DEF ListsOf
<1> QED BY <1>1, <1>2, <1>3, <1>4, <1>5

(* A copy of an exact list finds the address there, and fits.              *)
LEMMA CopyOfExact ==
  ASSUME TypeOK, NEW w \in Worker, lb[w] \in Balancer, NEW A, IsFiniteSet(A),
         Exact(heap[lb[w]], A), tmp[w] = heap[lb[w]].size
  PROVE  /\ Address(w) \in A =>
              /\ Len(Kept(w)) = tmp[w] - 1
              /\ Lists(Kept(w), A \ {Address(w)})
              /\ Cardinality(A \ {Address(w)}) = Cardinality(A) - 1
         /\ Address(w) \notin A => Len(Kept(w)) = tmp[w]
<1>1. PICK ips : ips = heap[lb[w]].ips OBVIOUS
<1>2. PICK T : T = Ip \cup {Blank} OBVIOUS
<1>3. PICK i : i = Address(w) OBVIOUS
<1>4. ips \in Seq(T) BY <1>1, <1>2, FieldsWritten DEF TypeOK
<1>5. Lists(ips, A) /\ Len(ips) = tmp[w] BY <1>1 DEF Exact, Lists
<1>6. Kept(w) = Without(ips, i) BY <1>1, <1>3 DEF Kept
<1>7. CASE i \in A
  <2>1. /\ Lists(Without(ips, i), A \ {i})
        /\ Len(Without(ips, i)) = Len(ips) - 1
        /\ Cardinality(A \ {i}) = Cardinality(A) - 1
    BY <1>4, <1>5, <1>7, ListsWithout
  <2> QED BY <1>3, <1>5, <1>6, <1>7, <2>1
<1>8. CASE i \notin A
  <2>1. \A k \in 1..Len(ips) : ips[k] # i BY <1>5, <1>8 DEF Lists
  <2>2. Len(Without(ips, i)) = Len(ips) BY <1>4, <2>1, NothingToRemove
  <2> QED BY <1>3, <1>5, <1>6, <1>8, <2>2
<1> QED BY <1>7, <1>8

LEMMA DeletesFromList ==
  ASSUME Inductive, Next, NEW w \in Worker, NEW t \in Service, Svc(w) = t, Undisturbed(t)',
         (Load(w) /\ instances[t] # None) \/ Shrink(w) \/ Copy(w) \/ Replace(w)
  PROVE  ListsOf(w, t)
<1> USE DEF world, tables, local, history, vars, Goto, Caller, AddStep, DeleteStep
<1> DEFINE A == Addresses(t)
<1>0. /\ TypeOK /\ Placed /\ Sized /\ Fresh /\ UNCHANGED <<svc, addr, goal>>
      /\ w \in Caller /\ w \notin Machine /\ goal[w] \in Machine /\ svc[goal[w]] = t
      /\ Undisturbed(t) /\ PublishedList(t) /\ IsFiniteSet(A)
      /\ Calling(w) => ListInHand(w)
      /\ listed' = listed => Addresses(t)' = A
      /\ Address(w) = addr[goal[w]]
  <2>1. /\ TypeOK /\ Placed /\ Sized /\ Fresh /\ UNCHANGED <<svc, addr, goal>>
        /\ pc[w] # "idle"
    BY WorldFixed DEF Inductive, Load, Shrink, Copy, Replace
  <2>2. w \in Caller /\ w \notin Machine BY GoroutinesDiffer
  <2>3. Svc(w) = svc[goal[w]] /\ Address(w) = addr[goal[w]] /\ goal[w] \in Machine
    BY <2>1, SvcOf
  <2> QED BY <2>1, <2>2, <2>3, SerialCall
<1>a. PICK i : i = addr[goal[w]] OBVIOUS
<1>b. Svc(w)' = t /\ Address(w) = i /\ Address(w)' = i
  BY <1>0, <1>a DEF Svc, Address, Target
<1> HIDE DEF A
<1>1. CASE Load(w) /\ instances[t] # None
  <2>1. InCall(t) = {} BY <1>0, <1>1 DEF Load, Overlap, Undisturbed, TypeOK
  <2>2. \A n \in Machine : svc[n] = t => pc[n] \notin {"append", "report", "publish"}
    BY <1>0, <2>1, SvcOf DEF InCall, Calling
  <2>3. PICK b \in Balancer : b = instances[t] BY <1>0, <1>1 DEF TypeOK
  <2>4. Exact(heap[b], A) BY <1>0, <1>1, <2>2, <2>3 DEF PublishedList, A
  <2>5. /\ pc' = [pc EXCEPT ![w] = "shrink"] /\ lb' = [lb EXCEPT ![w] = b]
        /\ UNCHANGED <<heap, instances, listed>>
    BY <1>1, <2>3 DEF Load
  <2>6. pc'[w] = "shrink" /\ lb'[w] = b BY <1>0, <2>5 DEF TypeOK
  <2>7. Addresses(t)' = A BY <1>0, <2>5
  <2>8. PublishedList(t)' BY <2>3, <2>4, <2>5, <2>7, <1>1 DEF PublishedList
  <2>9. ListInHand(w)' BY <1>b, <2>4, <2>5, <2>6, <2>7 DEF ListInHand
  <2> QED BY <2>8, <2>9 DEF ListsOf
<1>2. CASE Shrink(w)
  <2>1. pc[w] = "shrink" /\ ListInHand(w) BY <1>0, <1>2 DEF Shrink, Calling
  <2>2. PICK b \in Balancer : b = lb[w] BY <1>0, <2>1 DEF TypeOK, Placed
  <2>3. Exact(heap[b], A) BY <1>0, <2>1, <2>2 DEF ListInHand, A
  <2>4. /\ pc' = [pc EXCEPT ![w] = IF heap[b].size = 0 THEN "replace" ELSE "copy"]
        /\ tmp' = [tmp EXCEPT ![w] = heap[b].size]
        /\ UNCHANGED <<heap, instances, listed, lb>>
    BY <1>2, <2>2 DEF Shrink
  <2>5. /\ pc'[w] = IF heap[b].size = 0 THEN "replace" ELSE "copy"
        /\ tmp'[w] = heap[b].size /\ lb'[w] = b
    BY <1>0, <2>2, <2>4 DEF TypeOK
  <2>6. Addresses(t)' = A BY <1>0, <2>4
  <2>7. \A m \in Machine : pc'[m] = pc[m] BY <1>0, <2>4 DEF TypeOK
  <2>8. PublishedList(t)'
    BY <1>0, <2>4, <2>6, <2>7 DEF PublishedList, A
  <2>9. heap[b].size = 0 => Exact(heap[b], A \ {i})
    <3>1. heap[b].size = 0 => A = {} BY <1>0, <2>3, FS_EmptySet DEF Exact
    <3>2. A = {} => A \ {i} = A OBVIOUS
    <3> QED BY <2>3, <3>1, <3>2
  <2>10. ListInHand(w)' BY <1>b, <2>3, <2>4, <2>5, <2>6, <2>9 DEF ListInHand
  <2> QED BY <2>8, <2>10 DEF ListsOf
<1>3. CASE Copy(w)
  <2>1. pc[w] = "copy" /\ ListInHand(w) BY <1>0, <1>3 DEF Copy, Calling
  <2>2. PICK x \in LoadBalancer :
          /\ heap' = [heap EXCEPT ![<<w, goal[w]>>] = x]
          /\ x.size = heap[lb[w]].size - 1 /\ x.ips = Filled(w)
    BY <1>0, <1>3, CopyWrites
  <2>3. PICK b \in Balancer : b = <<w, goal[w]>> BY <1>0, <1>3, CopyWrites
  <2>4. heap'[b] = x BY <1>0, <2>2, <2>3 DEF TypeOK
  <2>5. /\ pc' = [pc EXCEPT ![w] = "replace"] /\ lb' = [lb EXCEPT ![w] = b]
        /\ UNCHANGED <<instances, listed>>
    BY <1>3, <2>3 DEF Copy
  <2>6. pc'[w] = "replace" /\ lb'[w] = b BY <1>0, <2>5 DEF TypeOK
  <2>7. Addresses(t)' = A BY <1>0, <2>5
  <2>8. /\ lb[w] \in Balancer /\ Exact(heap[lb[w]], A) /\ tmp[w] = heap[lb[w]].size
        /\ tmp[w] \in Nat
    BY <1>0, <2>1 DEF ListInHand, A, TypeOK, Placed
  <2>9. Address(w) \in A /\ Len(Kept(w)) = tmp[w] - 1 /\ Lists(Kept(w), A \ {i})
        /\ Cardinality(A \ {i}) = Cardinality(A) - 1
    <3>1. Len(Kept(w)) # tmp[w] BY <1>3, <2>8 DEF Copy
    <3> QED BY <1>0, <1>b, <2>8, <3>1, CopyOfExact
  <2>10. Filled(w) = Kept(w) BY <1>0, <1>3, <2>9, CopyWrites
  <2>11. Exact(x, A \ {i}) BY <2>2, <2>8, <2>9, <2>10 DEF Exact
  <2>12. PublishedList(t)'
    <3>1. instances[t] # b BY <1>0, <1>3, <2>3, CopyIsNew DEF Untouched
    <3>2. instances[t] # None => heap'[instances[t]] = heap[instances[t]]
      BY <1>0, <2>2, <2>3, <3>1 DEF TypeOK
    <3>3. \A m \in Machine : pc'[m] = pc[m] BY <1>0, <2>5 DEF TypeOK
    <3> QED BY <1>0, <2>5, <2>7, <3>2, <3>3 DEF PublishedList, A
  <2>13. ListInHand(w)' BY <1>b, <2>4, <2>5, <2>6, <2>7, <2>11 DEF ListInHand
  <2> QED BY <2>12, <2>13 DEF ListsOf
<1>4. CASE Replace(w)
  <2>1. pc[w] = "replace" /\ ListInHand(w) /\ lb[w] # None
    BY <1>0, <1>4 DEF Replace, Calling, Placed
  <2>2. PICK b \in Balancer : b = lb[w] BY <1>0, <2>1 DEF TypeOK
  <2>3. /\ pc' = [pc EXCEPT ![w] = "forget"] /\ listed' = listed \ {goal[w]}
        /\ instances' = [instances EXCEPT ![t] = b] /\ UNCHANGED heap
    BY <1>4, <2>2 DEF Replace
  <2>4. pc'[w] = "forget" /\ instances'[t] = b /\ b # None
    BY <1>0, <2>1, <2>2, <2>3 DEF TypeOK
  <2>5. Addresses(t)' = A \ {i}
    BY <1>0, <1>a, <2>3 DEF Addresses, TypeOK, A, Undisturbed, Distinct
  <2>6. Exact(heap[b], A \ {i}) BY <1>0, <1>b, <2>1, <2>2 DEF ListInHand, A
  <2>7. PublishedList(t)' BY <2>3, <2>4, <2>5, <2>6 DEF PublishedList
  <2>8. ~Calling(w)' BY <2>4 DEF Calling
  <2> QED BY <2>7, <2>8 DEF ListsOf
<1> QED BY <1>1, <1>2, <1>3, <1>4

(* The other steps of the callers write no list.                           *)
LEMMA WritesNoList ==
  ASSUME Inductive, Next, NEW s \in Service,
         \/ \E m \in Machine : CountUp(m)
         \/ \E w \in Worker, m \in Machine : Pick(w, m)
         \/ \E w \in Worker :
              \/ Load(w) /\ instances[Svc(w)] = None
              \/ CopyPanics(w) \/ Forget(w) \/ CountDown(w)
         \/ \E c \in Caller : ReadCount(c)
         \/ UNCHANGED callers
  PROVE  Elsewhere(s)
<1> USE DEF world, tables, local, history, vars, Goto
<1> DEFINE On == AddStep \cup DeleteStep
           Quiet ==
             /\ UNCHANGED <<svc, addr, instances, heap, listed, lb, got>>
             /\ \A c \in Caller : pc'[c] \in On =>
                  /\ pc'[c] = pc[c] /\ tmp'[c] = tmp[c]
                  /\ c \in Worker => goal'[c] = goal[c]
             /\ \A m \in Machine :
                  pc[m] \in {"append", "report", "publish"} => pc'[m] = pc[m]
<1>0. TypeOK BY DEF Inductive
<1> USE DEF AddStep, DeleteStep, Caller
<1>1. ASSUME NEW m \in Machine, CountUp(m) PROVE Quiet
  BY <1>0, <1>1, GoroutinesDiffer DEF TypeOK, CountUp
<1>2. ASSUME NEW w \in Worker, NEW m \in Machine, Pick(w, m) PROVE Quiet
  BY <1>0, <1>2, GoroutinesDiffer DEF TypeOK, Pick
<1>3. ASSUME NEW w \in Worker, Load(w), instances[Svc(w)] = None PROVE Quiet
  <2>1. lb' = lb
    <3>1. CASE lb[w] = None BY <1>0, <1>3, <3>1 DEF TypeOK, Load
    <3>2. CASE lb[w] # None BY <1>0, <1>3, <3>2 DEF Load, Inductive, Placed
    <3> QED BY <3>1, <3>2
  <2> QED BY <1>0, <1>3, <2>1, GoroutinesDiffer DEF TypeOK, Load
<1>4. ASSUME NEW w \in Worker, CopyPanics(w) PROVE Quiet
  BY <1>0, <1>4, GoroutinesDiffer DEF TypeOK, CopyPanics
<1>5. ASSUME NEW w \in Worker, Forget(w) PROVE Quiet
  BY <1>0, <1>5, GoroutinesDiffer DEF TypeOK, Forget
<1>6. ASSUME NEW w \in Worker, CountDown(w) PROVE Quiet
  BY <1>0, <1>6, GoroutinesDiffer DEF TypeOK, CountDown
<1>7. ASSUME NEW c \in Caller, ReadCount(c) PROVE Quiet
  BY <1>0, <1>7, GoroutinesDiffer DEF TypeOK, ReadCount
<1>8. ASSUME UNCHANGED callers PROVE Quiet
  BY <1>8 DEF callers
<1>9. Quiet BY <1>1, <1>2, <1>3, <1>4, <1>5, <1>6, <1>7, <1>8
<1>10. \A c \in Caller : pc'[c] \in On => Svc(c)' = Svc(c) /\ Address(c)' = Address(c)
  BY <1>9 DEF Svc, Address, Target
<1> QED BY <1>9, <1>10 DEF Elsewhere, Calling

LEMMA ListsStep ==
  ASSUME Inductive, Next
  PROVE  Published' /\ InHand'
<1>0. TypeOK /\ TypeOK' /\ Placed /\ Alone' BY TypeStep, AloneStep DEF Inductive
<1> USE DEF Caller
<1>1. ASSUME NEW m \in Machine,
             LoadOrCreate(m) \/ Grow(m) \/ AppendIp(m) \/ StoreHealth(m) \/ Publish(m)
      PROVE  \A s \in Service : ListsKept(s)
  <2>1. Touches(m) BY <1>1, TouchesOwn
  <2>2. PICK t \in Service : t = svc[m] BY <1>0 DEF TypeOK
  <2>3. Svc(m) = t BY <1>0, <2>2, SvcOf
  <2>4. Undisturbed(t)' => PublishedList(t)' /\ (Calling(m)' => ListInHand(m)')
    BY <1>1, <2>2, AddsToList DEF ListsOf
  <2> QED BY <1>0, <2>1, <2>3, <2>4, OnlyItsList
<1>2. ASSUME NEW w \in Worker,
             (Load(w) /\ instances[Svc(w)] # None) \/ Shrink(w) \/ Copy(w) \/ Replace(w)
      PROVE  \A s \in Service : ListsKept(s)
  <2>1. Touches(w) BY <1>2, TouchesOwn
  <2>2. PICK t \in Service : t = Svc(w) BY <2>1 DEF Touches
  <2>3. Undisturbed(t)' => PublishedList(t)' /\ (Calling(w)' => ListInHand(w)')
    BY <1>2, <2>2, DeletesFromList DEF ListsOf
  <2> QED BY <1>0, <2>1, <2>2, <2>3, OnlyItsList
<1>3. ASSUME NEW s \in Service, Elsewhere(s) PROVE ListsKept(s)
  <2>1. Undisturbed(s)' => Undisturbed(s)
    BY WorldFixed, CallsBegin DEF Undisturbed, Distinct
  <2> QED BY <1>3, <2>1, ElsewhereKeeps DEF ListsKept
<1>4. ASSUME \/ \E m \in Machine : CountUp(m)
             \/ \E w \in Worker, m \in Machine : Pick(w, m)
             \/ \E w \in Worker :
                  \/ Load(w) /\ instances[Svc(w)] = None
                  \/ CopyPanics(w) \/ Forget(w) \/ CountDown(w)
             \/ \E c \in Caller : ReadCount(c)
             \/ UNCHANGED callers
      PROVE  \A s \in Service : ListsKept(s)
  BY <1>3, <1>4, WritesNoList
<1>5. \A s \in Service : ListsKept(s)
  BY <1>1, <1>2, <1>4
  DEF Next, AddServiceIP, DeleteServiceIP, callers, GuestStops, Visit, StoreCheck, Resolve,
      NextInstance, CheckIp, Answer, world, tables, local, history
<1>6. Published' BY <1>5 DEF Published, ListsKept
<1>7. InHand'
  <2>1. SUFFICES ASSUME NEW c \in Caller, Calling(c)', Undisturbed(Svc(c))'
                 PROVE  ListInHand(c)'
    BY DEF InHand
  <2>2. Svc(c)' \in Service
    <3>1. Placed' BY PlacedStep
    <3>2. c \in Worker => goal'[c] \in Machine
      BY <1>0, <2>1, <3>1 DEF TypeOK, Placed, Calling, AddStep, DeleteStep
    <3> QED BY <1>0, <3>2 DEF TypeOK, Svc, Target
  <2>3. PICK s \in Service : s = Svc(c)' BY <2>2
  <2>4. Undisturbed(s)' BY <2>1, <2>3 DEF Undisturbed, Distinct
  <2> QED BY <1>5, <2>1, <2>3, <2>4 DEF ListsKept
<1> QED BY <1>6, <1>7

(* The copy of a serial call fits, unless its machine was not listed.      *)
LEMMA CopyRunsOverStep ==
  ASSUME Inductive, Next
  PROVE  CopyRunsOverOnlyAfterRaces'
<1> USE DEF world, tables, local, history, vars, Goto, Caller
<1>0. TypeOK /\ Placed BY DEF Inductive
<1>1. ASSUME NEW w \in Worker, CopyPanics(w) PROVE CopyRunsOverOnlyAfterRaces'
  <2>1. pc'[w] = "dead" /\ UNCHANGED <<svc, addr, goal, raced, undue>>
    BY <1>0, <1>1 DEF CopyPanics, TypeOK
  <2>2. Svc(w)' = Svc(w) BY <2>1 DEF Svc, Target
  <2>3. \/ Svc(w) \in raced \/ ~Distinct(Svc(w)) \/ goal[w] \in undue
    <3>1. SUFFICES ASSUME Undisturbed(Svc(w)) PROVE goal[w] \in undue BY DEF Undisturbed
    <3>2. /\ Svc(w) = svc[goal[w]] /\ Address(w) = addr[goal[w]] /\ goal[w] \in Machine
          /\ lb[w] \in Balancer /\ pc[w] = "copy"
      BY <1>0, <1>1, SvcOf DEF CopyPanics, TypeOK, Placed, DeleteStep
    <3>3. ListInHand(w) BY <3>1, <3>2 DEF Inductive, InHand, Calling, DeleteStep
    <3>4. PICK A : A = Addresses(Svc(w)) OBVIOUS
    <3>5. /\ Exact(heap[lb[w]], A) /\ tmp[w] = heap[lb[w]].size /\ tmp[w] \in Nat
          /\ IsFiniteSet(A)
      BY <1>0, <3>2, <3>3, <3>4, AddressesFinite DEF ListInHand, TypeOK
    <3>6. Len(Kept(w)) # tmp[w] - 1 BY <1>1, <3>5 DEF CopyPanics
    <3>7. Address(w) \notin A BY <1>0, <3>2, <3>5, <3>6, CopyOfExact
    <3>8. goal[w] \notin listed BY <3>2, <3>4, <3>7 DEF Addresses
    <3>9. goal[w] \in listed \cup undue
      BY <3>1, <3>2 DEF Inductive, DeletesListed, DeleteStep, Undisturbed
    <3> QED BY <3>8, <3>9
  <2>4. PICK t : t = Svc(w) OBVIOUS
  <2>5. t \in raced' \/ ~Distinct(t)' \/ goal'[w] \in undue'
    BY <2>1, <2>3, <2>4 DEF Distinct
  <2>6. Svc(w)' \in raced' \/ ~Distinct(Svc(w))' \/ goal'[w] \in undue'
    BY <2>2, <2>4, <2>5 DEF Distinct
  <2> QED BY <2>1, <2>6 DEF CopyRunsOverOnlyAfterRaces
<1>2. ASSUME \A w \in Worker : ~CopyPanics(w) PROVE fatal' # "copy"
  BY <1>2
  DEF Next, AddServiceIP, DeleteServiceIP, GuestStops, LoadOrCreate, Grow, AppendIp, StoreHealth,
      Publish, CountUp, Pick, Load, Shrink, Copy, Replace, Forget, CountDown,
      ReadCount, Visit, StoreCheck, Resolve, NextInstance, CheckIp, Answer
<1> QED BY <1>1, <1>2 DEF CopyRunsOverOnlyAfterRaces

-----------------------------------------------------------------------------
(* Resolutions. *)

Misses(ips, i) == \A k \in 1..Len(ips) : ips[k] # i

(* The published list of a function has no address of a deleted machine,   *)
(* even while a call adds another one to it in place.                      *)
LEMMA PublishedMisses ==
  ASSUME Inductive, NEW s \in Service, Undisturbed(s), instances[s] # None, NEW m \in Gone(s)
  PROVE  Misses(heap[instances[s]].ips, addr[m])
<1>0. /\ TypeOK /\ Placed /\ PublishedList(s)
      /\ m \in Machine /\ m \notin listed /\ svc[m] = s /\ pc[m] = "done"
  BY DEF Inductive, Published, Gone, TypeOK
<1>1. addr[m] \notin Addresses(s)
  BY <1>0 DEF Undisturbed, Distinct, Addresses, TypeOK
<1>2. CASE Exact(heap[instances[s]], Addresses(s))
  BY <1>1, <1>2 DEF Exact, Lists, Misses
<1>3. ASSUME NEW n \in Machine, svc[n] = s, pc[n] \in {"append", "report", "publish"}
      PROVE  Misses(heap[instances[s]].ips, addr[m])
  <2>1. Calling(n) /\ Svc(n) = s /\ Address(n) = addr[n] /\ n \in Caller
    BY <1>0, <1>3, SvcOf DEF Calling, AddStep, Caller
  <2>2. ListInHand(n) BY <2>1 DEF Inductive, InHand
  <2>3. instances[s] = lb[n] BY <1>3, <2>1, <2>2 DEF ListInHand, AddStep
  <2>4. addr[n] # addr[m] BY <1>0, <1>3 DEF Undisturbed, Distinct
  <2>5. PICK A : A = Addresses(s) OBVIOUS
  <2>6. Lists(heap[instances[s]].ips, A) \/ Lists(heap[instances[s]].ips, A \cup {addr[n]})
    BY <1>3, <2>1, <2>2, <2>3, <2>5 DEF ListInHand, Exact
  <2>7. addr[m] \notin A \cup {addr[n]} BY <1>1, <2>4, <2>5
  <2> QED BY <2>6, <2>7 DEF Lists, Misses
<1> QED BY <1>0, <1>2, <1>3 DEF PublishedList

(* Later steps do not bring the address back into the list that the        *)
(* resolution reads.                                                       *)
LEMMA StillMisses ==
  ASSUME Inductive, Next, NEW r \in Resolver, res[r].at \in {"next", "check"},
         Undisturbed(res[r].svc), NEW m \in res[r].gone,
         Misses(heap[res[r].lb].ips, addr[m])
  PROVE  Misses(heap'[res[r].lb].ips, addr[m])
<1> USE DEF world, tables, local, history, vars, Goto
<1>0. /\ TypeOK /\ Placed /\ Sized /\ Fresh /\ Owned
      /\ res[r] \in Resolution /\ m \in Machine /\ pc[m] = "done"
      /\ svc[m] = res[r].svc /\ res[r].lb \in Balancer
  <2>1. TypeOK /\ Placed /\ Sized /\ Fresh /\ Owned /\ Resolving BY DEF Inductive
  <2>2. res[r] \in Resolution BY <2>1 DEF TypeOK
  <2> QED BY <2>1, <2>2, BalancersDiffer DEF Resolving, Resolution
<1>1. PICK b \in Balancer : b = res[r].lb BY <1>0
<1>2. SUFFICES Misses(heap'[b].ips, addr[m]) BY <1>1
<1>3. ASSUME NEW n \in Machine, Grow(n) PROVE Misses(heap'[b].ips, addr[m])
  <2>1. PICK x \in LoadBalancer : heap' = [heap EXCEPT ![lb[n]] = x] /\ x.ips = heap[lb[n]].ips
    BY <1>0, <1>3, GrowWrites
  <2>2. heap'[b].ips = heap[b].ips BY <1>0, <2>1 DEF TypeOK
  <2> QED BY <1>1, <2>2
<1>4. ASSUME NEW n \in Machine, AppendIp(n) PROVE Misses(heap'[b].ips, addr[m])
  <2>1. PICK x \in LoadBalancer :
          heap' = [heap EXCEPT ![lb[n]] = x] /\ x.ips = Append(got[n], addr[n])
    BY <1>0, <1>4, AppendWrites
  <2>2. CASE lb[n] # b
    <3>1. heap'[b] = heap[b] BY <1>0, <2>1, <2>2 DEF TypeOK
    <3> QED BY <1>1, <3>1
  <2>3. CASE lb[n] = b
    <3>1. b # None BY BalancersDiffer, NothingOutside DEF Balancer
    <3>2. n \in Caller /\ pc[n] = "append" /\ Svc(n) = svc[n] /\ Calling(n)
      BY <1>0, <1>4, SvcOf DEF Caller, AppendIp, Calling, AddStep
    <3>3. Owner(b) = svc[n] BY <1>0, <2>3, <3>1, <3>2 DEF Owned, Owner
    <3>4. Owner(b) = svc[m] BY <1>0, <1>1 DEF Inductive, Resolving, Owner
    <3>5. PICK t : t = svc[n] OBVIOUS
    <3>6. Undisturbed(t) /\ svc[m] = t BY <1>0, <3>3, <3>4, <3>5 DEF Undisturbed, Distinct
    <3>7. Undisturbed(Svc(n)) BY <3>2, <3>5, <3>6 DEF Undisturbed, Distinct
    <3>8. got[n] = heap[b].ips
      BY <2>3, <3>2, <3>7 DEF Inductive, InHand, ListInHand
    <3>9. addr[n] # addr[m]
      BY <1>0, <3>2, <3>5, <3>6 DEF Undisturbed, Distinct
    <3>10. Misses(got[n], addr[m]) BY <1>1, <3>8
    <3>11. PICK ips \in Seq(Ip \cup {Blank}) : ips = got[n] BY <1>0, <1>4, AppendWrites
    <3>12. PICK T : T = Ip \cup {Blank} OBVIOUS
    <3>13. addr[n] \in T /\ ips \in Seq(T) BY <1>0, <3>11, <3>12 DEF TypeOK
    <3>14. Misses(Append(ips, addr[n]), addr[m])
      <4>1. /\ Len(ips) \in Nat /\ Len(Append(ips, addr[n])) = Len(ips) + 1
            /\ \A k \in 1..Len(ips) : Append(ips, addr[n])[k] = ips[k]
            /\ Append(ips, addr[n])[Len(ips) + 1] = addr[n]
        BY <3>13, LenProperties, AppendProperties
      <4> QED BY <3>9, <3>10, <3>11, <4>1 DEF Misses
    <3>15. heap'[b] = x BY <1>0, <2>1, <2>3 DEF TypeOK
    <3> QED BY <2>1, <3>11, <3>14, <3>15
  <2> QED BY <2>2, <2>3
<1>5. ASSUME NEW w \in Worker, Copy(w) PROVE Misses(heap'[b].ips, addr[m])
  <2>1. PICK x \in LoadBalancer : heap' = [heap EXCEPT ![<<w, goal[w]>>] = x]
    BY <1>0, <1>5, CopyWrites
  <2>2. b # <<w, goal[w]>> BY <1>0, <1>1, <1>5, CopyIsNew DEF Untouched
  <2>3. heap'[b] = heap[b] BY <1>0, <2>1, <2>2 DEF TypeOK
  <2> QED BY <1>1, <2>3
<1>6. ASSUME UNCHANGED heap PROVE Misses(heap'[b].ips, addr[m])
  BY <1>1, <1>6
<1> QED
  BY <1>3, <1>4, <1>5, <1>6
  DEF Next, AddServiceIP, DeleteServiceIP, GuestStops, LoadOrCreate, StoreHealth,
      Publish, CountUp, Pick, Load, Shrink, CopyPanics, Replace, Forget, CountDown,
      ReadCount, Visit, StoreCheck, Resolve, NextInstance, CheckIp, Answer

LEMMA GoneForGoodStep ==
  ASSUME Inductive, Next
  PROVE  GoneForGood'
<1> USE DEF world, tables, local, history, vars
<1> DEFINE Serial(t) == t \notin raced' /\ Distinct(t)
           Refused(y) ==
      \A m \in y.gone :
        /\ y.at \in {"next", "check"} => Misses(heap'[y.lb].ips, addr[m])
        /\ y.at \in {"check", "answer"} => y.ip # addr[m]
<1>0. /\ TypeOK /\ Resolving /\ UNCHANGED <<svc, addr>>
      /\ \A t : Serial(t) => Undisturbed(t)
  BY WorldFixed, CallsBegin DEF Inductive, Undisturbed, Distinct
<1>1. ASSUME NEW q \in Resolver, Undisturbed(res[q].svc), NEW m \in res[q].gone
      PROVE  /\ res[q].at \in {"next", "check"} =>
                  /\ Misses(heap[res[q].lb].ips, addr[m])
                  /\ Misses(heap'[res[q].lb].ips, addr[m])
             /\ res[q].at \in {"check", "answer"} => res[q].ip # addr[m]
  <2>1. /\ res[q].at \in {"next", "check"} => Misses(heap[res[q].lb].ips, addr[m])
        /\ res[q].at \in {"check", "answer"} => res[q].ip # addr[m]
    BY <1>1 DEF Inductive, GoneForGood, Misses
  <2> QED BY <1>1, <2>1, StillMisses
<1>2. \A q \in Resolver : Undisturbed(res[q].svc) => Refused(res[q]) BY <1>1
<1>3. Refused(NoResolve) BY DEF NoResolve
<1>4. ASSUME NEW r \in Resolver, NEW y, res' = [res EXCEPT ![r] = y],
             Serial(y.svc) => Refused(y), NEW q \in Resolver, Serial(res'[q].svc)
      PROVE  Refused(res'[q])
  <2>1. CASE q = r
    <3>1. res'[q] = y BY <1>0, <1>4, <2>1 DEF TypeOK
    <3>2. PICK t : t = res'[q].svc OBVIOUS
    <3>3. t = y.svc BY <3>1, <3>2
    <3>4. Serial(t) BY <1>4, <3>2 DEF Undisturbed, Distinct
    <3>5. Serial(y.svc) BY <3>3, <3>4 DEF Undisturbed, Distinct
    <3> QED BY <1>4, <3>1, <3>5
  <2>2. CASE q # r
    <3>1. res'[q] = res[q] BY <1>0, <1>4, <2>2 DEF TypeOK
    <3>2. PICK t : t = res'[q].svc OBVIOUS
    <3>3. t = res[q].svc BY <3>1, <3>2
    <3>4. Undisturbed(t) BY <1>0, <1>4, <3>2 DEF Undisturbed, Distinct
    <3>5. Undisturbed(res[q].svc) BY <3>3, <3>4 DEF Undisturbed, Distinct
    <3> QED BY <1>2, <3>1, <3>5
  <2> QED BY <2>1, <2>2
<1> DEFINE Goal == \A q \in Resolver : Serial(res'[q].svc) => Refused(res'[q])
<1>5. ASSUME NEW r \in Resolver, NEW s \in Service, Resolve(r, s) PROVE Goal
  <2>1. PICK y \in Resolution :
          /\ res' = [res EXCEPT ![r] = y]
          /\ y.at = "next" /\ y.svc = s /\ y.lb = instances[s] /\ y.gone = Gone(s)
    BY <1>0, <1>5, ResolveWrites
  <2>2. instances[s] # None /\ UNCHANGED heap BY <1>5 DEF Resolve
  <2>3. Serial(s) => Undisturbed(s) BY <1>0
  <2>4. Undisturbed(s) => Refused(y)
    BY <2>1, <2>2, PublishedMisses
  <2>5. Serial(y.svc) => Undisturbed(s) BY <2>1, <2>3 DEF Undisturbed, Distinct
  <2> HIDE DEF Refused
  <2> QED BY <1>4, <2>1, <2>4, <2>5
<1>6. ASSUME NEW r \in Resolver, NextInstance(r) PROVE Goal
  <2>1. PICK y \in Resolution :
          /\ res' = [res EXCEPT ![r] = y]
          /\ y = NoResolve
             \/ /\ y.at = "check"
                /\ y.svc = res[r].svc /\ y.lb = res[r].lb /\ y.gone = res[r].gone
                /\ \E k \in 1..Len(heap[res[r].lb].ips) : y.ip = heap[res[r].lb].ips[k]
    BY <1>0, <1>6, NextInstanceWrites
  <2>2. CASE y = NoResolve
    <3>1. Refused(y) BY <2>2 DEF NoResolve
    <3> HIDE DEF Refused
    <3> QED BY <1>4, <2>1, <3>1
  <2>3. CASE y # NoResolve
    <3>1. res[r].at = "next" BY <1>6 DEF NextInstance
    <3>2. Undisturbed(res[r].svc) => Refused(y)
      BY <1>1, <2>1, <2>3, <3>1 DEF Misses
    <3>3. PICK t : t = res[r].svc OBVIOUS
    <3>4. y.svc = t BY <2>1, <2>3, <3>3
    <3>5. Serial(y.svc) => Serial(t) BY <3>4 DEF Undisturbed, Distinct
    <3>6. Undisturbed(t) => Undisturbed(res[r].svc) BY <3>3 DEF Undisturbed, Distinct
    <3> HIDE DEF Refused
    <3> QED BY <1>0, <1>4, <2>1, <3>2, <3>5, <3>6
  <2> QED BY <2>2, <2>3
<1>7. ASSUME NEW r \in Resolver, CheckIp(r) PROVE Goal
  <2>1. PICK y \in Resolution :
          /\ res' = [res EXCEPT ![r] = y]
          /\ \/ y = NoResolve
             \/ /\ y.at = "next"
                /\ y.svc = res[r].svc /\ y.lb = res[r].lb /\ y.gone = res[r].gone
             \/ /\ y.at = "answer" /\ y.ip = res[r].ip /\ res[r].ip \in Ip
                /\ y.svc = res[r].svc /\ y.lb = res[r].lb /\ y.gone = res[r].gone
    BY <1>0, <1>7, CheckIpWrites
  <2>2. CASE y = NoResolve
    <3>1. Refused(y) BY <2>2 DEF NoResolve
    <3> HIDE DEF Refused
    <3> QED BY <1>4, <2>1, <3>1
  <2>3. CASE y # NoResolve
    <3>1. res[r].at = "check" BY <1>7 DEF CheckIp
    <3>2. Undisturbed(res[r].svc) => Refused(y)
      BY <1>1, <2>1, <2>3, <3>1
    <3>3. PICK t : t = res[r].svc OBVIOUS
    <3>4. y.svc = t BY <2>1, <2>3, <3>3
    <3>5. Serial(y.svc) => Serial(t) BY <3>4 DEF Undisturbed, Distinct
    <3>6. Undisturbed(t) => Undisturbed(res[r].svc) BY <3>3 DEF Undisturbed, Distinct
    <3> HIDE DEF Refused
    <3> QED BY <1>0, <1>4, <2>1, <3>2, <3>5, <3>6
  <2> QED BY <2>2, <2>3
<1>8. ASSUME NEW r \in Resolver, Answer(r) PROVE Goal
  <2>1. PICK y : y = NoResolve OBVIOUS
  <2>2. res' = [res EXCEPT ![r] = y] BY <1>8, <2>1 DEF Answer, GiveUp
  <2>3. Refused(y) BY <2>1 DEF NoResolve
  <2> HIDE DEF Refused
  <2> QED BY <1>4, <2>2, <2>3
<1>9. ASSUME UNCHANGED res PROVE Goal
  <2>1. TAKE q \in Resolver
  <2>2. HAVE Serial(res'[q].svc)
  <2>3. PICK t : t = res'[q].svc OBVIOUS
  <2>4. Undisturbed(t) BY <1>0, <2>2, <2>3 DEF Undisturbed, Distinct
  <2>5. res'[q] = res[q] BY <1>9
  <2>6. Undisturbed(res[q].svc) BY <2>3, <2>4, <2>5 DEF Undisturbed, Distinct
  <2> HIDE DEF Refused
  <2> QED BY <1>2, <2>5, <2>6
<1>10. Goal
  <2> HIDE DEF Goal
  <2> QED
    BY <1>5, <1>6, <1>7, <1>8, <1>9
    DEF Next, AddServiceIP, DeleteServiceIP, GuestStops, LoadOrCreate, Grow, AppendIp, StoreHealth,
        Publish, CountUp, Pick, Load, Shrink, Copy, CopyPanics, Replace, Forget, CountDown,
        ReadCount, Visit, StoreCheck
<1>11. SUFFICES ASSUME NEW q \in Resolver, Undisturbed(res[q].svc)', NEW m \in res'[q].gone
                PROVE  /\ res'[q].at \in {"next", "check"} => Misses(heap'[res'[q].lb].ips, addr[m])
                       /\ res'[q].at \in {"check", "answer"} => res'[q].ip # addr[m]
  BY <1>0 DEF GoneForGood, Misses
<1>12. Serial(res'[q].svc) BY <1>0, <1>11 DEF Undisturbed, Distinct
<1> QED BY <1>10, <1>11, <1>12

-----------------------------------------------------------------------------
(* The count. *)

LEMMA CountedFinite ==
  ASSUME NEW S \in SUBSET Machine
  PROVE  /\ IsFiniteSet(S) /\ Cardinality(S) \in Nat
         /\ Cardinality(S) <= Cardinality(Machine) /\ Cardinality(Machine) \in Nat
BY MachinesFinite, FS_Subset, FS_CardinalityType

(* A count of fewer machines than its range does not wrap.                 *)
LEMMA NoWrap ==
  ASSUME NEW n \in Nat, n + 1 < CountWrap
  PROVE  /\ (n + 1) % CountWrap = n + 1
         /\ n > 0 => (n + CountWrap - 1) % CountWrap = n - 1
<1>1. CountWrap \in Nat BY CountWrapNat
<1>2. \A k \in Nat : k < CountWrap => k % CountWrap = k BY <1>1
<1>3. \A k \in Nat : k < CountWrap => (k + CountWrap) % CountWrap = k BY <1>1
<1>4. n > 0 => (n - 1) + CountWrap = n + CountWrap - 1 BY <1>1
<1>5. n > 0 => n - 1 \in Nat /\ n - 1 < CountWrap BY <1>1
<1> QED BY <1>1, <1>2, <1>3, <1>4, <1>5

(* Steps that neither count nor mark.                                      *)
CountsNothing ==
  /\ UNCHANGED <<count, marked, miscounted, undue, goal>>
  /\ \A c \in Caller : pc'[c] = "writecount" => pc[c] = "writecount" /\ tmp'[c] = tmp[c]
  /\ \A m \in Machine : pc'[m] = "done" <=> pc[m] = "done"
  /\ \A w \in Worker : (pc'[w] = "load" <=> pc[w] = "load") /\ (pc'[w] = "idle" <=> pc[w] = "idle")

LEMMA CountsNothingStep ==
  ASSUME Inductive, Next,
         \/ \E m \in Machine : \/ LoadOrCreate(m) \/ Grow(m) \/ AppendIp(m)
                               \/ StoreHealth(m) \/ Publish(m)
         \/ \E w \in Worker : Shrink(w) \/ Copy(w) \/ CopyPanics(w) \/ Replace(w) \/ Forget(w)
         \/ UNCHANGED <<count, marked, miscounted, undue, goal, pc, tmp>>
  PROVE  CountExact'
<1> USE DEF world, tables, local, history, vars, Goto
<1>0. TypeOK /\ CountExact BY DEF Inductive
<1>1. CountsNothing
  <2>1. ASSUME NEW m \in Machine, LoadOrCreate(m) PROVE CountsNothing
    BY <1>0, <2>1, GoroutinesDiffer DEF TypeOK, CountsNothing, LoadOrCreate, Caller
  <2>2. ASSUME NEW m \in Machine, Grow(m) PROVE CountsNothing
    BY <1>0, <2>2, GoroutinesDiffer DEF TypeOK, CountsNothing, Grow, Caller
  <2>3. ASSUME NEW m \in Machine, AppendIp(m) PROVE CountsNothing
    BY <1>0, <2>3, GoroutinesDiffer DEF TypeOK, CountsNothing, AppendIp, Caller
  <2>4. ASSUME NEW m \in Machine, StoreHealth(m) PROVE CountsNothing
    BY <1>0, <2>4, GoroutinesDiffer DEF TypeOK, CountsNothing, StoreHealth, Caller
  <2>5. ASSUME NEW m \in Machine, Publish(m) PROVE CountsNothing
    BY <1>0, <2>5, GoroutinesDiffer DEF TypeOK, CountsNothing, Publish, Caller
  <2>6. ASSUME NEW w \in Worker, Shrink(w) PROVE CountsNothing
    BY <1>0, <2>6, GoroutinesDiffer DEF TypeOK, CountsNothing, Shrink, Caller
  <2>7. ASSUME NEW w \in Worker, Copy(w) PROVE CountsNothing
    BY <1>0, <2>7, GoroutinesDiffer DEF TypeOK, CountsNothing, Copy, Caller
  <2>8. ASSUME NEW w \in Worker, CopyPanics(w) PROVE CountsNothing
    BY <1>0, <2>8, GoroutinesDiffer DEF TypeOK, CountsNothing, CopyPanics, Caller
  <2>9. ASSUME NEW w \in Worker, Replace(w) PROVE CountsNothing
    BY <1>0, <2>9, GoroutinesDiffer DEF TypeOK, CountsNothing, Replace, Caller
  <2>10. ASSUME NEW w \in Worker, Forget(w) PROVE CountsNothing
    BY <1>0, <2>10, GoroutinesDiffer DEF TypeOK, CountsNothing, Forget, Caller
  <2>11. ASSUME UNCHANGED <<count, marked, miscounted, undue, goal, pc, tmp>> PROVE CountsNothing
    BY <2>11 DEF CountsNothing
  <2> QED
    BY <2>1, <2>2, <2>3, <2>4, <2>5, <2>6, <2>7, <2>8, <2>9, <2>10, <2>11
<1>2. Counted' = Counted BY <1>1 DEF CountsNothing, Counted
<1>3. marked \in SUBSET Machine BY <1>0 DEF TypeOK
<1> QED BY <1>0, <1>1, <1>2, <1>3 DEF CountsNothing, CountExact

LEMMA CountExactStep ==
  ASSUME Inductive, Next
  PROVE  CountExact'
<1> USE DEF world, tables, local, history, vars, Goto
<1>0. TypeOK /\ Placed /\ CountExact BY DEF Inductive
<1>f. Counted \in SUBSET Machine BY DEF Counted
<1>1. ASSUME NEW c \in Caller, ReadCount(c) PROVE CountExact'
  <2>1. /\ pc[c] = "readcount" /\ pc' = [pc EXCEPT ![c] = "writecount"]
        /\ tmp' = [tmp EXCEPT ![c] = count]
        /\ UNCHANGED <<count, marked, undue, goal>>
        /\ ~miscounted' => ~miscounted /\ \A d \in Caller : pc[d] # "writecount"
    BY <1>0, <1>1 DEF ReadCount, TypeOK
  <2>2. /\ pc'[c] = "writecount" /\ tmp'[c] = count
        /\ \A d \in Caller : d # c => pc'[d] = pc[d]
    BY <1>0, <2>1 DEF TypeOK
  <2>3. Counted' = Counted BY <2>1, <2>2 DEF Counted, Caller
  <2>4. \A m \in marked : m \in Caller BY <1>0 DEF TypeOK, Caller
  <2>5. \A w \in Worker : w \in Caller BY DEF Caller
  <2>6. \A w \in Worker : pc'[w] \notin {"idle", "load"} => pc[w] \notin {"idle", "load"}
    BY <2>1, <2>2, <2>5
  <2> QED BY <1>0, <2>1, <2>2, <2>3, <2>4, <2>6 DEF CountExact
<1>2. ASSUME NEW m \in Machine, CountUp(m) PROVE CountExact'
  <2>1. /\ pc[m] = "writecount" /\ pc' = [pc EXCEPT ![m] = "done"]
        /\ tmp' = [tmp EXCEPT ![m] = 0] /\ count' = (tmp[m] + 1) % CountWrap
        /\ UNCHANGED <<marked, undue, goal, miscounted>>
    BY <1>2 DEF CountUp
  <2>2. /\ m \in Caller /\ m \notin Worker /\ pc'[m] = "done"
        /\ \A d \in Caller : d # m => pc'[d] = pc[d] /\ tmp'[d] = tmp[d]
    BY <1>0, <2>1, GoroutinesDiffer DEF TypeOK, Caller
  <2>3. \A w \in Worker : pc'[w] = pc[w] BY <2>2 DEF Caller
  <2>4. \A n \in Machine : n # m => pc'[n] = pc[n] BY <2>2 DEF Caller
  <2>5. SUFFICES ASSUME ~miscounted PROVE CountExact' BY <2>1 DEF CountExact
  <2>6. \A d \in Caller : pc'[d] # "writecount" BY <1>0, <2>1, <2>2, <2>5 DEF CountExact
  <2>7. tmp[m] = count BY <1>0, <2>1, <2>2, <2>5 DEF CountExact
  <2>8. ASSUME undue = {} PROVE \A n \in marked : pc[n] = "done" /\ pc'[n] = "done" /\ n # m
    BY <1>0, <2>1, <2>4, <2>5, <2>8 DEF CountExact, TypeOK
  <2>9. ASSUME undue = {}, FewMachines PROVE count' = Cardinality(Counted)'
    <3>1. Counted' = Counted \cup {m} /\ m \notin Counted
      BY <2>1, <2>2, <2>3, <2>4, <2>8, <2>9 DEF Counted
    <3>2. Cardinality(Counted)' = Cardinality(Counted) + 1
      BY <1>f, <3>1, CountedFinite, FS_AddElement
    <3>3. Cardinality(Counted)' <= Cardinality(Machine) /\ Cardinality(Counted) \in Nat
          /\ Cardinality(Machine) \in Nat
      <4>1. Counted' \in SUBSET Machine BY <1>f, <3>1
      <4> QED BY <1>f, <4>1, CountedFinite
    <3>4. count = Cardinality(Counted) BY <1>0, <2>5, <2>9 DEF CountExact
    <3>5. count + 1 < CountWrap BY <2>9, <3>2, <3>3, <3>4, CountWrapNat DEF FewMachines
    <3> QED BY <2>1, <2>7, <3>2, <3>3, <3>4, <3>5, NoWrap
  <2> QED BY <1>0, <2>1, <2>3, <2>5, <2>6, <2>8, <2>9 DEF CountExact
<1>3. ASSUME NEW w \in Worker, CountDown(w) PROVE CountExact'
  <2>1. /\ pc[w] = "writecount" /\ pc' = [pc EXCEPT ![w] = "idle"]
        /\ tmp' = [tmp EXCEPT ![w] = 0] /\ count' = (tmp[w] + CountWrap - 1) % CountWrap
        /\ goal' = [goal EXCEPT ![w] = None]
        /\ UNCHANGED <<marked, undue, miscounted>>
    BY <1>3 DEF CountDown
  <2>2. /\ w \in Caller /\ w \notin Machine /\ pc'[w] = "idle" /\ goal'[w] = None
        /\ \A d \in Caller : d # w => pc'[d] = pc[d] /\ tmp'[d] = tmp[d]
        /\ \A v \in Worker : v # w => goal'[v] = goal[v]
    BY <1>0, <2>1, GoroutinesDiffer DEF TypeOK, Caller
  <2>3. \A v \in Worker : v # w => pc'[v] = pc[v] BY <2>2 DEF Caller
  <2>4. \A n \in Machine : pc'[n] = pc[n] BY <2>2 DEF Caller
  <2>5. SUFFICES ASSUME ~miscounted PROVE CountExact' BY <2>1 DEF CountExact
  <2>6. \A d \in Caller : pc'[d] # "writecount" BY <1>0, <2>1, <2>2, <2>5 DEF CountExact
  <2>7. tmp[w] = count BY <1>0, <2>1, <2>2, <2>5 DEF CountExact
  <2>8. PICK m \in Machine : m = goal[w] /\ m \in marked
    BY <1>0, <2>1 DEF Placed, TypeOK
  <2>9. ASSUME undue = {} PROVE \A n \in marked : pc'[n] = "done"
    BY <1>0, <2>4, <2>5, <2>9 DEF CountExact, TypeOK
  <2>10. ASSUME undue = {}, FewMachines PROVE count' = Cardinality(Counted)'
    <3>1. m \in Counted
      BY <1>0, <2>1, <2>5, <2>8, <2>10 DEF Counted, CountExact
    <3>2. \A v \in Worker : goal[v] = m /\ pc[v] # "load" => v = w
      <4>1. \A v \in Worker : goal[v] = m => pc[v] # "idle"
        BY <1>0, NothingOutside DEF Placed
      <4> QED BY <1>0, <2>1, <2>5, <2>8, <2>10, <4>1 DEF CountExact
    <3>3. m # None BY NothingOutside
    <3>4. m \notin Counted'
      BY <2>1, <2>2, <2>3, <2>8, <3>2, <3>3 DEF Counted
    <3>5. ASSUME NEW n \in Machine, n # m PROVE n \in Counted' <=> n \in Counted
      <4>1. n # None BY NothingOutside
      <4>2. (\E v \in Worker : goal'[v] = n /\ pc'[v] # "load")
              <=> (\E v \in Worker : goal[v] = n /\ pc[v] # "load")
        BY <2>2, <2>3, <2>8, <3>5, <4>1
      <4> QED BY <2>1, <2>4, <4>2 DEF Counted
    <3>6. Counted' = Counted \ {m}
      <4>1. Counted' \in SUBSET Machine BY DEF Counted
      <4> QED BY <1>f, <3>4, <3>5, <4>1
    <3>7. Cardinality(Counted)' = Cardinality(Counted) - 1
      BY <1>f, <3>1, <3>6, CountedFinite, FS_RemoveElement
    <3>8. Cardinality(Counted) <= Cardinality(Machine) /\ Cardinality(Counted) \in Nat
          /\ Cardinality(Machine) \in Nat
      BY <1>f, CountedFinite
    <3>9. Cardinality(Counted) > 0
      <4>1. Cardinality(Counted) # 0 BY <1>f, <3>1, CountedFinite, FS_EmptySet
      <4> QED BY <3>8, <4>1
    <3>10. count = Cardinality(Counted) BY <1>0, <2>5, <2>10 DEF CountExact
    <3>11. count + 1 < CountWrap /\ count \in Nat
      BY <2>10, <3>8, <3>10, CountWrapNat DEF FewMachines
    <3> QED BY <2>1, <2>7, <3>7, <3>9, <3>10, <3>11, NoWrap
  <2>11. undue = {} =>
           \A u, v \in Worker :
             goal'[u] = goal'[v] /\ pc'[u] \notin {"idle", "load"} /\ pc'[v] \notin {"idle", "load"}
               => u = v
    BY <1>0, <2>2, <2>3, <2>5 DEF CountExact
  <2>12. undue' = {} =>
           /\ \A n \in marked' : pc'[n] = "done"
           /\ FewMachines => count' = Cardinality(Counted)'
    BY <2>1, <2>9, <2>10
  <2>13. undue' = undue BY <2>1
  <2> QED BY <2>6, <2>11, <2>12, <2>13 DEF CountExact
<1>4. ASSUME NEW w \in Worker, Load(w) PROVE CountExact'
  <2> DEFINE m == goal[w]
  <2>1. /\ pc[w] = "load" /\ marked' = marked \cup {m}
        /\ UNCHANGED <<count, tmp, goal, miscounted>>
        /\ undue' = {} => undue = {} /\ m \notin marked /\ pc[m] = "done"
    BY <1>4 DEF Load
  <2>2. /\ w \in Caller /\ w \notin Machine /\ m \in Machine
        /\ pc'[w] \in {"forget", "shrink"}
        /\ \A d \in Caller : d # w => pc'[d] = pc[d]
    BY <1>0, <1>4, GoroutinesDiffer DEF TypeOK, Placed, Caller, Load
  <2> HIDE DEF m
  <2>3. \A v \in Worker : v # w => pc'[v] = pc[v] BY <2>2 DEF Caller
  <2>4. \A n \in Machine : pc'[n] = pc[n] BY <2>2 DEF Caller
  <2>5. SUFFICES ASSUME ~miscounted PROVE CountExact' BY <2>1 DEF CountExact
  <2>6. /\ \A c, d \in Caller : pc'[c] = "writecount" /\ pc'[d] = "writecount" => c = d
        /\ \A c \in Caller : pc'[c] = "writecount" => tmp'[c] = count'
    BY <1>0, <2>1, <2>2, <2>5 DEF CountExact
  <2>7. ASSUME undue' = {} PROVE \A n \in marked' : pc'[n] = "done"
    BY <1>0, <2>1, <2>2, <2>4, <2>5, <2>7 DEF CountExact, TypeOK
  <2>8. ASSUME undue' = {}, NEW u \in Worker, NEW v \in Worker, goal'[u] = goal'[v],
               pc'[u] \notin {"idle", "load"}, pc'[v] \notin {"idle", "load"}
        PROVE  u = v
    <3>1. \A x \in Worker : x # w => goal[x] # m \/ pc[x] \in {"idle", "load"}
      BY <1>0, <2>1, <2>8 DEF Placed
    <3>2. goal[u] = goal[v] BY <2>1, <2>8
    <3>3. CASE u # w /\ v # w
      BY <1>0, <2>1, <2>3, <2>5, <2>8, <3>2, <3>3 DEF CountExact
    <3>4. CASE u = w \/ v = w BY <2>3, <2>8, <3>1, <3>2, <3>4 DEF m
    <3> QED BY <3>3, <3>4
  <2>9. ASSUME undue' = {}, FewMachines PROVE count' = Cardinality(Counted)'
    <3>1. ASSUME NEW n \in Machine PROVE n \in Counted' <=> n \in Counted
      <4>1. CASE n = m
        <5>1. m \in Counted BY <2>1, <2>2, <2>9 DEF Counted
        <5>2. goal'[w] = m /\ pc'[w] # "load" BY <2>1, <2>2 DEF m
        <5>3. m \in Counted' BY <2>1, <2>2, <2>4, <2>9, <5>2 DEF Counted
        <5> QED BY <4>1, <5>1, <5>3
      <4>2. CASE n # m
        <5>1. (\E v \in Worker : goal'[v] = n /\ pc'[v] # "load")
                <=> (\E v \in Worker : goal[v] = n /\ pc[v] # "load")
          BY <2>1, <2>3, <4>2 DEF m
        <5>2. n \in marked' <=> n \in marked BY <2>1, <4>2
        <5> QED BY <2>4, <5>1, <5>2 DEF Counted
      <4> QED BY <4>1, <4>2
    <3>2. Counted' = Counted
      <4>1. Counted' \in SUBSET Machine BY DEF Counted
      <4> QED BY <1>f, <3>1, <4>1
    <3> QED BY <1>0, <2>1, <2>5, <2>9, <3>2 DEF CountExact
  <2> QED BY <2>6, <2>7, <2>8, <2>9 DEF CountExact
<1>5. ASSUME NEW w \in Worker, NEW m \in Machine, Pick(w, m) PROVE CountExact'
  <2>1. /\ pc[w] = "idle" /\ m \notin marked /\ goal[w] = None
        /\ UNCHANGED <<count, tmp, marked, undue, miscounted>>
    BY <1>0, <1>5 DEF Pick, Placed
  <2>2. /\ w \in Caller /\ w \notin Machine /\ pc'[w] = "load" /\ goal'[w] = m
        /\ \A d \in Caller : d # w => pc'[d] = pc[d]
        /\ \A v \in Worker : v # w => goal'[v] = goal[v]
    BY <1>0, <1>5, GoroutinesDiffer DEF TypeOK, Caller, Pick
  <2>3. \A v \in Worker : v # w => pc'[v] = pc[v] BY <2>2 DEF Caller
  <2>4. \A n \in Machine : pc'[n] = pc[n] BY <2>2 DEF Caller
  <2>5. SUFFICES ASSUME ~miscounted PROVE CountExact' BY <2>1 DEF CountExact
  <2>6. /\ \A c, d \in Caller : pc'[c] = "writecount" /\ pc'[d] = "writecount" => c = d
        /\ \A c \in Caller : pc'[c] = "writecount" => tmp'[c] = count'
    BY <1>0, <2>1, <2>2, <2>5 DEF CountExact
  <2>7. undue = {} =>
          \A u, v \in Worker :
            goal'[u] = goal'[v] /\ pc'[u] \notin {"idle", "load"} /\ pc'[v] \notin {"idle", "load"}
              => u = v
    BY <1>0, <2>2, <2>3, <2>5 DEF CountExact
  <2>8. Counted' = Counted
    <3>1. ASSUME NEW n \in Machine
          PROVE  (n \in marked => \E v \in Worker : goal'[v] = n /\ pc'[v] # "load")
                   <=> (n \in marked => \E v \in Worker : goal[v] = n /\ pc[v] # "load")
      <4>1. n # None BY NothingOutside
      <4> QED BY <2>1, <2>2, <2>3, <4>1
    <3> QED BY <2>1, <2>4, <3>1 DEF Counted
  <2>9. undue = {} => \A n \in marked : pc'[n] = "done"
    BY <1>0, <2>4, <2>5 DEF CountExact, TypeOK
  <2>10. undue = {} /\ FewMachines => count = Cardinality(Counted)
    BY <1>0, <2>5 DEF CountExact
  <2> QED BY <2>1, <2>6, <2>7, <2>8, <2>9, <2>10 DEF CountExact
<1> QED
  BY <1>1, <1>2, <1>3, <1>4, <1>5, CountsNothingStep
  DEF Next, AddServiceIP, DeleteServiceIP, GuestStops, Visit, StoreCheck, Resolve, NextInstance,
      CheckIp, Answer

(* The count of an undisturbed daemon stays below its largest value, which *)
(* is what the division needs.                                             *)
LEMMA DelayStep ==
  ASSUME Inductive, Next, FewMachines
  PROVE  DelayDividesOnlyAfterRaces'
<1>1. CASE StoreCheck
  <2>1. fatal' = "divide" => (count + 1) % CountWrap = 0
    BY <1>1 DEF Next, StoreCheck
  <2>2. miscounted' = miscounted /\ undue' = undue BY <1>1 DEF StoreCheck, history
  <2>3. ASSUME ~miscounted, undue = {} PROVE (count + 1) % CountWrap # 0
    <3>1. count = Cardinality(Counted) BY <2>3 DEF Inductive, CountExact
    <3>2. Counted \in SUBSET Machine BY DEF Counted
    <3>3. count + 1 < CountWrap /\ count \in Nat
      BY <3>1, <3>2, CountedFinite, CountWrapNat DEF FewMachines
    <3> QED BY <3>3, NoWrap
  <2> QED BY <2>1, <2>2, <2>3 DEF DelayDividesOnlyAfterRaces
<1>2. CASE ~StoreCheck
  <2>1. fatal' # "divide"
    BY <1>2
    DEF Next, AddServiceIP, DeleteServiceIP, GuestStops, LoadOrCreate, Grow, AppendIp, StoreHealth,
        Publish, CountUp, Pick, Load, Shrink, Copy, CopyPanics, Replace, Forget, CountDown,
        ReadCount, Visit, Resolve, NextInstance, CheckIp, Answer, local
  <2> QED BY <2>1 DEF DelayDividesOnlyAfterRaces
<1> QED BY <1>1, <1>2

-----------------------------------------------------------------------------
(* The theorems. *)

LEMMA InitHolds ==
  ASSUME Init
  PROVE  Inductive
<1> USE DEF Init, Caller
<1>1. TypeOK
  <2>1. <<>> \in Seq(Ip \cup {Blank}) /\ [size |-> 0, ips |-> <<>>] \in LoadBalancer
    BY EmptySeq DEF LoadBalancer
  <2>2. 0 \in 0..(CountWrap - 1) BY CountWrapNat
  <2>3. NoCheck \in Checking /\ NoResolve \in Resolution BY NoResolveTyped DEF NoCheck, Checking
  <2> QED BY <2>1, <2>2, <2>3 DEF TypeOK, CallerStep, AddStep, DeleteStep
<1>2. Placed BY DEF Placed, AddStep, DeleteStep
<1>3. Sized BY DEF Sized
<1>4. Fresh
  <2>1. \A b \in Balancer : b # None BY BalancersDiffer, NothingOutside DEF Balancer
  <2> QED BY <2>1 DEF Fresh, Untouched, NoResolve
<1>5. Owned BY DEF Owned
<1>6. OwnLists
  <2>1. \A S : <<>> \in Seq(S) BY EmptySeq
  <2>2. \A b \in Balancer : heap[b].ips = <<>> OBVIOUS
  <2>3. \A m \in Machine : got[m] = <<>> OBVIOUS
  <2> QED BY <2>1, <2>2, <2>3 DEF OwnLists
<1>7. Resolving BY DEF Resolving, NoResolve
<1>8. \A c \in Caller : ~Calling(c) BY DEF Calling, AddStep, DeleteStep
<1>9. Alone /\ InHand BY <1>8 DEF Alone, InCall, InHand
<1>10. Published BY DEF Published, PublishedList, Addresses
<1>11. DeletesListed BY DEF DeletesListed, DeleteStep
<1>12. CopyRunsOverOnlyAfterRaces /\ DelayDividesOnlyAfterRaces
  BY DEF CopyRunsOverOnlyAfterRaces, DelayDividesOnlyAfterRaces
<1>13. GoneForGood BY DEF GoneForGood, NoResolve
<1>14. CountExact
  <2>1. Counted = {} BY DEF Counted
  <2> QED BY <2>1, FS_EmptySet DEF CountExact
<1> QED
  BY <1>1, <1>2, <1>3, <1>4, <1>5, <1>6, <1>7, <1>9, <1>10, <1>11, <1>12, <1>13, <1>14
  DEF Inductive

LEMMA NextHolds ==
  ASSUME Inductive, Next
  PROVE  Inductive'
<1>1. TypeOK' BY TypeStep
<1>2. Placed' BY PlacedStep
<1>3. Sized' BY SizedStep
<1>4. Fresh' BY FreshStep
<1>5. Owned' BY OwnedStep
<1>6. OwnLists' BY OwnListsStep
<1>7. Resolving' BY ResolvingStep
<1>8. Alone' BY AloneStep
<1>9. Published' /\ InHand' BY ListsStep
<1>10. DeletesListed' BY DeletesListedStep
<1>11. CopyRunsOverOnlyAfterRaces' BY CopyRunsOverStep
<1>12. GoneForGood' BY GoneForGoodStep
<1>13. CountExact' BY CountExactStep
<1>14. FewMachines' => DelayDividesOnlyAfterRaces' BY DelayStep DEF FewMachines
<1> QED
  BY <1>1, <1>2, <1>3, <1>4, <1>5, <1>6, <1>7, <1>8, <1>9, <1>10, <1>11, <1>12, <1>13, <1>14
  DEF Inductive

LEMMA StutterHolds ==
  ASSUME Inductive, UNCHANGED vars
  PROVE  Inductive'
<1> USE DEF Svc, Target, Address, Calling, InCall, Addresses, Distinct, Undisturbed
<1>0. Inductive /\ UNCHANGED vars OBVIOUS
<1> USE DEF vars, world, tables, local, history
<1>1. TypeOK' BY <1>0 DEF Inductive, TypeOK
<1>2. Placed' BY <1>0 DEF Inductive, Placed
<1>3. Sized' BY <1>0 DEF Inductive, Sized
<1>4. Fresh' BY <1>0 DEF Inductive, Fresh, Unmade, Untouched
<1>5. Owned' BY <1>0 DEF Inductive, Owned, Owner
<1>6. OwnLists' BY <1>0 DEF Inductive, OwnLists, OwnIps, Owner
<1>7. Resolving' BY <1>0 DEF Inductive, Resolving, OwnIps, Owner
<1>8. Alone' BY <1>0 DEF Inductive, Alone
<1>9. Published'
  <2>1. \A s \in Service : Undisturbed(s) => PublishedList(s)
    BY <1>0 DEF Inductive, Published
  <2>2. \A s : Undisturbed(s)' => Undisturbed(s) BY <1>0
  <2>3. ASSUME NEW s \in Service, PublishedList(s) PROVE PublishedList(s)'
    <3>1. PICK A : A = Addresses(s) OBVIOUS
    <3>2. Addresses(s)' = A BY <1>0, <3>1
    <3>3. PICK b : b = heap[instances[s]] OBVIOUS
    <3>4. heap'[instances'[s]] = b BY <1>0, <3>3
    <3> HIDE DEF Addresses
    <3> QED BY <1>0, <2>3, <3>1, <3>2, <3>3, <3>4 DEF PublishedList
  <2>4. \A s \in Service : Undisturbed(s)' => PublishedList(s)' BY <2>1, <2>2, <2>3
  <2> QED BY <2>4 DEF Published
<1>10. InHand'
  <2>1. ASSUME NEW c \in Caller, Calling(c)', Undisturbed(Svc(c))' PROVE ListInHand(c)'
    <3>1. ListInHand(c) BY <1>0, <2>1 DEF Inductive, InHand
    <3>2. PICK A : A = Addresses(Svc(c)) OBVIOUS
    <3>3. Addresses(Svc(c))' = A BY <1>0, <3>2
    <3>4. PICK b : b = heap[lb[c]] OBVIOUS
    <3>5. heap'[lb'[c]] = b BY <1>0, <3>4
    <3> HIDE DEF Addresses
    <3> QED BY <1>0, <3>1, <3>2, <3>3, <3>4, <3>5 DEF ListInHand
  <2> QED BY <2>1 DEF InHand
<1>11. DeletesListed' BY <1>0 DEF Inductive, DeletesListed
<1>12. CopyRunsOverOnlyAfterRaces' BY <1>0 DEF Inductive, CopyRunsOverOnlyAfterRaces
<1>13. GoneForGood' BY <1>0 DEF Inductive, GoneForGood
<1>14. CountExact' BY <1>0 DEF Inductive, CountExact, Counted
<1>15. FewMachines' => DelayDividesOnlyAfterRaces'
  BY <1>0 DEF Inductive, FewMachines, DelayDividesOnlyAfterRaces
<1> QED
  BY <1>1, <1>2, <1>3, <1>4, <1>5, <1>6, <1>7, <1>8, <1>9, <1>10, <1>11, <1>12, <1>13, <1>14,
     <1>15
  DEF Inductive

(* However the store's goroutines, the health check and the resolutions    *)
(* interleave: where each goroutine is, which load balancer it holds, what *)
(* is in its list and what the count counts, as Inductive says.            *)
THEOREM InvariantHolds == Spec => []Inductive
<1>1. Init => Inductive BY InitHolds
<1>2. Inductive /\ [Next]_vars => Inductive' BY NextHolds, StutterHolds
<1> QED BY <1>1, <1>2, PTL DEF Spec

(* The controller's tables, its load balancers and the local variables of  *)
(* its calls keep their types; the count stays a uint64.                   *)
THEOREM TypeCorrect == Spec => []TypeOK
<1>1. Inductive => TypeOK BY DEF Inductive
<1> QED BY <1>1, InvariantHolds, PTL

(* AddInstance and DeleteInstance, while the calls on a function do not    *)
(* overlap, keep its list exact, whatever those on other functions do.     *)
THEOREM ListsAreExact == Spec => []ListExact
<1>1. ASSUME Inductive PROVE ListExact
  <2>1. SUFFICES ASSUME NEW s \in Service, Undisturbed(s), InCall(s) = {}
                 PROVE  LET members == {m \in listed : svc[m] = s}
                            b       == heap[instances[s]] IN
                        IF instances[s] = None
                        THEN members = {}
                        ELSE /\ b.size = Len(b.ips)
                             /\ b.size = Cardinality(members)
                             /\ {b.ips[k] : k \in 1..Len(b.ips)} = {addr[m] : m \in members}
    BY DEF ListExact, Undisturbed
  <2>2. TypeOK /\ PublishedList(s) BY <1>1, <2>1 DEF Inductive, Published
  <2>3. CASE instances[s] = None
    BY <2>2, <2>3 DEF PublishedList, Addresses
  <2>4. CASE instances[s] # None
    <3>1. \A m \in Machine : svc[m] = s => pc[m] \notin {"append", "report", "publish"}
      BY <2>1, <2>2, SvcOf DEF InCall, Calling, AddStep, Caller
    <3>2. Exact(heap[instances[s]], Addresses(s)) BY <2>2, <2>4, <3>1 DEF PublishedList
    <3>3. Cardinality(Addresses(s)) = Cardinality({m \in listed : svc[m] = s})
      BY <2>1, <2>2, AddressesFinite DEF Undisturbed
    <3>4. Addresses(s) = {addr[m] : m \in {n \in listed : svc[n] = s}} BY DEF Addresses
    <3> QED BY <2>4, <3>2, <3>3, <3>4 DEF Exact, Lists
  <2> QED BY <2>3, <2>4
<1> QED BY <1>1, InvariantHolds, PTL

(* DeleteInstance's copy panics only where two calls on a function raced,  *)
(* an address was given out twice or the machine was not (or no longer)    *)
(* there to delete.                                                        *)
THEOREM CopiesFit == Spec => []CopyRunsOverOnlyAfterRaces
<1>1. Inductive => CopyRunsOverOnlyAfterRaces BY DEF Inductive
<1> QED BY <1>1, InvariantHolds, PTL

(* ResolveServiceEndpoint answers with an address of the function it was   *)
(* asked for, even while calls on it race.                                 *)
THEOREM ResolutionsAreOwn == Spec => []ResolvesOwnAddress
<1>1. ASSUME Inductive PROVE ResolvesOwnAddress
  <2>1. SUFFICES ASSUME NEW r \in Resolver, res[r].at = "answer"
                 PROVE  \E m \in Machine : svc[m] = res[r].svc /\ addr[m] = res[r].ip
    BY DEF ResolvesOwnAddress
  <2>2. res[r].ip \in OwnIps(res[r].svc) BY <1>1, <2>1 DEF Inductive, Resolving
  <2> QED BY <2>2 DEF OwnIps
<1> QED BY <1>1, InvariantHolds, PTL

(* An address whose DeleteServiceIP has returned is not resolved any more, *)
(* by a resolution that begins later and while calls do not overlap.       *)
THEOREM GoneIsNotResolved == Spec => []NoStaleEndpoint
<1>1. ASSUME Inductive PROVE NoStaleEndpoint
  BY <1>1 DEF Inductive, GoneForGood, NoStaleEndpoint, Undisturbed
<1> QED BY <1>1, InvariantHolds, PTL

(* RunHealthChecks divides by instanceCount + 1: with fewer machines than  *)
(* the count has values, that is zero only after two updates of the count  *)
(* overlapped or a machine was deleted that was not there to delete.       *)
THEOREM DelayIsFinite ==
  ASSUME FewMachines
  PROVE  Spec => []DelayDividesOnlyAfterRaces
<1>1. Inductive => DelayDividesOnlyAfterRaces BY DEF Inductive
<1> QED BY <1>1, InvariantHolds, PTL
=============================================================================
