---------------------------- MODULE IntentProofs ----------------------------
(***************************************************************************)
(* What TargetIntent accepts can exist, for every sequence of resources    *)
(* and every address width: no two bindings hold one host socket, and no   *)
(* address of a created network has two holders or two pools.  The lists   *)
(* the code compares with are only as long as its walks have come, so the  *)
(* invariants say what they hold at each resource; the addresses need the  *)
(* arithmetic of subnets as well, which is that of blocks of 2^n.          *)
(***************************************************************************)
EXTENDS Intent, FiniteSetTheorems, WellFoundedInduction, TLAPS

\* The fixed bindings of the resources before the i-th.
Before(i) == UNION {FixedIn(j) : j \in 1 .. i - 1}

\* Between the walks the list is that of every resource or of none.
Walked ==
  /\ phase \in {"open", "identities"} => fixed = {}
  /\ phase = "settings" => fixed = Before(at)
  /\ phase \in {"addresses", "accepted"} => fixed = Bound

Cursor == phase \in {"identities", "settings", "addresses"} => at \in Indices

NoneShared == \A f, g \in fixed : f # g => ~SameSocket(f, g)

\* What every step keeps.
IInv ==
  /\ resources \in Seq(Range(resources))
  /\ phase \in {"open", "identities", "settings", "addresses", "accepted", "refused"}
  /\ phase = "open" => at = 1
  /\ Cursor
  /\ Walked
  /\ NoneShared

\* Two bindings share a socket whichever is looked at first: host_ip_overlaps
\* is symmetric.
LEMMA SameSocketSymmetric ==
  ASSUME NEW f, NEW g, SameSocket(f, g)
  PROVE  SameSocket(g, f)
BY DEF SameSocket, HostIpOverlaps

\* host_ip_overlaps misses no shared socket: addresses it tells apart listen on
\* nothing in common.
LEMMA OverlapSound ==
  ASSUME NEW left, NEW right, ~HostIpOverlaps(left, right)
  PROVE  Listens(left) \cap Listens(right) = {}
BY DEF HostIpOverlaps, Listens, Wildcards

\* A resource that is no container binds nothing.
LEMMA NoBindings ==
  ASSUME NEW i, resources[i].kind # "container"
  PROVE  FixedIn(i) = {}
BY DEF FixedIn

\* A resource CheckResource lets pass shares no socket within itself, nor with
\* what was bound before it.
LEMMA PassedIsApart ==
  ASSUME NEW i, ~(resources[i].kind = "container" /\ ContainerRefused(i)),
         NEW f \in FixedIn(i), NEW g \in FixedIn(i) \cup fixed, f # g
  PROVE  ~SameSocket(f, g)
<1>1. CASE resources[i].kind # "container"
  BY <1>1, NoBindings
<1>2. CASE resources[i].kind = "container"
  <2>1. ~PortsRefused(i)
    BY <1>2 DEF ContainerRefused
  <2>2. QED
    BY <2>1 DEF PortsRefused
<1>3. QED
  BY <1>1, <1>2

\* The walk neither reads nor writes anything that changes what is authored.
LEMMA AuthoredStays ==
  ASSUME resources' = resources
  PROVE  /\ \A i : FixedIn(i)' = FixedIn(i)
         /\ Bound' = Bound
         /\ Indices' = Indices
<1>1. \A i : FixedIn(i)' = FixedIn(i)
  BY DEF FixedIn
<1>2. Indices' = Indices
  BY DEF Indices
<1>3. Bound' = Bound
  BY <1>1, <1>2 DEF Bound
<1>4. QED
  BY <1>1, <1>2, <1>3

\* At first nothing has been registered.
LEMMA InitIInv == Init => IInv
<1>1. SUFFICES ASSUME Init PROVE IInv
  OBVIOUS
<1>2. resources \in Seq(Range(resources))
  BY <1>1, AuthoredAssumption DEF Init
<1>3. QED
  BY <1>1, <1>2 DEF Init, IInv, Cursor, Walked, NoneShared

\* The list after resource i is what was before it and its own.
LEMMA BeforeNext ==
  ASSUME NEW i \in Nat \ {0}
  PROVE  /\ Before(i + 1) = Before(i) \cup FixedIn(i)
         /\ Before(1) = {}
<1>1. 1 .. (i + 1) - 1 = (1 .. i - 1) \cup {i}
  OBVIOUS
<1>2. 1 .. 1 - 1 = {}
  OBVIOUS
<1>3. QED
  BY <1>1, <1>2 DEF Before

\* Nothing is left of a refused construction but the refusal.
LEMMA RefuseKeeps ==
  ASSUME IInv, Refuse, resources' = resources
  PROVE  IInv'
<1>1. phase' = "refused" /\ fixed' = fixed
  BY DEF Refuse, Memory
<1>2. NoneShared'
  BY <1>1 DEF IInv, NoneShared, SameSocket, HostIpOverlaps
<1>3. QED
  BY <1>1, <1>2 DEF IInv, Cursor, Walked

\* The cursor stays on the resources, and a finished walk starts the next one
\* at the first of them.
LEMMA AdvanceKeepsCursor ==
  ASSUME IInv, NEW next, Advance(next), at \in Indices, resources' = resources
  PROVE  /\ at' \in Indices
         /\ at < Len(resources) => at' = at + 1 /\ phase' = phase
         /\ ~(at < Len(resources)) => at = Len(resources) /\ at' = 1 /\ phase' = next
<1>1. /\ Indices = 1 .. Len(resources)
      /\ Len(resources) \in Nat
      /\ Indices' = Indices
  BY DEF IInv, Indices
<1>2. QED
  BY <1>1 DEF Advance

\* Opening the intent keeps the invariant.
LEMMA OpenKeeps ==
  ASSUME IInv, Open
  PROVE  IInv'
<1>1. CASE Refuse
  BY <1>1, RefuseKeeps DEF Open
<1>2. CASE ~Refuse
  <2>1. /\ phase' = "identities" /\ fixed' = fixed /\ at' = at /\ at = 1
        /\ resources' = resources /\ resources # <<>> /\ fixed = {}
    BY <1>2 DEF Open, Memory, IInv, Walked
  <2>2. 1 \in Indices'
    BY <2>1 DEF IInv, Indices
  <2>3. QED
    BY <2>1, <2>2 DEF IInv, Cursor, Walked, NoneShared
<1>3. QED
  BY <1>1, <1>2

\* Registering a resource's identity keeps it.
LEMMA RegisterIdentityKeeps ==
  ASSUME IInv, RegisterIdentity
  PROVE  IInv'
<1>1. CASE Refuse
  BY <1>1, RefuseKeeps DEF RegisterIdentity
<1>2. CASE ~Refuse
  <2>1. /\ Advance("settings") /\ fixed' = fixed /\ resources' = resources
        /\ phase = "identities" /\ at \in Indices /\ fixed = {}
    BY <1>2 DEF RegisterIdentity, IInv, Cursor, Walked
  <2>2. /\ at' \in Indices
        /\ at < Len(resources) => phase' = phase
        /\ ~(at < Len(resources)) => at' = 1 /\ phase' = "settings"
    BY <2>1, AdvanceKeepsCursor
  <2>3. Before(1)' = {}
    <3>1. 1 .. 1 - 1 = {}
      OBVIOUS
    <3>2. QED
      BY <3>1 DEF Before
  <2>4. QED
    BY <2>1, <2>2, <2>3, AuthoredStays DEF IInv, Cursor, Walked, NoneShared
<1>3. QED
  BY <1>1, <1>2

\* Checking a resource keeps it.
LEMMA CheckResourceKeeps ==
  ASSUME IInv, CheckResource
  PROVE  IInv'
<1>1. CASE Refuse
  BY <1>1, RefuseKeeps DEF CheckResource
<1>2. CASE ~Refuse
  <2>1. /\ Advance("addresses") /\ fixed' = fixed \cup FixedIn(at) /\ resources' = resources
        /\ phase = "settings" /\ at \in Indices /\ fixed = Before(at)
        /\ ~(resources[at].kind = "container" /\ ContainerRefused(at))
    BY <1>2 DEF CheckResource, IInv, Cursor, Walked
  <2>2. /\ at' \in Indices
        /\ at < Len(resources) => at' = at + 1 /\ phase' = phase
        /\ ~(at < Len(resources)) => at = Len(resources) /\ at' = 1 /\ phase' = "addresses"
    BY <2>1, AdvanceKeepsCursor
  <2>3. at \in Nat \ {0} /\ Indices = 1 .. Len(resources) /\ Len(resources) \in Nat
    BY <2>1 DEF IInv, Indices
  <2>4. fixed' = Before(at + 1)
    BY <2>1, <2>3, BeforeNext
  <2>5. Walked'
    <3>1. CASE at < Len(resources)
      BY <3>1, <2>1, <2>2, <2>4, AuthoredStays DEF Walked, Before
    <3>2. CASE ~(at < Len(resources))
      <4>1. 1 .. (at + 1) - 1 = Indices
        BY <3>2, <2>2, <2>3
      <4>2. Before(at + 1) = Bound
        BY <4>1 DEF Before, Bound
      <4>3. QED
        BY <3>2, <4>2, <2>1, <2>2, <2>4, AuthoredStays DEF Walked
    <3>3. QED
      BY <3>1, <3>2
  <2>6. \A f, g \in fixed' : f # g => ~SameSocket(f, g)
    <3>1. SUFFICES ASSUME NEW f \in fixed \cup FixedIn(at), NEW g \in fixed \cup FixedIn(at), f # g
                   PROVE  ~SameSocket(f, g)
      BY <2>1
    <3>2. CASE f \in FixedIn(at)
      BY <3>1, <3>2, <2>1, PassedIsApart
    <3>3. CASE g \in FixedIn(at)
      <4>1. ~SameSocket(g, f)
        BY <3>1, <3>3, <2>1, PassedIsApart
      <4>2. QED
        BY <4>1, SameSocketSymmetric
    <3>4. CASE f \in fixed /\ g \in fixed
      BY <3>1, <3>4 DEF IInv, NoneShared
    <3>5. QED
      BY <3>1, <3>2, <3>3, <3>4
  <2>7. QED
    BY <2>1, <2>2, <2>5, <2>6, AuthoredStays DEF IInv, Cursor, NoneShared, SameSocket, HostIpOverlaps
<1>3. QED
  BY <1>1, <1>2

\* Registering the addresses of a network or a container keeps it.
LEMMA RegisterAddressesKeeps ==
  ASSUME IInv, RegisterAddresses
  PROVE  IInv'
<1>1. CASE Refuse
  BY <1>1, RefuseKeeps DEF RegisterAddresses
<1>2. CASE ~Refuse
  <2>1. /\ Advance("accepted") /\ fixed' = fixed /\ resources' = resources
        /\ phase = "addresses" /\ at \in Indices /\ fixed = Bound
    BY <1>2 DEF RegisterAddresses, IInv, Cursor, Walked
  <2>2. /\ at' \in Indices
        /\ at < Len(resources) => phase' = phase
        /\ ~(at < Len(resources)) => phase' = "accepted"
    BY <2>1, AdvanceKeepsCursor
  <2>3. NoneShared'
    BY <2>1 DEF IInv, NoneShared, SameSocket, HostIpOverlaps
  <2>4. QED
    BY <2>1, <2>2, <2>3, AuthoredStays DEF IInv, Cursor, Walked
<1>3. QED
  BY <1>1, <1>2

\* Every step keeps it.
LEMMA NextKeeps ==
  ASSUME IInv, [Next]_vars
  PROVE  IInv'
<1>1. CASE Next
  BY <1>1, OpenKeeps, RegisterIdentityKeeps, CheckResourceKeeps, RegisterAddressesKeeps DEF Next
<1>2. CASE UNCHANGED vars
  <2>1. /\ resources' = resources /\ phase' = phase /\ at' = at /\ fixed' = fixed
    BY <1>2 DEF vars
  <2>2. NoneShared'
    BY <2>1 DEF IInv, NoneShared, SameSocket, HostIpOverlaps
  <2>3. Before(at)' = Before(at)
    BY <2>1, AuthoredStays DEF Before
  <2>4. QED
    BY <2>1, <2>2, <2>3, AuthoredStays DEF IInv, Cursor, Walked
<1>3. QED
  BY <1>1, <1>2

\* Once the walks are over the list is of all bindings, so none of them share.
LEMMA IInvGivesSockets == IInv => SocketsDisjoint
<1>1. SUFFICES ASSUME IInv, phase = "accepted", NEW f \in Bound, NEW g \in Bound,
                      f # g, f.protocol = g.protocol, f.host_port = g.host_port
               PROVE  Listens(f.host_ip) \cap Listens(g.host_ip) = {}
  BY DEF SocketsDisjoint
<1>2. ~SameSocket(f, g)
  BY <1>1 DEF IInv, Walked, NoneShared
<1>3. ~HostIpOverlaps(f.host_ip, g.host_ip)
  BY <1>1, <1>2 DEF SameSocket
<1>4. QED
  BY <1>3, OverlapSound

\* TargetIntent accepts no two bindings, of one container or of two, that would
\* hold one host socket: through wildcard addresses, repeated ports and any
\* number of resources.
THEOREM AcceptedSocketsAreDisjoint == Spec => []SocketsDisjoint
<1>1. Init => IInv
  BY InitIInv
<1>2. IInv /\ [Next]_vars => IInv'
  BY NextKeeps
<1>3. IInv => SocketsDisjoint
  BY IInvGivesSockets
<1>4. QED
  BY <1>1, <1>2, <1>3, PTL DEF Spec

(***************************************************************************)
(* Induction over the naturals, from the well-foundedness of finite sets.  *)
(***************************************************************************)

\* A set of naturals has a least element.
LEMMA LeastElement ==
  ASSUME NEW T \in SUBSET Nat, T # {}
  PROVE  \E x \in T : \A y \in T : x <= y
<1>1. PICK n \in T : TRUE
  OBVIOUS
<1>2. IsFiniteSet(0 .. n)
  BY <1>1, FS_Interval
<1> DEFINE F == {0 .. m : m \in {k \in T : k <= n}}
<1>3. F \subseteq SUBSET (0 .. n) /\ F # {}
  BY <1>1
<1>4. PICK s \in F : \A t \in F : ~ (<<t, s>> \in StrictSubsetOrdering(0 .. n))
  <2>1. IsWellFoundedOn(StrictSubsetOrdering(0 .. n), SUBSET (0 .. n))
    BY <1>2, FS_StrictSubsetOrderingWellFounded, FS_FiniteSubsetsOfFinite
  <2>. QED BY <1>3, <2>1, WFMin
<1>5. PICK x \in T : x <= n /\ s = 0 .. x
  BY <1>4
<1>6. ASSUME NEW y \in T, y < x PROVE FALSE
  <2>1. 0 .. y \in F /\ 0 .. y \subseteq 0 .. x /\ 0 .. y # 0 .. x
    BY <1>5, <1>6
  <2>2. <<0 .. y, 0 .. x>> \in StrictSubsetOrdering(0 .. n)
    BY <1>3, <1>5, <2>1 DEF StrictSubsetOrdering
  <2>. QED BY <1>4, <1>5, <2>1, <2>2
<1>. QED BY <1>5, <1>6

\* A set that has zero and every successor of what it has, has every natural.
LEMMA Induction ==
  ASSUME NEW T, 0 \in T, \A n \in Nat : n \in T => n + 1 \in T
  PROVE  \A n \in Nat : n \in T
<1>1. SUFFICES ASSUME Nat \ T # {} PROVE FALSE
  OBVIOUS
<1>2. PICK x \in Nat \ T : \A y \in Nat \ T : x <= y
  BY <1>1, LeastElement
<1>3. x - 1 \in Nat /\ x - 1 \notin Nat \ T
  BY <1>2
<1>. QED BY <1>2, <1>3

(***************************************************************************)
(* The sizes of blocks.  2^n counts the subsets of a set of n elements,    *)
(* and a further element doubles them.                                     *)
(***************************************************************************)

\* There are 2^n subsets of n elements.
LEMMA Subsets ==
  ASSUME NEW n \in Nat
  PROVE  /\ IsFiniteSet(SUBSET (1 .. n)) /\ Cardinality(SUBSET (1 .. n)) = 2 ^ n
         /\ 2 ^ n \in Nat \ {0}
<1>1. IsFiniteSet(1 .. n) /\ Cardinality(1 .. n) = n
  BY FS_Interval
<1>2. IsFiniteSet(SUBSET (1 .. n)) /\ Cardinality(SUBSET (1 .. n)) = 2 ^ n
  BY <1>1, FS_SUBSET
<1>3. SUBSET (1 .. n) # {}
  OBVIOUS
<1>4. Cardinality(SUBSET (1 .. n)) \in Nat /\ Cardinality(SUBSET (1 .. n)) # 0
  BY <1>2, <1>3, FS_CardinalityType, FS_EmptySet
<1>. QED BY <1>2, <1>4

\* One more bit makes a block twice as large.
LEMMA Doubling ==
  ASSUME NEW n \in Nat
  PROVE  2 ^ (n + 1) = 2 ^ n + 2 ^ n
<1> DEFINE without == SUBSET (1 .. n)
           with == {x \cup {n + 1} : x \in without}
           f == [x \in without |-> x \cup {n + 1}]
<1>1. 1 .. n + 1 = (1 .. n) \cup {n + 1} /\ n + 1 \notin 1 .. n
  OBVIOUS
<1>2. SUBSET (1 .. n + 1) = without \cup with
  <2>1. ASSUME NEW s \in SUBSET (1 .. n + 1), n + 1 \in s PROVE s \in with
    <3>1. s \ {n + 1} \in without /\ s = (s \ {n + 1}) \cup {n + 1}
      BY <1>1, <2>1
    <3>. QED BY <3>1
  <2>2. ASSUME NEW s \in SUBSET (1 .. n + 1), n + 1 \notin s PROVE s \in without
    BY <1>1, <2>2
  <2>3. without \subseteq SUBSET (1 .. n + 1) /\ with \subseteq SUBSET (1 .. n + 1)
    BY <1>1
  <2>. QED BY <2>1, <2>2, <2>3
<1>3. without \cap with = {}
  BY <1>1
<1>4. f \in Bijection(without, with)
  <2>1. f \in [without -> with]
    OBVIOUS
  <2>2. \A x, y \in without : f[x] = f[y] => x = y
    BY <1>1
  <2>3. \A t \in with : \E x \in without : f[x] = t
    OBVIOUS
  <2> HIDE DEF f, with, without
  <2>. QED BY <2>1, <2>2, <2>3 DEF Bijection, Injection, Surjection, IsInjective
<1>5. IsFiniteSet(without) /\ Cardinality(without) = 2 ^ n /\ 2 ^ n \in Nat
  BY Subsets
<1>6. Cardinality(SUBSET (1 .. n + 1)) = 2 ^ (n + 1)
  BY Subsets
<1> HIDE DEF without, with, f
<1>7. IsFiniteSet(with) /\ Cardinality(with) = 2 ^ n
  BY <1>4, <1>5, FS_Bijection DEF ExistsBijection
<1>8. Cardinality(without \cup with) = Cardinality(without) + Cardinality(with) - Cardinality({})
  BY <1>3, <1>5, <1>7, FS_Union
<1>9. Cardinality({}) = 0
  BY FS_EmptySet
<1>10. 2 ^ (n + 1) = 2 ^ n + 2 ^ n - 0
  BY <1>2, <1>5, <1>6, <1>7, <1>8, <1>9, Zenon
<1>. QED BY <1>5, <1>10

\* The smallest blocks.
LEMMA SmallBlocks == 2 ^ 0 = 1 /\ 2 ^ 1 = 2
  OBVIOUS

\* A larger block is made of smaller ones.
LEMMA SmallerDivides ==
  ASSUME NEW m \in Nat, NEW n \in Nat, m <= n
  PROVE  \E k \in Nat \ {0} : 2 ^ n = k * 2 ^ m
<1> DEFINE Divides(e) == \E k \in Nat \ {0} : 2 ^ e = k * 2 ^ m
           T == {d \in Nat : \A e \in Nat : e = m + d => Divides(e)}
<1>1. 0 \in T
  <2>1. 2 ^ m \in Nat
    BY Subsets
  <2>2. 2 ^ m = 1 * 2 ^ m
    BY <2>1
  <2>3. Divides(m)
    BY <2>2
  <2> HIDE DEF Divides
  <2>. QED BY <2>3
<1>2. ASSUME NEW d \in Nat, d \in T PROVE d + 1 \in T
  <2>. SUFFICES ASSUME NEW e \in Nat, e = m + d PROVE Divides(e + 1)
    <3> HIDE DEF Divides
    <3>1. \A e \in Nat : e = m + (d + 1) => e - 1 \in Nat /\ e - 1 = m + d /\ (e - 1) + 1 = e
      OBVIOUS
    <3>. QED BY <3>1
  <2>1. PICK k \in Nat \ {0} : 2 ^ e = k * 2 ^ m
    BY <1>2
  <2>2. 2 ^ (e + 1) = 2 ^ e + 2 ^ e
    BY Doubling
  <2>3. 2 ^ m \in Nat
    BY Subsets
  <2>4. k + k \in Nat \ {0} /\ k * 2 ^ m + k * 2 ^ m = (k + k) * 2 ^ m
    BY <2>3
  <2>. QED BY <2>1, <2>2, <2>4
<1> HIDE DEF T
<1>3. n - m \in T /\ n = m + (n - m)
  BY <1>1, <1>2, Induction
<1>. QED BY <1>3 DEF T

\* A block of two bits or more has more than two addresses.
LEMMA LargeBlocks ==
  ASSUME NEW n \in Nat, n >= 2
  PROVE  2 ^ n > 2
<1>1. 2 ^ 2 = 4
  OBVIOUS
<1>2. PICK k \in Nat \ {0} : 2 ^ n = k * 2 ^ 2
  BY SmallerDivides
<1>. QED BY <1>1, <1>2

(***************************************************************************)
(* Multiples of a block's size.                                            *)
(***************************************************************************)

\* Clearing the low bits of a number leaves a multiple.
LEMMA Quotient ==
  ASSUME NEW a \in Nat, NEW z \in Nat \ {0}
  PROVE  /\ a = z * (a \div z) + (a % z) /\ a \div z \in Nat /\ a % z \in 0 .. z - 1
<1>1. a = z * (a \div z) + (a % z)
  BY Z3
<1>2. a \div z \in Int
  BY Z3
<1>3. a % z \in 0 .. z - 1
  OBVIOUS
<1>4. a \div z >= 0
  <2> DEFINE q == a \div z
             r == a % z
  <2>1. q \in Int /\ r \in 0 .. z - 1 /\ a = z * q + r
    BY <1>1, <1>2, <1>3
  <2> HIDE DEF q, r
  <2>2. ASSUME q <= -1 PROVE FALSE
    <3>1. z * q <= z * (-1)
      BY <2>1, <2>2
    <3>. QED BY <2>1, <3>1
  <2>3. q >= 0
    BY <2>1, <2>2
  <2>. QED BY <2>3 DEF q
<1>. QED BY <1>1, <1>2, <1>3, <1>4

\* A number between two multiples is a multiple and its remainder.
LEMMA Remainder ==
  ASSUME NEW q \in Nat, NEW r \in Nat, NEW z \in Nat \ {0}, r < z, NEW a \in Nat, a = q * z + r
  PROVE  a % z = r
BY SMTT(30)

\* Multiples in order are a whole step apart.
LEMMA Steps ==
  ASSUME NEW q \in Nat, NEW p \in Nat, NEW z \in Nat \ {0}, q * z < p * z
  PROVE  q * z + z <= p * z
<1>1. q < p
  OBVIOUS
<1>. QED BY <1>1
(***************************************************************************)
(* Subnets as blocks.                                                      *)
(***************************************************************************)
Shift(subnet) == Bits[subnet.address.family] - subnet.prefix
Size(subnet) == 2 ^ Shift(subnet)

\* A subnet is a block whose base is a multiple of its size.
LEMMA SubnetIsBlock ==
  ASSUME NEW s \in Subnets
  PROVE  /\ s.address \in Addresses /\ s.address.family \in Families
         /\ Shift(s) \in Nat /\ Size(s) \in Nat \ {0}
         /\ s.address.value \in Nat /\ s.prefix \in Nat
         /\ \E q \in Nat : s.address.value = q * Size(s)
         /\ Shift(s) >= Bits[s.address.family] => s.address.value = 0 /\ Shift(s) = Bits[s.address.family]
         /\ Block(s) = s.address.value .. s.address.value + Size(s) - 1
<1>1. /\ s.address \in Addresses /\ s.prefix \in Nat /\ s.prefix <= Bits[s.address.family]
      /\ AddressIsNetwork(s.address, s.prefix)
  BY BitsAssumption DEF Subnets
<1>2. s.address.family \in Families /\ s.address.value \in Space(s.address.family)
  BY <1>1 DEF Addresses
<1>3. Bits[s.address.family] \in Nat \ {0}
  BY <1>2, BitsAssumption DEF Families
<1>4. Shift(s) \in Nat
  BY <1>1, <1>3 DEF Shift
<1>5. Size(s) \in Nat \ {0}
  BY <1>4, Subsets DEF Size
<1>6. s.address.value \in Nat
  <2>1. 2 ^ Bits[s.address.family] \in Nat
    BY <1>3, Subsets
  <2>. QED BY <1>2, <2>1 DEF Space
<1>7. CASE Shift(s) >= Bits[s.address.family]
  <2>1. s.address.value = 0
    BY <1>1, <1>7 DEF AddressIsNetwork, Masked, Shift
  <2>2. Shift(s) = Bits[s.address.family]
    BY <1>1, <1>3, <1>7 DEF Shift
  <2>3. s.address.value = 0 * Size(s)
    BY <1>5, <2>1
  <2>. QED BY <1>1, <1>2, <1>4, <1>5, <1>6, <2>1, <2>2, <2>3 DEF Block, Size, Shift
<1>8. CASE ~(Shift(s) >= Bits[s.address.family])
  <2>1. s.address.value - (s.address.value % Size(s)) = s.address.value
    BY <1>1, <1>8 DEF AddressIsNetwork, Masked, Shift, Size
  <2>2. PICK q \in Nat : s.address.value = Size(s) * q + (s.address.value % Size(s))
    BY <1>5, <1>6, Quotient
  <2>3. s.address.value % Size(s) \in 0 .. Size(s) - 1
    BY <1>5, <1>6, Quotient
  <2>4. s.address.value = q * Size(s)
    BY <1>5, <1>6, <2>1, <2>2, <2>3
  <2>. QED BY <1>1, <1>2, <1>4, <1>5, <1>6, <1>8, <2>4 DEF Block, Size, Shift
<1>. QED BY <1>7, <1>8

\* contains finds exactly the addresses of the block.
LEMMA ContainsIsMember ==
  ASSUME NEW s \in Subnets, NEW x \in Addresses
  PROVE  Contains(s, x) <=> x \in Members(s)
<1> DEFINE base == s.address.value
           z == Size(s)
           f == s.address.family
<1>1. /\ base \in Nat /\ z \in Nat \ {0} /\ f \in Families
      /\ Block(s) = base .. base + z - 1
      /\ Shift(s) >= Bits[f] => base = 0 /\ Shift(s) = Bits[f]
  BY SubnetIsBlock
<1>2. PICK q \in Nat : base = q * z
  BY SubnetIsBlock
<1>3. PICK g \in Families : \E v \in Space(g) : x = [family |-> g, value |-> v]
  BY DEF Addresses
<1>4. PICK v \in Space(g) : x = [family |-> g, value |-> v]
  BY <1>3
<1>5. v \in Nat /\ v <= 2 ^ Bits[g] - 1
  <2>1. 2 ^ Bits[g] \in Nat
    BY BitsAssumption, Subsets DEF Families
  <2>. QED BY <1>4, <2>1 DEF Space
<1>6. x \in Members(s) <=> f = g /\ v \in Block(s)
  BY <1>4 DEF Members
<1>7. CASE f # g
  BY <1>4, <1>6, <1>7 DEF Contains
<1>8. CASE f = g /\ Shift(s) >= Bits[f]
  <2>1. Contains(s, x)
    BY <1>4, <1>8 DEF Contains, Masked, Shift
  <2>2. v \in Block(s)
    BY <1>1, <1>5, <1>8 DEF Size
  <2>. QED BY <1>6, <1>8, <2>1, <2>2
<1>9. CASE f = g /\ ~(Shift(s) >= Bits[f])
  <2>1. Contains(s, x) <=> base - (base % z) = v - (v % z)
    BY <1>4, <1>9 DEF Contains, Masked, Shift, Size
  <2>2. base % z = 0
    <3>1. base = q * z + 0 /\ 0 < z
      BY <1>1, <1>2
    <3> HIDE DEF base, z
    <3>. QED BY <1>1, <3>1, Remainder
  <2>3. v % z \in 0 .. z - 1
    BY <1>1, <1>5, Quotient
  <2> HIDE DEF base, z, f
  <2>4. ASSUME Contains(s, x) PROVE v \in base .. base + z - 1
    BY <1>1, <1>5, <2>1, <2>2, <2>3, <2>4
  <2>5. ASSUME v \in base .. base + z - 1 PROVE Contains(s, x)
    <3>1. PICK r \in Nat : r = v - base
      BY <1>1, <1>5, <2>5
    <3>2. v \in Nat /\ z \in Nat \ {0} /\ r < z /\ v = q * z + r
      BY <1>1, <1>2, <1>5, <2>5, <3>1
    <3>3. v % z = r
      BY <3>2, Remainder
    <3>. QED BY <1>1, <1>5, <2>1, <2>2, <3>1, <3>3
  <2>. QED BY <1>1, <1>6, <1>9, <2>4, <2>5
<1>. QED BY <1>7, <1>8, <1>9

\* Of two blocks that meet, one begins inside the other.
LEMMA BlocksNest ==
  ASSUME NEW l \in Subnets, NEW r \in Subnets, l.address.family = r.address.family,
         Shift(r) <= Shift(l), NEW v \in Block(l) \cap Block(r)
  PROVE  /\ r.address.value \in Block(l)
         /\ Block(r) \subseteq Block(l)
<1> DEFINE a == l.address.value
           b == r.address.value
           y == Size(l)
           z == Size(r)
<1>1. /\ a \in Nat /\ y \in Nat \ {0} /\ Block(l) = a .. a + y - 1 /\ Shift(l) \in Nat
      /\ b \in Nat /\ z \in Nat \ {0} /\ Block(r) = b .. b + z - 1 /\ Shift(r) \in Nat
  BY SubnetIsBlock
<1>2. PICK p \in Nat : a = p * y
  BY SubnetIsBlock
<1>3. PICK q \in Nat : b = q * z
  BY SubnetIsBlock
<1>4. PICK k \in Nat \ {0} : y = k * z
  BY <1>1, SmallerDivides DEF Size
<1> HIDE DEF a, b, y, z
<1>5. v \in Nat /\ a <= v /\ v < a + y /\ b <= v /\ v < b + z
  BY <1>1
<1>6. p * k \in Nat /\ (p + 1) * k \in Nat /\ a = (p * k) * z /\ a + y = ((p + 1) * k) * z
  BY <1>1, <1>2, <1>4
<1>7. a <= b
  <2>1. ASSUME b < a PROVE FALSE
    <3>1. q * z < (p * k) * z
      BY <1>3, <1>6, <2>1
    <3>2. q * z + z <= (p * k) * z
      BY <1>1, <1>6, <3>1, Steps
    <3>. QED BY <1>1, <1>3, <1>5, <1>6, <3>2
  <2>. QED BY <1>1, <2>1
<1>8. b + z <= a + y
  <2>1. q * z < ((p + 1) * k) * z
    BY <1>1, <1>3, <1>5, <1>6
  <2>. QED BY <1>1, <1>3, <1>6, <2>1, Steps
<1>. QED BY <1>1, <1>7, <1>8 DEF b

\* overlaps misses no address that two subnets share.
LEMMA ApartUnlessOverlapping ==
  ASSUME NEW l \in Subnets, NEW r \in Subnets, ~Overlaps(l, r)
  PROVE  Members(l) \cap Members(r) = {}
<1>1. ASSUME NEW s \in Subnets, NEW t \in Subnets, s.address.family = t.address.family,
             Shift(t) <= Shift(s), NEW v \in Block(s) \cap Block(t)
      PROVE  Contains(s, t.address)
  <2>1. t.address.value \in Block(s)
    BY <1>1, BlocksNest
  <2>2. t.address \in Addresses
    BY SubnetIsBlock
  <2>3. t.address = [family |-> t.address.family, value |-> t.address.value]
    BY <2>2 DEF Addresses
  <2>4. t.address \in Members(s)
    BY <1>1, <2>1, <2>3 DEF Members
  <2>. QED BY <2>2, <2>4, ContainsIsMember
<1>2. SUFFICES ASSUME NEW m \in Members(l) \cap Members(r) PROVE FALSE
  OBVIOUS
<1>3. l.address.family = r.address.family /\ m.value \in Block(l) \cap Block(r)
  BY <1>2 DEF Members
<1>4. Shift(l) \in Nat /\ Shift(r) \in Nat
  BY SubnetIsBlock
<1>5. Shift(l) <= Shift(r) \/ Shift(r) <= Shift(l)
  BY <1>4
<1>. QED BY <1>1, <1>3, <1>5 DEF Overlaps

\* A range at least as narrow, whose base the subnet contains, is part of it.
LEMMA RangeIsPart ==
  ASSUME NEW s \in Subnets, NEW t \in Subnets, s.prefix <= t.prefix, Contains(s, t.address)
  PROVE  Members(t) \subseteq Members(s)
<1>1. t.address \in Members(s)
  BY SubnetIsBlock, ContainsIsMember
<1>2. t.address.family = s.address.family /\ t.address.value \in Block(s)
  BY <1>1 DEF Members
<1>3. t.address.value \in Block(t)
  BY SubnetIsBlock
<1>4. Shift(t) <= Shift(s)
  <2>1. Bits[s.address.family] \in Nat /\ s.prefix \in Nat /\ t.prefix \in Nat
    BY SubnetIsBlock, BitsAssumption DEF Families
  <2>. QED BY <1>2, <2>1 DEF Shift
<1>5. Block(t) \subseteq Block(s)
  BY <1>2, <1>3, <1>4, BlocksNest
<1>. QED BY <1>2, <1>5 DEF Members

\* What contains_usable_host admits is for hosts.
LEMMA UsableIsHost ==
  ASSUME NEW s \in Subnets, NEW x \in Addresses, ContainsUsableHost(s, x)
  PROVE  x \in Hosts(s)
<1> DEFINE base == s.address.value
           z == Size(s)
<1>1. x \in Members(s) /\ x.family = s.address.family /\ x.value \in Block(s)
  BY ContainsIsMember DEF ContainsUsableHost, Members
<1>2. /\ base \in Nat /\ z \in Nat \ {0} /\ Block(s) = base .. base + z - 1
      /\ s.address.family \in Families /\ Shift(s) \in Nat /\ s.prefix \in Nat
  BY SubnetIsBlock
<1>3. CASE s.address.family = "v6"
  <2>1. x.value # base
    BY <1>1, <1>3 DEF ContainsUsableHost, IsIpv6
  <2>2. x.value - 1 \in Block(s)
    BY <1>1, <1>2, <2>1
  <2>. QED BY <1>1, <1>3, <2>2 DEF Hosts
<1>4. CASE s.address.family = "v4" /\ s.prefix <= Bits["v4"] - 2
  <2>1. x.value # base /\ x.value # base + z - 1
    BY <1>1, <1>4 DEF ContainsUsableHost, IsIpv6, Broadcast, Size, Shift
  <2>2. x.value - 1 \in Block(s) /\ x.value + 1 \in Block(s)
    BY <1>1, <1>2, <2>1
  <2>. QED BY <1>1, <1>4, <2>2 DEF Hosts
<1>5. CASE s.address.family = "v4" /\ ~(s.prefix <= Bits["v4"] - 2)
  <2>1. Shift(s) \in {0, 1}
    BY <1>2, <1>5, BitsAssumption DEF Shift
  <2>2. z = 1 \/ z = 2
    <3>1. CASE Shift(s) = 0
      BY <3>1, SmallBlocks, Zenon DEF Size
    <3>2. CASE Shift(s) = 1
      BY <3>2, SmallBlocks, Zenon DEF Size
    <3>. QED BY <2>1, <3>1, <3>2
  <2>3. \A v, w \in Block(s) : v - w <= 1
    <3> HIDE DEF z, base
    <3>. QED BY <1>2, <2>2
  <2>. QED BY <1>1, <1>5, <2>3 DEF Hosts
<1>6. s.address.family \in {"v4", "v6"}
  BY <1>2 DEF Families
<1>. QED BY <1>3, <1>4, <1>5, <1>6
(***************************************************************************)
(* Addresses.  What the third walk remembers grows as the list of bindings *)
(* does, and every resource the second walk has passed was let through.    *)
(***************************************************************************)

\* The addresses claimed by the resources before the i-th, and by all.
ClaimedBefore(i) == UNION {StaticsIn(j) : j \in 1 .. i - 1}
Claimed == UNION {StaticsIn(i) : i \in Indices}

\* Resource i was let through as far as addresses go.
Passed(i) ==
  /\ resources[i].kind = "network" => ~NetworkRefused(resources[i])
  /\ resources[i].kind = "container" => ~AttachmentsRefused(resources[i].networks)

Registered ==
  /\ phase \in {"open", "identities", "settings"} => statics = {}
  /\ phase = "addresses" => statics = ClaimedBefore(at)
  /\ phase = "accepted" => statics = Claimed

LetThrough ==
  /\ phase = "settings" => \A i \in 1 .. at - 1 : Passed(i)
  /\ phase \in {"addresses", "accepted"} => \A i \in Indices : Passed(i)

NoneDoubled == \A f, g \in statics : f # g => ~SameAddress(f, g)

\* What every step keeps about addresses.
AddressInv ==
  /\ \A i \in Indices : Typed(resources[i])
  /\ Registered
  /\ LetThrough
  /\ NoneDoubled

\* The walk changes nothing of what the resources claim and hold.
LEMMA ClaimsStay ==
  ASSUME resources' = resources
  PROVE  /\ \A i : StaticsIn(i)' = StaticsIn(i) /\ Passed(i)' = Passed(i)
         /\ Claimed' = Claimed /\ Indices' = Indices
<1>1. \A i : StaticsIn(i)' = StaticsIn(i)
  BY DEF StaticsIn
<1>2. \A i : Passed(i)' = Passed(i)
  BY DEF Passed, AttachmentsRefused, AddressesRefused
<1>3. Indices' = Indices
  BY DEF Indices
<1>4. Claimed' = Claimed
  BY <1>1, <1>3 DEF Claimed
<1>. QED BY <1>1, <1>2, <1>3, <1>4

\* Two claims on an address are two whichever is looked at first.
LEMMA SameAddressSymmetric ==
  ASSUME NEW f, NEW g, SameAddress(f, g)
  PROVE  SameAddress(g, f)
BY DEF SameAddress

\* At first no address is claimed.
LEMMA InitAddresses == Init => AddressInv
<1>. SUFFICES ASSUME Init PROVE AddressInv
  OBVIOUS
<1>1. resources \in Seq(Range(resources)) /\ \A r \in Range(resources) : Typed(r)
  BY AuthoredAssumption DEF Init
<1>2. \A i \in Indices : resources[i] \in Range(resources)
  BY DEF Indices, Range
<1>. QED BY <1>1, <1>2 DEF Init, AddressInv, Registered, LetThrough, NoneDoubled

\* A step that claims nothing and lets nothing through changes nothing of it.
LEMMA CalmAddresses ==
  ASSUME AddressInv, resources' = resources, statics' = statics
  PROVE  NoneDoubled' /\ \A i \in Indices' : Typed(resources[i])'
<1>1. Indices' = Indices
  BY ClaimsStay
<1>. QED BY <1>1 DEF AddressInv, NoneDoubled, SameAddress

\* A refusal keeps what is known of addresses.
LEMMA RefuseAddresses ==
  ASSUME IInv, AddressInv, Refuse, resources' = resources
  PROVE  AddressInv'
<1>1. phase' = "refused" /\ statics' = statics
  BY DEF Refuse, Memory
<1>. QED BY <1>1, CalmAddresses DEF AddressInv, Registered, LetThrough

\* So does opening the intent.
LEMMA OpenAddresses ==
  ASSUME IInv, AddressInv, Open
  PROVE  AddressInv'
<1>1. CASE Refuse
  BY <1>1, RefuseAddresses DEF Open
<1>2. CASE ~Refuse
  <2>1. phase = "open" /\ phase' = "identities" /\ statics' = statics /\ resources' = resources
    BY <1>2 DEF Open, Memory
  <2>. QED BY <2>1, CalmAddresses DEF AddressInv, Registered, LetThrough
<1>. QED BY <1>1, <1>2

\* The first walk neither claims nor checks an address.
LEMMA IdentityAddresses ==
  ASSUME IInv, AddressInv, RegisterIdentity
  PROVE  AddressInv'
<1>1. CASE Refuse
  BY <1>1, RefuseAddresses DEF RegisterIdentity
<1>2. CASE ~Refuse
  <2>1. /\ Advance("settings") /\ statics' = statics /\ resources' = resources
        /\ phase = "identities" /\ at \in Indices
    BY <1>2 DEF RegisterIdentity, IInv, Cursor
  <2>2. \/ phase' = "identities"
        \/ phase' = "settings" /\ at' = 1
    BY <2>1, AdvanceKeepsCursor
  <2>3. 1 .. 1 - 1 = {}
    OBVIOUS
  <2>4. phase' = "settings" => \A i \in 1 .. at' - 1 : Passed(i)'
    BY <2>2, <2>3
  <2>. QED BY <2>1, <2>2, <2>4, CalmAddresses DEF AddressInv, Registered, LetThrough
<1>. QED BY <1>1, <1>2

\* The second walk lets one more resource through.
LEMMA SettingsAddresses ==
  ASSUME IInv, AddressInv, CheckResource
  PROVE  AddressInv'
<1>1. CASE Refuse
  BY <1>1, RefuseAddresses DEF CheckResource
<1>2. CASE ~Refuse
  <2>1. /\ Advance("addresses") /\ statics' = statics /\ resources' = resources
        /\ phase = "settings" /\ at \in Indices /\ statics = {}
        /\ \A i \in 1 .. at - 1 : Passed(i)
    BY <1>2 DEF CheckResource, IInv, Cursor, AddressInv, Registered, LetThrough
  <2>2. Passed(at)
    BY <1>2, <2>1 DEF CheckResource, Passed, ContainerRefused
  <2>3. at \in Nat \ {0} /\ Indices = 1 .. Len(resources) /\ Len(resources) \in Nat
    BY <2>1 DEF IInv, Indices
  <2>4. \A i \in 1 .. at : Passed(i)'
    <3>1. 1 .. at = (1 .. at - 1) \cup {at}
      BY <2>3
    <3>2. \A i \in 1 .. at : Passed(i)
      BY <2>1, <2>2, <3>1
    <3>. QED BY <2>1, <3>2, ClaimsStay
  <2>5. /\ at < Len(resources) => at' = at + 1 /\ phase' = phase
        /\ ~(at < Len(resources)) => at = Len(resources) /\ at' = 1 /\ phase' = "addresses"
    BY <2>1, AdvanceKeepsCursor
  <2>6. CASE at < Len(resources)
    <3>1. phase' = "settings" /\ 1 .. at' - 1 = 1 .. at
      BY <2>1, <2>3, <2>5, <2>6
    <3>. QED BY <2>1, <2>4, <3>1, CalmAddresses DEF AddressInv, Registered, LetThrough
  <2>7. CASE ~(at < Len(resources))
    <3>1. phase' = "addresses" /\ at' = 1 /\ Indices' = 1 .. at
      BY <2>1, <2>3, <2>5, <2>7, ClaimsStay
    <3>2. ClaimedBefore(1)' = {}
      <4>1. 1 .. 1 - 1 = {}
        OBVIOUS
      <4>. QED BY <4>1 DEF ClaimedBefore
    <3>. QED BY <2>1, <2>4, <3>1, <3>2, CalmAddresses DEF AddressInv, Registered, LetThrough
  <2>. QED BY <2>6, <2>7
<1>. QED BY <1>1, <1>2

\* The third walk claims what one more resource asks for, none of it twice.
LEMMA ClaimAddresses ==
  ASSUME IInv, AddressInv, RegisterAddresses
  PROVE  AddressInv'
<1>1. CASE Refuse
  BY <1>1, RefuseAddresses DEF RegisterAddresses
<1>2. CASE ~Refuse
  <2>1. /\ Advance("accepted") /\ statics' = statics \cup StaticsIn(at) /\ resources' = resources
        /\ phase = "addresses" /\ at \in Indices /\ statics = ClaimedBefore(at)
        /\ \A i \in Indices : Passed(i)
        /\ \A f \in StaticsIn(at), g \in StaticsIn(at) \cup statics : f # g => ~SameAddress(f, g)
    BY <1>2 DEF RegisterAddresses, IInv, Cursor, AddressInv, Registered, LetThrough
  <2>2. at \in Nat \ {0} /\ Indices = 1 .. Len(resources) /\ Len(resources) \in Nat
    BY <2>1 DEF IInv, Indices
  <2>3. statics' = ClaimedBefore(at + 1)
    <3>1. 1 .. (at + 1) - 1 = (1 .. at - 1) \cup {at}
      BY <2>2
    <3>. QED BY <2>1, <3>1 DEF ClaimedBefore
  <2>4. /\ at < Len(resources) => at' = at + 1 /\ phase' = phase
        /\ ~(at < Len(resources)) => at = Len(resources) /\ phase' = "accepted"
    BY <2>1, AdvanceKeepsCursor
  <2>5. Registered'
    <3>1. CASE at < Len(resources)
      BY <3>1, <2>1, <2>3, <2>4, ClaimsStay DEF Registered, ClaimedBefore
    <3>2. CASE ~(at < Len(resources))
      <4>1. 1 .. (at + 1) - 1 = Indices
        BY <3>2, <2>2, <2>4
      <4>2. ClaimedBefore(at + 1) = Claimed
        BY <4>1 DEF ClaimedBefore, Claimed
      <4>. QED BY <3>2, <4>2, <2>1, <2>3, <2>4, ClaimsStay DEF Registered
    <3>. QED BY <3>1, <3>2
  <2>6. \A f, g \in statics' : f # g => ~SameAddress(f, g)
    <3>. SUFFICES ASSUME NEW f \in statics \cup StaticsIn(at), NEW g \in statics \cup StaticsIn(at), f # g
                  PROVE  ~SameAddress(f, g)
      BY <2>1
    <3>1. CASE f \in StaticsIn(at)
      BY <2>1, <3>1
    <3>2. CASE g \in StaticsIn(at)
      BY <2>1, <3>2, SameAddressSymmetric
    <3>3. CASE f \in statics /\ g \in statics
      BY <3>3 DEF AddressInv, NoneDoubled
    <3>. QED BY <3>1, <3>2, <3>3
  <2>7. LetThrough'
    <3>1. phase' \in {"addresses", "accepted"}
      BY <2>1, <2>4
    <3>. QED BY <2>1, <3>1, ClaimsStay DEF LetThrough
  <2>8. \A i \in Indices' : Typed(resources[i])'
    BY <2>1, ClaimsStay DEF AddressInv
  <2>. QED BY <2>5, <2>6, <2>7, <2>8 DEF AddressInv, NoneDoubled, SameAddress
<1>. QED BY <1>1, <1>2

\* Every step keeps it.
LEMMA AddressStep == IInv /\ AddressInv /\ [Next]_vars => AddressInv'
<1>. SUFFICES ASSUME IInv, AddressInv, [Next]_vars PROVE AddressInv'
  OBVIOUS
<1>1. CASE Next
  BY <1>1, OpenAddresses, IdentityAddresses, SettingsAddresses, ClaimAddresses DEF Next
<1>2. CASE UNCHANGED vars
  <2>1. resources' = resources /\ phase' = phase /\ at' = at /\ statics' = statics
    BY <1>2 DEF vars, Memory
  <2>2. ClaimedBefore(at)' = ClaimedBefore(at)
    BY <2>1, ClaimsStay DEF ClaimedBefore
  <2>. QED BY <2>1, <2>2, CalmAddresses, ClaimsStay DEF AddressInv, Registered, LetThrough
<1>. QED BY <1>1, <1>2

(***************************************************************************)
(* One network that was let through.                                       *)
(***************************************************************************)

\* Its pools are apart, and what they name lies where it should.
LEMMA PoolsAreSound ==
  ASSUME NEW network, network.kind = "network", network.source = "create",
         Typed(network), ~NetworkRefused(network),
         NEW p \in DOMAIN network.pools
  PROVE  LET pool == network.pools[p] IN
         /\ pool.subnet \in Subnets /\ pool.gateway \in Addresses \cup {None}
         /\ \A q \in DOMAIN network.pools :
              q # p => Members(pool.subnet) \cap Members(network.pools[q].subnet) = {}
         /\ pool.gateway # None => pool.gateway \in Hosts(pool.subnet)
         /\ pool.ip_range.address # None => Members(pool.ip_range) \subseteq Members(pool.subnet)
         /\ \A a \in DOMAIN pool.auxiliary :
              /\ pool.auxiliary[a].address \in Hosts(pool.subnet)
              /\ pool.auxiliary[a].address # pool.gateway
              /\ \A b \in DOMAIN pool.auxiliary :
                   pool.auxiliary[a].address = pool.auxiliary[b].address => a = b
<1> DEFINE pools == network.pools
           pool == pools[p]
<1>1. \A q \in DOMAIN pools : pools[q] \in Range(pools) /\ ~PoolRefused(network, q)
  BY DEF NetworkRefused, Range
<1>2. /\ pools \in Seq(Range(pools))
      /\ \A q \in DOMAIN pools : pools[q].subnet \in Subnets
      /\ pool.gateway \in Addresses \cup {None}
      /\ pool.ip_range.address # None => pool.ip_range \in Subnets
      /\ \A a \in DOMAIN pool.auxiliary : pool.auxiliary[a].address \in Addresses
  BY <1>1 DEF Typed, Range
<1>3. DOMAIN pools = 1 .. Len(pools) /\ Len(pools) \in Nat
  BY <1>2
<1>4. ASSUME NEW q \in DOMAIN pools, NEW r \in DOMAIN pools, q < r
      PROVE  Members(pools[q].subnet) \cap Members(pools[r].subnet) = {}
  <2>1. q \in 1 .. r - 1
    BY <1>3, <1>4
  <2>2. ~Overlaps(pools[r].subnet, pools[q].subnet)
    BY <1>1, <2>1 DEF PoolRefused
  <2>3. Members(pools[r].subnet) \cap Members(pools[q].subnet) = {}
    BY <1>2, <2>2, ApartUnlessOverlapping
  <2>. QED BY <2>3
<1>5. ASSUME NEW q \in DOMAIN pools, q # p
      PROVE  Members(pool.subnet) \cap Members(pools[q].subnet) = {}
  <2>1. q < p \/ p < q
    BY <1>3, <1>5
  <2>. QED BY <1>4, <2>1
<1>6. ~PoolRefused(network, p)
  BY <1>1
<1>7. ASSUME pool.gateway # None PROVE pool.gateway \in Hosts(pool.subnet)
  <2>1. ContainsUsableHost(pool.subnet, pool.gateway)
    BY <1>6, <1>7 DEF PoolRefused
  <2>. QED BY <1>2, <1>7, <2>1, UsableIsHost
<1>8. ASSUME pool.ip_range.address # None
      PROVE  Members(pool.ip_range) \subseteq Members(pool.subnet)
  <2>1. Contains(pool.subnet, pool.ip_range.address) /\ ~(pool.ip_range.prefix < pool.subnet.prefix)
    BY <1>6, <1>8 DEF PoolRefused
  <2>2. pool.subnet.prefix \in Nat /\ pool.ip_range.prefix \in Nat
    BY <1>2, <1>8, SubnetIsBlock
  <2>3. pool.subnet.prefix <= pool.ip_range.prefix
    BY <2>1, <2>2
  <2>. QED BY <1>2, <1>8, <2>1, <2>3, RangeIsPart
<1>9. ASSUME NEW a \in DOMAIN pool.auxiliary
      PROVE  /\ pool.auxiliary[a].address \in Hosts(pool.subnet)
             /\ pool.auxiliary[a].address # pool.gateway
             /\ \A b \in DOMAIN pool.auxiliary :
                  pool.auxiliary[a].address = pool.auxiliary[b].address => a = b
  <2> DEFINE reserved == Field(pool.auxiliary, "address")
  <2>1. /\ DOMAIN reserved = DOMAIN pool.auxiliary
        /\ \A b \in DOMAIN pool.auxiliary : reserved[b] = pool.auxiliary[b].address
    BY DEF Field
  <2>2. /\ IsInjective(reserved)
        /\ \A x \in Range(reserved) : x # pool.gateway /\ ContainsUsableHost(pool.subnet, x)
    BY <1>6 DEF PoolRefused
  <2>3. reserved[a] \in Range(reserved)
    BY <2>1 DEF Range
  <2>4. pool.auxiliary[a].address # pool.gateway /\ ContainsUsableHost(pool.subnet, pool.auxiliary[a].address)
    BY <2>1, <2>2, <2>3
  <2>5. \A b \in DOMAIN pool.auxiliary : pool.auxiliary[a].address = pool.auxiliary[b].address => a = b
    BY <2>1, <2>2 DEF IsInjective
  <2>. QED BY <1>2, <2>4, <2>5, UsableIsHost
<1>. QED BY <1>2, <1>5, <1>7, <1>8, <1>9

\* An endpoint asks for an address that some pool leaves to it.
LEMMA EndpointIsOffered ==
  ASSUME IInv, AddressInv, phase = "accepted", NEW n \in Created,
         NEW s \in Claimed, s.network = resources[n].reference
  PROVE  \E p \in DOMAIN resources[n].pools :
           LET pool == resources[n].pools[p] IN
           /\ s.address \in Hosts(pool.subnet)
           /\ s.address # pool.gateway
           /\ \A a \in DOMAIN pool.auxiliary : s.address # pool.auxiliary[a].address
<1>1. PICK i \in Indices : s \in StaticsIn(i)
  BY DEF Claimed
<1>2. resources[i].kind = "container"
  BY <1>1 DEF StaticsIn
<1>3. PICK a \in DOMAIN resources[i].networks :
        /\ s.network = resources[i].networks[a].network
        /\ s.address \in Static(resources[i].networks[a])
  BY <1>1, <1>2 DEF StaticsIn
<1> DEFINE attachment == resources[i].networks[a]
<1>4. attachment \in Range(resources[i].networks)
  BY DEF Range
<1>5. ~AddressesRefused(attachment)
  <2>1. ~AttachmentsRefused(resources[i].networks)
    BY <1>2 DEF AddressInv, LetThrough, Passed
  <2>. QED BY <1>4, <2>1 DEF AttachmentsRefused
<1>6. /\ n \in Indices /\ resources[n] \in Range(resources)
      /\ resources[n].kind = "network" /\ resources[n].source = "create"
  BY DEF Created, Indices, Range
<1>7. PICK pool \in Range(resources[n].pools) : Offers(pool, s.address)
  BY <1>3, <1>5, <1>6 DEF AddressesRefused
<1>8. PICK p \in DOMAIN resources[n].pools : pool = resources[n].pools[p]
  BY DEF Range
<1>9. s.address \in Addresses
  <2>1. Typed(resources[i])
    BY DEF AddressInv
  <2>2. {attachment.ipv4, attachment.ipv6} \subseteq Addresses \cup {None}
    BY <1>2, <1>4, <2>1 DEF Typed
  <2>. QED BY <1>3, <2>2 DEF Static
<1>10. pool.subnet \in Subnets
  BY <1>6 DEF AddressInv, Typed
<1>11. s.address \in Hosts(pool.subnet) /\ s.address # pool.gateway
  BY <1>7, <1>9, <1>10, UsableIsHost DEF Offers
<1>12. ASSUME NEW b \in DOMAIN pool.auxiliary PROVE s.address # pool.auxiliary[b].address
  <2>1. pool.auxiliary[b].address \in Range(Field(pool.auxiliary, "address"))
    BY DEF Field, Range
  <2>. QED BY <1>7, <2>1 DEF Offers
<1>. QED BY <1>8, <1>11, <1>12

\* Who holds an address of network n in pool p, and as what.
GatewayOf(n, p, h) ==
  h.who = <<"gateway", p>> /\ h.address = resources[n].pools[p].gateway
AuxiliaryOf(n, p, h) ==
  \E a \in DOMAIN resources[n].pools[p].auxiliary :
    h.who = <<"auxiliary", p, a>> /\ h.address = resources[n].pools[p].auxiliary[a].address
EndpointOf(n, p, h) ==
  /\ \E s \in Claimed : /\ h.who = <<"endpoint", s.place>> /\ h.address = s.address
                        /\ s.network = resources[n].reference
                        /\ h = [who |-> <<"endpoint", s.place>>, address |-> s.address]
  /\ h.address # resources[n].pools[p].gateway
  /\ \A a \in DOMAIN resources[n].pools[p].auxiliary :
       h.address # resources[n].pools[p].auxiliary[a].address

\* Every holder has an address for hosts of some pool.
LEMMA HolderHasPool ==
  ASSUME IInv, AddressInv, phase = "accepted", NEW n \in Created,
         NEW h \in Holders(n), h.address # None
  PROVE  \E p \in DOMAIN resources[n].pools :
           /\ h.address \in Hosts(resources[n].pools[p].subnet)
           /\ GatewayOf(n, p, h) \/ AuxiliaryOf(n, p, h) \/ EndpointOf(n, p, h)
<1> DEFINE pools == resources[n].pools
<1>1. /\ resources[n].kind = "network" /\ resources[n].source = "create"
      /\ Typed(resources[n]) /\ ~NetworkRefused(resources[n])
  BY DEF Created, AddressInv, LetThrough, Passed
<1>2. CASE \E p \in DOMAIN pools : h = [who |-> <<"gateway", p>>, address |-> pools[p].gateway]
  <2>1. PICK p \in DOMAIN pools : h = [who |-> <<"gateway", p>>, address |-> pools[p].gateway]
    BY <1>2
  <2>2. pools[p].gateway \in Hosts(pools[p].subnet)
    BY <1>1, <2>1, PoolsAreSound
  <2>. QED BY <2>1, <2>2 DEF GatewayOf
<1>3. CASE \E p \in DOMAIN pools : \E a \in DOMAIN pools[p].auxiliary :
             h = [who |-> <<"auxiliary", p, a>>, address |-> pools[p].auxiliary[a].address]
  <2>1. PICK p \in DOMAIN pools : \E a \in DOMAIN pools[p].auxiliary :
             h = [who |-> <<"auxiliary", p, a>>, address |-> pools[p].auxiliary[a].address]
    BY <1>3
  <2>2. PICK a \in DOMAIN pools[p].auxiliary :
             h = [who |-> <<"auxiliary", p, a>>, address |-> pools[p].auxiliary[a].address]
    BY <2>1
  <2>3. pools[p].auxiliary[a].address \in Hosts(pools[p].subnet)
    BY <1>1, PoolsAreSound
  <2>. QED BY <2>2, <2>3 DEF AuxiliaryOf
<1>4. CASE \E s \in Claimed : /\ s.network = resources[n].reference
                              /\ h = [who |-> <<"endpoint", s.place>>, address |-> s.address]
  <2>1. PICK s \in Claimed : /\ s.network = resources[n].reference
                             /\ h = [who |-> <<"endpoint", s.place>>, address |-> s.address]
    BY <1>4
  <2>2. PICK p \in DOMAIN pools :
           /\ s.address \in Hosts(pools[p].subnet)
           /\ s.address # pools[p].gateway
           /\ \A a \in DOMAIN pools[p].auxiliary : s.address # pools[p].auxiliary[a].address
    BY <2>1, EndpointIsOffered
  <2>. QED BY <2>1, <2>2 DEF EndpointOf
<1>5. \/ \E p \in DOMAIN pools : h = [who |-> <<"gateway", p>>, address |-> pools[p].gateway]
      \/ \E p \in DOMAIN pools : \E a \in DOMAIN pools[p].auxiliary :
           h = [who |-> <<"auxiliary", p, a>>, address |-> pools[p].auxiliary[a].address]
      \/ \E s \in Claimed : /\ s.network = resources[n].reference
                            /\ h = [who |-> <<"endpoint", s.place>>, address |-> s.address]
  BY DEF Holders, Claimed
<1>. QED BY <1>2, <1>3, <1>4, <1>5

\* Once the walks are over, each address has one holder and one pool.
LEMMA AddressesAreHeldOnce == IInv /\ AddressInv => AddressesHeldOnce
<1>. SUFFICES ASSUME IInv, AddressInv, phase = "accepted", NEW n \in Created
              PROVE  LET pools == resources[n].pools
                         holders == {h \in Holders(n) : h.address # None}
                     IN /\ \A h, k \in holders : h.address = k.address => h = k
                        /\ \A h \in holders :
                             Cardinality({p \in DOMAIN pools : h.address \in Hosts(pools[p].subnet)}) = 1
                        /\ \A p, q \in DOMAIN pools :
                             p # q => Members(pools[p].subnet) \cap Members(pools[q].subnet) = {}
                        /\ \A p \in DOMAIN pools :
                             pools[p].ip_range.address # None =>
                               Members(pools[p].ip_range) \subseteq Members(pools[p].subnet)
  BY DEF AddressesHeldOnce
<1> DEFINE pools == resources[n].pools
           holders == {h \in Holders(n) : h.address # None}
<1>1. /\ resources[n].kind = "network" /\ resources[n].source = "create"
      /\ Typed(resources[n]) /\ ~NetworkRefused(resources[n])
  BY DEF Created, AddressInv, LetThrough, Passed
<1>2. ASSUME NEW p \in DOMAIN pools
      PROVE  /\ \A q \in DOMAIN pools : q # p => Members(pools[p].subnet) \cap Members(pools[q].subnet) = {}
             /\ pools[p].ip_range.address # None =>
                  Members(pools[p].ip_range) \subseteq Members(pools[p].subnet)
  BY <1>1, PoolsAreSound
<1>3. ASSUME NEW p \in DOMAIN pools, NEW q \in DOMAIN pools,
             NEW x, x \in Hosts(pools[p].subnet), x \in Hosts(pools[q].subnet)
      PROVE  p = q
  <2>1. x \in Members(pools[p].subnet) \cap Members(pools[q].subnet)
    BY <1>3 DEF Hosts
  <2>. QED BY <1>2, <2>1
<1>4. ASSUME NEW h \in holders
      PROVE  Cardinality({p \in DOMAIN pools : h.address \in Hosts(pools[p].subnet)}) = 1
  <2>1. PICK p \in DOMAIN pools : h.address \in Hosts(pools[p].subnet)
    BY HolderHasPool
  <2>2. {q \in DOMAIN pools : h.address \in Hosts(pools[q].subnet)} = {p}
    BY <1>3, <2>1
  <2>. QED BY <2>2, FS_Singleton
<1>5. ASSUME NEW h \in holders, NEW k \in holders, h.address = k.address
      PROVE  h = k
  <2>1. PICK p \in DOMAIN pools : /\ h.address \in Hosts(pools[p].subnet)
                                  /\ GatewayOf(n, p, h) \/ AuxiliaryOf(n, p, h) \/ EndpointOf(n, p, h)
    BY HolderHasPool
  <2>2. PICK q \in DOMAIN pools : /\ k.address \in Hosts(pools[q].subnet)
                                  /\ GatewayOf(n, q, k) \/ AuxiliaryOf(n, q, k) \/ EndpointOf(n, q, k)
    BY HolderHasPool
  <2>3. p = q
    BY <1>3, <1>5, <2>1, <2>2
  <2>4. /\ h = [who |-> h.who, address |-> h.address]
        /\ k = [who |-> k.who, address |-> k.address]
    BY DEF Holders
  <2>5. \A a \in DOMAIN pools[p].auxiliary :
          /\ pools[p].auxiliary[a].address # pools[p].gateway
          /\ \A b \in DOMAIN pools[p].auxiliary :
               pools[p].auxiliary[a].address = pools[p].auxiliary[b].address => a = b
    BY <1>1, PoolsAreSound
  <2>6. CASE GatewayOf(n, p, h) /\ GatewayOf(n, p, k)
    BY <2>4, <2>6 DEF GatewayOf
  <2>7. CASE AuxiliaryOf(n, p, h) /\ AuxiliaryOf(n, p, k)
    BY <1>5, <2>4, <2>5, <2>7 DEF AuxiliaryOf
  <2>8. CASE EndpointOf(n, p, h) /\ EndpointOf(n, p, k)
    <3>1. PICK s \in Claimed : /\ s.network = resources[n].reference
                               /\ h = [who |-> <<"endpoint", s.place>>, address |-> s.address]
      BY <2>8 DEF EndpointOf
    <3>2. PICK t \in Claimed : /\ t.network = resources[n].reference
                               /\ k = [who |-> <<"endpoint", t.place>>, address |-> t.address]
      BY <2>8 DEF EndpointOf
    <3>3. SameAddress(s, t)
      BY <1>5, <3>1, <3>2 DEF SameAddress
    <3>4. s = t
      BY <3>3 DEF AddressInv, Registered, NoneDoubled
    <3>. QED BY <3>1, <3>2, <3>4
  <2>9. ~(GatewayOf(n, p, h) /\ ~GatewayOf(n, p, k)) /\ ~(GatewayOf(n, p, k) /\ ~GatewayOf(n, p, h))
    BY <1>5, <2>1, <2>2, <2>3, <2>5 DEF GatewayOf, AuxiliaryOf, EndpointOf
  <2>10. ~(AuxiliaryOf(n, p, h) /\ EndpointOf(n, p, k)) /\ ~(AuxiliaryOf(n, p, k) /\ EndpointOf(n, p, h))
    BY <1>5 DEF AuxiliaryOf, EndpointOf
  <2>. QED BY <2>1, <2>2, <2>3, <2>6, <2>7, <2>8, <2>9, <2>10
<1>. QED BY <1>2, <1>4, <1>5

\* On every network an accepted intent creates, gateways, reserved addresses and
\* the addresses containers ask for are all different, and each is for hosts of
\* exactly one pool: for any widths, pools and number of containers.
THEOREM AddressesHaveOneHolder == Spec => []AddressesHeldOnce
<1>1. Init => IInv /\ AddressInv
  BY InitIInv, InitAddresses
<1>2. IInv /\ AddressInv /\ [Next]_vars => IInv' /\ AddressInv'
  BY NextKeeps, AddressStep
<1>3. IInv /\ AddressInv => AddressesHeldOnce
  BY AddressesAreHeldOnce
<1>. QED BY <1>1, <1>2, <1>3, PTL DEF Spec
=============================================================================
