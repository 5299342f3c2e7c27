-------------------------- MODULE DeviceData_proofs --------------------------
(***************************************************************************)
(* Theorems about what is learnt of devices: ToDDiscovery for every set of *)
(* calls, tables and bindings, ProbeGate for every set of requests,        *)
(* responders and parameters, LibraryMerge for every set of names and      *)
(* channel maps and a library of any size, FixtureModel for every geometry *)
(* tree, and ParamDescriptors for every set of requests, devices and       *)
(* parameters, every width of a byte and every layout.                     *)
(***************************************************************************)
EXTENDS ToDDiscovery, ProbeGate, LibraryMerge, FixtureModel, ParamDescriptors,
        FiniteSetTheorems, SequenceTheorems, WellFoundedInduction, TLAPS

-----------------------------------------------------------------------------
(* Numbers.                                                                  *)

\* Induction over the natural numbers, for a set of them.
LEMMA NatSetInduction ==
  ASSUME NEW T, T \subseteq Nat, 0 \in T, \A n \in T : n + 1 \in T
  PROVE  T = Nat
<1> DEFINE R == OpToRel(<, Nat)
           B == Nat \ T
<1>1. IsWellFoundedOn(R, Nat)
  BY NatLessThanWellFounded
<1>2. \A x, y \in Nat : x < y => <<x, y>> \in R
  BY DEF OpToRel
<1> HIDE DEF R
<1>3. SUFFICES ASSUME B # {} PROVE FALSE
  OBVIOUS
<1>4. PICK x \in B : \A y \in B : ~(<<y, x>> \in R)
  BY <1>1, <1>3, WFMin
<1>5. x \in Nat /\ x # 0 /\ x - 1 \in Nat /\ x - 1 < x
  BY <1>4
<1>6. x - 1 \notin B
  BY <1>2, <1>4, <1>5
<1>7. (x - 1) + 1 \in T
  BY <1>5, <1>6
<1> QED BY <1>4, <1>5, <1>7

LEMMA SmallestNumber ==
  ASSUME NEW S, S \subseteq Nat, S # {}
  PROVE  \E x \in S : \A y \in S : x <= y
<1> DEFINE R == OpToRel(<, Nat)
<1>1. IsWellFoundedOn(R, Nat)
  BY NatLessThanWellFounded
<1>2. \A x, y \in Nat : x < y => <<x, y>> \in R
  BY DEF OpToRel
<1> HIDE DEF R
<1>3. PICK x \in S : \A y \in S : ~(<<y, x>> \in R)
  BY <1>1, WFMin
<1>4. ASSUME NEW y \in S PROVE x <= y
  <2>1. x \in Nat /\ y \in Nat
    OBVIOUS
  <2>2. ~(y < x)
    BY <1>2, <1>3, <2>1
  <2> QED BY <2>1, <2>2
<1> QED BY <1>3, <1>4

-----------------------------------------------------------------------------
(* ToDDiscovery.                                                             *)

\* What FinishDiscovery does, discovery by discovery.
LEMMA Finishes ==
  ASSUME NEW why, FinishDiscovery(why)
  PROVE  /\ stage' = [i \in Ids |-> IF i = discovery THEN "done" ELSE stage[i]]
         /\ err' = [i \in Ids |-> IF i = discovery THEN why ELSE err[i]]
         /\ gen' = [i \in Ids |-> IF i = discovery THEN gen[i] + 1 ELSE gen[i]]
         /\ timer' = [i \in Ids |-> timer[i] /\ i # discovery]
         /\ discovery' = None
BY DEF FinishDiscovery

LEMMA BlockType ==
  ASSUME NEW b \in Blocks
  PROVE  /\ b.table \in Tables
         /\ b.uids \subseteq b.table /\ b.uids \in SUBSET UIDs
         /\ IsFiniteSet(b.table) /\ UidTotal(b) \in Nat
<1>1. b.table \in Tables /\ b.uids \subseteq b.table /\ b.uids \in SUBSET UIDs
  BY DEF Blocks
<1>2. IsFiniteSet(b.table)
  BY <1>1, ToDAssumption
<1> QED BY <1>1, <1>2, FS_CardinalityType DEF UidTotal

LEMMA CanonicalType ==
  ASSUME TypeOK, NEW bind \in Binds
  PROVE  Canonical(bind) \in Binds
BY DEF TypeOK, Canonical

LEMMA LargerType ==
  ASSUME NEW m \in Nat, NEW n \in Nat
  PROVE  Larger(m, n) \in Nat /\ Larger(m, n) >= m /\ Larger(m, n) >= n
         /\ (m <= n => Larger(m, n) = n)
BY DEF Larger

\* A set that lies in a table and is no smaller is the table.
LEMMA FullTable ==
  ASSUME NEW T \in Tables, NEW S, S \subseteq T, Complete(S, Cardinality(T))
  PROVE  S = T
<1>1. IsFiniteSet(T)
  BY ToDAssumption
<1>2. Cardinality(S) <= Cardinality(T) /\ (Cardinality(T) = Cardinality(S) => T = S)
  BY <1>1, FS_Subset
<1>3. Cardinality(S) \in Nat /\ Cardinality(T) \in Nat
  BY <1>1, FS_Subset, FS_CardinalityType
<1> QED BY <1>2, <1>3 DEF Complete

-----------------------------------------------------------------------------
LEMMA FinishKeepsType ==
  ASSUME TypeOK, NEW why \in Reasons, FinishDiscovery(why), UNCHANGED node
  PROVE  /\ stage' \in [Ids -> {"unused", "running", "done"}]
         /\ err' \in [Ids -> Reasons \cup {None}]
         /\ gen' \in [Ids -> Nat]
         /\ timer' \in [Ids -> BOOLEAN]
         /\ discovery' \in Ids \cup {None}
         /\ \A i \in Ids : stage'[i] = "running" => node'[i] \in Binds
<1>1. /\ stage' = [i \in Ids |-> IF i = discovery THEN "done" ELSE stage[i]]
      /\ err' = [i \in Ids |-> IF i = discovery THEN why ELSE err[i]]
      /\ gen' = [i \in Ids |-> IF i = discovery THEN gen[i] + 1 ELSE gen[i]]
      /\ timer' = [i \in Ids |-> timer[i] /\ i # discovery]
      /\ discovery' = None
  BY Finishes
<1>2. stage' \in [Ids -> {"unused", "running", "done"}]
  BY <1>1 DEF TypeOK
<1>3. err' \in [Ids -> Reasons \cup {None}]
  BY <1>1 DEF TypeOK
<1>4. gen' \in [Ids -> Nat]
  BY <1>1 DEF TypeOK
<1>5. timer' \in [Ids -> BOOLEAN]
  BY <1>1
<1>6. \A i \in Ids : stage'[i] = "running" => node'[i] \in Binds
  BY <1>1 DEF TypeOK
<1> QED BY <1>1, <1>2, <1>3, <1>4, <1>5, <1>6

LEMMA TypeStep == TypeOK /\ [Next]_vars => TypeOK'
<1> SUFFICES ASSUME TypeOK, [Next]_vars PROVE TypeOK'
  OBVIOUS
<1>1. ASSUME NEW i \in Ids, NEW bind \in Binds, Discover(i, bind)
      PROVE  TypeOK'
  <2>1. Canonical(bind) \in Binds
    BY CanonicalType
  <2>2. node' \in [Ids -> Binds \cup {None}] /\ identity' \in Binds \cup {None}
    BY <1>1, <2>1 DEF Discover, TypeOK
  <2>3. /\ stage' \in [Ids -> {"unused", "running", "done"}]
        /\ err' \in [Ids -> Reasons \cup {None}]
        /\ gen' \in [Ids -> Nat]
        /\ timer' \in [Ids -> BOOLEAN]
        /\ discovery' \in Ids \cup {None}
    <3>1. timer' \in [Ids -> BOOLEAN]
      <4>1. timer' = [j \in Ids |-> IF j = i THEN TRUE
                                    ELSE timer[j] /\ ~(j = discovery)]
        BY <1>1 DEF Discover
      <4>2. \A j \in Ids : timer[j] \in BOOLEAN
        BY DEF TypeOK
      <4> QED BY <4>1, <4>2
    <3>2. stage' \in [Ids -> {"unused", "running", "done"}]
      BY <1>1 DEF Discover, TypeOK
    <3>3. err' \in [Ids -> Reasons \cup {None}]
      BY <1>1 DEF Discover, TypeOK, Reasons
    <3>4. gen' \in [Ids -> Nat]
      BY <1>1 DEF Discover, TypeOK
    <3> QED BY <1>1, <3>1, <3>2, <3>3, <3>4 DEF Discover
  <2>4. \A j \in Ids : stage'[j] = "running" => node'[j] \in Binds
    BY <1>1, <2>1 DEF Discover, TypeOK
  <2> QED BY <1>1, <2>2, <2>3, <2>4 DEF Discover, assembly, table, TypeOK
<1>2. ASSUME NEW i \in Ids, NEW bind \in Binds, DiscoverStopped(i, bind)
      PROVE  TypeOK'
  <2>1. Canonical(bind) \in Binds
    BY CanonicalType
  <2> QED BY <1>2, <2>1 DEF DiscoverStopped, assembly, clock, table, TypeOK, Reasons
<1>3. ASSUME NEW b \in Blocks, Unsolicited(b)
      PROVE  TypeOK'
  <2>1. Canonical(FirstBind) \in Binds
    BY CanonicalType, ToDAssumption
  <2>2. /\ arrivals' \in 0..MaxArrivals
        /\ identity' \in Binds \cup {None}
    BY <1>3, <2>1, ToDAssumption DEF Unsolicited, HandlesPacket, TypeOK
  <2>3. /\ tod' \in [uids : SUBSET UIDs, complete : BOOLEAN, cached : BOOLEAN]
        /\ sources' \in SUBSET Tables
    BY <1>3, BlockType DEF Unsolicited, TypeOK, Entry, Complete
  <2> QED BY <1>3, <2>2, <2>3
           DEF Unsolicited, outcome, assembly, clock, TypeOK
<1>4. ASSUME NEW b \in Blocks, NEW i \in Ids, HandleBlock(i, b)
      PROVE  TypeOK'
  <2>1. Canonical(FirstBind) \in Binds
    BY CanonicalType, ToDAssumption
  <2>2. /\ arrivals' \in 0..MaxArrivals
        /\ identity' \in Binds \cup {None}
    BY <1>4, <2>1, ToDAssumption DEF HandleBlock, HandlesPacket, TypeOK
  <2>3. Larger(total[i], UidTotal(b)) \in Nat
    BY LargerType, BlockType DEF TypeOK
  <2>4. /\ seen' \in [Ids -> SUBSET UIDs]
        /\ total' \in [Ids -> Nat]
        /\ blocks' \in [Ids -> Nat]
        /\ heard' \in [Ids -> SUBSET Tables]
    BY <1>4, <2>3, BlockType DEF HandleBlock, TypeOK
  <2>5. /\ tod' \in [uids : SUBSET UIDs, complete : BOOLEAN, cached : BOOLEAN]
        /\ sources' \in SUBSET Tables
    BY <1>4, BlockType DEF HandleBlock, TypeOK, Entry, Complete
  <2>6. /\ stage' \in [Ids -> {"unused", "running", "done"}]
        /\ err' \in [Ids -> Reasons \cup {None}]
        /\ gen' \in [Ids -> Nat]
        /\ timer' \in [Ids -> BOOLEAN]
        /\ discovery' \in Ids \cup {None}
        /\ \A j \in Ids : stage'[j] = "running" => node'[j] \in Binds
    <3>1. CASE FinishDiscovery("ok")
      BY <1>4, <3>1, FinishKeepsType DEF HandleBlock, Reasons
    <3>2. CASE Arm(i) /\ UNCHANGED <<outcome, discovery>>
      BY <1>4, <3>2 DEF HandleBlock, Arm, outcome, TypeOK
    <3> QED BY <1>4, <3>1, <3>2 DEF HandleBlock
  <2> QED BY <1>4, <2>2, <2>4, <2>5, <2>6 DEF HandleBlock, TypeOK
<1>5. CASE HandleNak
  <2>1. Canonical(FirstBind) \in Binds
    BY CanonicalType, ToDAssumption
  <2>2. /\ arrivals' \in 0..MaxArrivals
        /\ identity' \in Binds \cup {None}
    BY <1>5, <2>1, ToDAssumption DEF HandleNak, HandlesPacket, TypeOK
  <2>3. CASE FinishDiscovery("nak")
    <3>1. UNCHANGED node
      BY <1>5 DEF HandleNak
    <3> QED BY <1>5, <2>2, <2>3, <3>1, FinishKeepsType
             DEF HandleNak, assembly, table, TypeOK, Reasons
  <2>4. CASE UNCHANGED <<outcome, gen, timer, discovery>>
    BY <1>5, <2>2, <2>4 DEF HandleNak, assembly, outcome, table, TypeOK
  <2> QED BY <1>5, <2>3, <2>4 DEF HandleNak
<1>6. ASSUME NEW i \in Ids, TimerFires(i)
      PROVE  TypeOK'
  BY <1>6 DEF TimerFires, outcome, assembly, table, TypeOK
<1>7. ASSUME NEW i \in Ids, NEW g \in late[i], OnQuiet(i, g)
      PROVE  TypeOK'
  <2>1. late' \in [Ids -> SUBSET Nat]
    BY <1>7 DEF OnQuiet, TypeOK
  <2>2. CASE FinishDiscovery("timeout")
    <3>1. UNCHANGED node
      BY <1>7 DEF OnQuiet
    <3> QED BY <1>7, <2>1, <2>2, <3>1, FinishKeepsType
             DEF OnQuiet, assembly, table, TypeOK, Reasons
  <2>3. CASE UNCHANGED <<outcome, gen, timer, discovery>>
    BY <1>7, <2>1, <2>3 DEF OnQuiet, assembly, outcome, table, TypeOK
  <2> QED BY <1>7, <2>2, <2>3 DEF OnQuiet
<1>8. CASE ClearToD
  BY <1>8 DEF ClearToD, NoEntry, outcome, assembly, clock, TypeOK
<1>9. CASE Stop
  <2>1. UNCHANGED node
    BY <1>9 DEF Stop
  <2> QED BY <1>9, <2>1, FinishKeepsType DEF Stop, assembly, table, TypeOK, Reasons
<1>10. CASE UNCHANGED vars
  BY <1>10 DEF vars, outcome, assembly, clock, table, TypeOK
<1> QED BY <1>1, <1>2, <1>3, <1>4, <1>5, <1>6, <1>7, <1>8, <1>9, <1>10 DEF Next

LEMMA TypeInit == Init => TypeOK
<1> SUFFICES ASSUME Init PROVE TypeOK
  OBVIOUS
<1>1. tod \in [uids : SUBSET UIDs, complete : BOOLEAN, cached : BOOLEAN]
  BY DEF Init, NoEntry
<1>2. arrivals \in 0..MaxArrivals
  BY ToDAssumption DEF Init
<1>3. /\ timer \in [Ids -> BOOLEAN]
      /\ stopped \in BOOLEAN
  BY DEF Init
<1> QED BY <1>1, <1>2, <1>3 DEF Init, TypeOK, Reasons

\* The handlers keep the type of every variable: a running discovery has an
\* identity, and the cached table lists UIDs of the node.
THEOREM TypeCorrect == Spec => []TypeOK
<1>1. Init => TypeOK
  BY TypeInit
<1>2. TypeOK /\ [Next]_vars => TypeOK'
  BY TypeStep
<1> QED BY <1>1, <1>2, PTL DEF Spec

-----------------------------------------------------------------------------
\* What makes OneDiscovery and QuietTimeout inductive: a callback that waits
\* belongs to the current period or to an earlier one, never to a finished
\* discovery's or to one whose timer is armed; and nothing arrived since the
\* current period ended.
Periods ==
  \A i \in Ids :
    /\ timer[i] => gen[i] \notin late[i]
    /\ stage[i] # "running" => gen[i] \notin late[i]
    /\ \A g \in late[i] : g <= gen[i]
    /\ gen[i] \in late[i] => blocks[i] = quietAt[i]

DiscoveryInv == TypeOK /\ OneDiscovery /\ Periods /\ QuietTimeout

\* Ending the registered discovery, if any, with a reason that fits.
LEMMA FinishSafe ==
  ASSUME DiscoveryInv, NEW why \in Reasons, FinishDiscovery(why),
         quietAt' = quietAt,
         \A i \in Ids : late'[i] \subseteq late[i],
         \A i \in Ids : i # discovery => blocks'[i] = blocks[i] /\ late'[i] = late[i],
         why = "timeout" /\ discovery \in Ids
           => blocks'[discovery] = quietAt[discovery]
  PROVE  OneDiscovery' /\ Periods' /\ QuietTimeout'
<1>1. /\ stage' = [i \in Ids |-> IF i = discovery THEN "done" ELSE stage[i]]
      /\ err' = [i \in Ids |-> IF i = discovery THEN why ELSE err[i]]
      /\ gen' = [i \in Ids |-> IF i = discovery THEN gen[i] + 1 ELSE gen[i]]
      /\ timer' = [i \in Ids |-> timer[i] /\ i # discovery]
      /\ discovery' = None
  BY Finishes
<1> SUFFICES ASSUME NEW i \in Ids
             PROVE  /\ stage'[i] = "running" <=> discovery' = i
                    /\ stage'[i] = "done" <=> err'[i] # None
                    /\ stage'[i] = "running" => timer'[i] \/ gen'[i] \in late'[i]
                    /\ timer'[i] => stage'[i] = "running"
                    /\ timer'[i] => gen'[i] \notin late'[i]
                    /\ stage'[i] # "running" => gen'[i] \notin late'[i]
                    /\ \A g \in late'[i] : g <= gen'[i]
                    /\ gen'[i] \in late'[i] => blocks'[i] = quietAt'[i]
                    /\ err'[i] = "timeout" => blocks'[i] = quietAt'[i]
  BY DEF OneDiscovery, Periods, QuietTimeout
<1>2. gen[i] \in Nat /\ late[i] \subseteq Nat
  BY DEF DiscoveryInv, TypeOK
<1>3. discovery' # i
  BY <1>1, ToDAssumption
<1>4. CASE i = discovery
  <2>1. stage'[i] = "done" /\ err'[i] = why /\ gen'[i] = gen[i] + 1
    BY <1>1, <1>4
  <2>2. timer'[i] = FALSE
    BY <1>1, <1>4
  <2>3. \A g \in late'[i] : g <= gen[i]
    BY DEF DiscoveryInv, Periods
  <2>4. gen'[i] \notin late'[i] /\ \A g \in late'[i] : g <= gen'[i]
    BY <1>2, <2>1, <2>3
  <2>5. why # None
    BY ToDAssumption
  <2>6. err'[i] = "timeout" => blocks'[i] = quietAt'[i]
    BY <1>4, <2>1
  <2> QED BY <1>3, <1>4, <2>1, <2>2, <2>4, <2>5, <2>6
<1>5. CASE i # discovery
  <2>1. /\ stage'[i] = stage[i] /\ err'[i] = err[i] /\ gen'[i] = gen[i]
        /\ blocks'[i] = blocks[i] /\ late'[i] = late[i] /\ quietAt'[i] = quietAt[i]
    BY <1>1, <1>5
  <2>2. timer'[i] <=> timer[i]
    BY <1>1, <1>5
  <2>3. stage[i] # "running"
    BY <1>5 DEF DiscoveryInv, OneDiscovery
  <2> QED BY <1>3, <2>1, <2>2, <2>3 DEF DiscoveryInv, OneDiscovery, Periods, QuietTimeout
<1> QED BY <1>4, <1>5

\* A step that leaves the discoveries alone.
LEMMA IdleSafe ==
  ASSUME DiscoveryInv,
         UNCHANGED <<stage, err, gen, timer, discovery, blocks, quietAt>>,
         \A i \in Ids : late'[i] \subseteq late[i],
         \A i \in Ids : gen[i] \in late[i] /\ stage[i] = "running"
           => gen[i] \in late'[i]
  PROVE  OneDiscovery' /\ Periods' /\ QuietTimeout'
<1> SUFFICES ASSUME NEW i \in Ids
             PROVE  /\ stage'[i] = "running" <=> discovery' = i
                    /\ stage'[i] = "done" <=> err'[i] # None
                    /\ stage'[i] = "running" => timer'[i] \/ gen'[i] \in late'[i]
                    /\ timer'[i] => stage'[i] = "running"
                    /\ timer'[i] => gen'[i] \notin late'[i]
                    /\ stage'[i] # "running" => gen'[i] \notin late'[i]
                    /\ \A g \in late'[i] : g <= gen'[i]
                    /\ gen'[i] \in late'[i] => blocks'[i] = quietAt'[i]
                    /\ err'[i] = "timeout" => blocks'[i] = quietAt'[i]
  BY DEF OneDiscovery, Periods, QuietTimeout
<1> QED BY DEF DiscoveryInv, OneDiscovery, Periods, QuietTimeout

LEMMA DiscoveryStep == DiscoveryInv /\ [Next]_vars => DiscoveryInv'
<1> SUFFICES ASSUME DiscoveryInv, [Next]_vars
             PROVE  OneDiscovery' /\ Periods' /\ QuietTimeout'
  BY TypeStep DEF DiscoveryInv
<1>0. TypeOK
  BY DEF DiscoveryInv
<1>1. ASSUME NEW i \in Ids, NEW bind \in Binds, Discover(i, bind)
      PROVE  OneDiscovery' /\ Periods' /\ QuietTimeout'
  <2>1. /\ stage' = [j \in Ids |-> IF j = discovery THEN "done"
                                   ELSE IF j = i THEN "running" ELSE stage[j]]
        /\ err' = [j \in Ids |-> IF j = discovery THEN "superseded" ELSE err[j]]
        /\ gen' = [j \in Ids |-> IF j = discovery \/ j = i THEN gen[j] + 1 ELSE gen[j]]
        /\ timer' = [j \in Ids |-> IF j = i THEN TRUE ELSE timer[j] /\ ~(j = discovery)]
        /\ discovery' = i
        /\ UNCHANGED <<late, blocks, quietAt>>
    BY <1>1 DEF Discover, assembly
  <2>2. stage[i] = "unused" /\ i # discovery
    BY <1>1 DEF Discover, DiscoveryInv, OneDiscovery
  <2> SUFFICES ASSUME NEW j \in Ids
               PROVE  /\ stage'[j] = "running" <=> discovery' = j
                      /\ stage'[j] = "done" <=> err'[j] # None
                      /\ stage'[j] = "running" => timer'[j] \/ gen'[j] \in late'[j]
                      /\ timer'[j] => stage'[j] = "running"
                      /\ timer'[j] => gen'[j] \notin late'[j]
                      /\ stage'[j] # "running" => gen'[j] \notin late'[j]
                      /\ \A g \in late'[j] : g <= gen'[j]
                      /\ gen'[j] \in late'[j] => blocks'[j] = quietAt'[j]
                      /\ err'[j] = "timeout" => blocks'[j] = quietAt'[j]
    BY DEF OneDiscovery, Periods, QuietTimeout
  <2>3. /\ gen[j] \in Nat /\ late[j] \subseteq Nat
        /\ \A g \in late[j] : g <= gen[j]
    BY DEF DiscoveryInv, TypeOK, Periods
  <2>4. CASE j = i
    <3>1. /\ stage'[j] = "running" /\ gen'[j] = gen[j] + 1 /\ err'[j] = err[j]
          /\ timer'[j] = TRUE /\ late'[j] = late[j]
      BY <2>1, <2>2, <2>4
    <3>2. gen'[j] \notin late'[j] /\ \A g \in late'[j] : g <= gen'[j]
      BY <2>3, <3>1
    <3>3. err[j] = None
      BY <2>2, <2>4 DEF DiscoveryInv, OneDiscovery
    <3>4. discovery' = j
      BY <2>1, <2>4
    <3> QED BY <3>1, <3>2, <3>3, <3>4, ToDAssumption DEF Reasons
  <2>5. CASE j = discovery
    <3>1. /\ stage'[j] = "done" /\ gen'[j] = gen[j] + 1 /\ err'[j] = "superseded"
          /\ late'[j] = late[j]
      BY <2>1, <2>2, <2>5
    <3>2. timer'[j] = FALSE
      BY <2>1, <2>2, <2>5
    <3>3. gen'[j] \notin late'[j] /\ \A g \in late'[j] : g <= gen'[j]
      BY <2>3, <3>1
    <3>4. discovery' # j
      BY <2>1, <2>2, <2>5
    <3> QED BY <3>1, <3>2, <3>3, <3>4, ToDAssumption DEF Reasons
  <2>6. CASE j # i /\ j # discovery
    <3>1. /\ stage'[j] = stage[j] /\ gen'[j] = gen[j] /\ err'[j] = err[j]
          /\ late'[j] = late[j] /\ blocks'[j] = blocks[j] /\ quietAt'[j] = quietAt[j]
      BY <2>1, <2>6
    <3>2. timer'[j] <=> timer[j]
      BY <2>1, <2>6
    <3>3. stage[j] # "running" /\ discovery' # j
      BY <2>1, <2>6 DEF DiscoveryInv, OneDiscovery
    <3> QED BY <3>1, <3>2, <3>3 DEF DiscoveryInv, OneDiscovery, Periods, QuietTimeout
  <2> QED BY <2>4, <2>5, <2>6
<1>2. ASSUME NEW i \in Ids, NEW bind \in Binds, DiscoverStopped(i, bind)
      PROVE  OneDiscovery' /\ Periods' /\ QuietTimeout'
  <2>1. /\ stage' = [stage EXCEPT ![i] = "done"]
        /\ err' = [err EXCEPT ![i] = "stopped"]
        /\ stage[i] = "unused"
        /\ UNCHANGED <<gen, timer, discovery, late, blocks, quietAt>>
    BY <1>2 DEF DiscoverStopped, assembly, clock
  <2> SUFFICES ASSUME NEW j \in Ids
               PROVE  /\ stage'[j] = "running" <=> discovery' = j
                      /\ stage'[j] = "done" <=> err'[j] # None
                      /\ stage'[j] = "running" => timer'[j] \/ gen'[j] \in late'[j]
                      /\ timer'[j] => stage'[j] = "running"
                      /\ timer'[j] => gen'[j] \notin late'[j]
                      /\ stage'[j] # "running" => gen'[j] \notin late'[j]
                      /\ \A g \in late'[j] : g <= gen'[j]
                      /\ gen'[j] \in late'[j] => blocks'[j] = quietAt'[j]
                      /\ err'[j] = "timeout" => blocks'[j] = quietAt'[j]
    BY DEF OneDiscovery, Periods, QuietTimeout
  <2>2. CASE j = i
    <3>1. stage'[j] = "done" /\ err'[j] = "stopped"
      BY <2>1, <2>2 DEF DiscoveryInv, TypeOK
    <3>2. err'[j] # None /\ err'[j] # "timeout"
      BY <3>1, ToDAssumption DEF Reasons
    <3> QED BY <2>1, <2>2, <3>1, <3>2 DEF DiscoveryInv, OneDiscovery, Periods
  <2>3. CASE j # i
    <3>1. stage'[j] = stage[j] /\ err'[j] = err[j]
      BY <2>1, <2>3 DEF DiscoveryInv, TypeOK
    <3> QED BY <2>1, <3>1 DEF DiscoveryInv, OneDiscovery, Periods, QuietTimeout
  <2> QED BY <2>2, <2>3
<1>3. ASSUME NEW b \in Blocks, Unsolicited(b)
      PROVE  OneDiscovery' /\ Periods' /\ QuietTimeout'
  BY <1>3, IdleSafe DEF Unsolicited, outcome, assembly, clock
<1>4. ASSUME NEW b \in Blocks, NEW i \in Ids, HandleBlock(i, b)
      PROVE  OneDiscovery' /\ Periods' /\ QuietTimeout'
  <2>1. /\ discovery = i
        /\ blocks' = [blocks EXCEPT ![i] = @ + 1]
        /\ UNCHANGED <<late, quietAt>>
    BY <1>4 DEF HandleBlock
  <2>2. \A j \in Ids : j # i => blocks'[j] = blocks[j]
    BY <2>1 DEF DiscoveryInv, TypeOK
  <2>3. CASE FinishDiscovery("ok")
    <3>1. "ok" \in Reasons
      BY DEF Reasons
    <3> QED BY <2>1, <2>2, <2>3, <3>1, FinishSafe
  <2>4. CASE Arm(i) /\ UNCHANGED <<outcome, discovery>>
    <3>1. /\ gen' = [gen EXCEPT ![i] = @ + 1]
          /\ timer' = [timer EXCEPT ![i] = TRUE]
          /\ UNCHANGED <<stage, err, discovery>>
      BY <2>4 DEF Arm, outcome
    <3> SUFFICES ASSUME NEW j \in Ids
                 PROVE  /\ stage'[j] = "running" <=> discovery' = j
                        /\ stage'[j] = "done" <=> err'[j] # None
                        /\ stage'[j] = "running" => timer'[j] \/ gen'[j] \in late'[j]
                        /\ timer'[j] => stage'[j] = "running"
                        /\ timer'[j] => gen'[j] \notin late'[j]
                        /\ stage'[j] # "running" => gen'[j] \notin late'[j]
                        /\ \A g \in late'[j] : g <= gen'[j]
                        /\ gen'[j] \in late'[j] => blocks'[j] = quietAt'[j]
                        /\ err'[j] = "timeout" => blocks'[j] = quietAt'[j]
      BY DEF OneDiscovery, Periods, QuietTimeout
    <3>2. CASE j = i
      <4>1. /\ gen[j] \in Nat /\ late[j] \subseteq Nat
            /\ \A g \in late[j] : g <= gen[j]
        BY DEF DiscoveryInv, TypeOK, Periods
      <4>2. gen'[j] = gen[j] + 1 /\ timer'[j] = TRUE
        BY <3>1, <3>2 DEF DiscoveryInv, TypeOK
      <4>3. gen'[j] \notin late'[j] /\ \A g \in late'[j] : g <= gen'[j]
        BY <2>1, <4>1, <4>2
      <4>4. stage[j] = "running" /\ err[j] = None
        BY <2>1, <3>2 DEF DiscoveryInv, OneDiscovery
      <4>5. err[j] # "timeout"
        BY <4>4, ToDAssumption DEF Reasons
      <4> QED BY <2>1, <3>1, <3>2, <4>2, <4>3, <4>4, <4>5
    <3>3. CASE j # i
      <4>1. gen'[j] = gen[j] /\ blocks'[j] = blocks[j]
        BY <2>2, <3>1, <3>3 DEF DiscoveryInv, TypeOK
      <4>2. timer'[j] <=> timer[j]
        BY <3>1, <3>3 DEF DiscoveryInv, TypeOK
      <4> QED BY <2>1, <3>1, <4>1, <4>2 DEF DiscoveryInv, OneDiscovery, Periods, QuietTimeout
    <3> QED BY <3>2, <3>3
  <2> QED BY <1>4, <2>3, <2>4 DEF HandleBlock
<1>5. CASE HandleNak
  <2>1. UNCHANGED <<blocks, late, quietAt>>
    BY <1>5 DEF HandleNak, assembly
  <2>2. CASE FinishDiscovery("nak")
    <3>1. "nak" \in Reasons
      BY DEF Reasons
    <3> QED BY <2>1, <2>2, <3>1, FinishSafe
  <2>3. CASE UNCHANGED <<outcome, gen, timer, discovery>>
    BY <2>1, <2>3, IdleSafe DEF outcome
  <2> QED BY <1>5, <2>2, <2>3 DEF HandleNak
<1>6. ASSUME NEW i \in Ids, TimerFires(i)
      PROVE  OneDiscovery' /\ Periods' /\ QuietTimeout'
  <2>1. /\ timer[i]
        /\ timer' = [timer EXCEPT ![i] = FALSE]
        /\ late' = [late EXCEPT ![i] = @ \cup {gen[i]}]
        /\ quietAt' = [quietAt EXCEPT ![i] = blocks[i]]
        /\ UNCHANGED <<stage, err, gen, discovery, blocks>>
    BY <1>6 DEF TimerFires, outcome, assembly
  <2> SUFFICES ASSUME NEW j \in Ids
               PROVE  /\ stage'[j] = "running" <=> discovery' = j
                      /\ stage'[j] = "done" <=> err'[j] # None
                      /\ stage'[j] = "running" => timer'[j] \/ gen'[j] \in late'[j]
                      /\ timer'[j] => stage'[j] = "running"
                      /\ timer'[j] => gen'[j] \notin late'[j]
                      /\ stage'[j] # "running" => gen'[j] \notin late'[j]
                      /\ \A g \in late'[j] : g <= gen'[j]
                      /\ gen'[j] \in late'[j] => blocks'[j] = quietAt'[j]
                      /\ err'[j] = "timeout" => blocks'[j] = quietAt'[j]
    BY DEF OneDiscovery, Periods, QuietTimeout
  <2>2. CASE j = i
    <3>1. timer'[j] = FALSE /\ late'[j] = late[j] \cup {gen[j]} /\ quietAt'[j] = blocks[j]
      BY <2>1, <2>2 DEF DiscoveryInv, TypeOK
    <3>2. stage[j] = "running"
      BY <2>1, <2>2 DEF DiscoveryInv, OneDiscovery
    <3>3. \A g \in late'[j] : g <= gen[j]
      BY <3>1 DEF DiscoveryInv, Periods, TypeOK
    <3> QED BY <2>1, <3>1, <3>2, <3>3 DEF DiscoveryInv, OneDiscovery
  <2>3. CASE j # i
    <3>1. late'[j] = late[j] /\ quietAt'[j] = quietAt[j]
      BY <2>1, <2>3 DEF DiscoveryInv, TypeOK
    <3>2. timer'[j] <=> timer[j]
      BY <2>1, <2>3 DEF DiscoveryInv, TypeOK
    <3> QED BY <2>1, <3>1, <3>2 DEF DiscoveryInv, OneDiscovery, Periods, QuietTimeout
  <2> QED BY <2>2, <2>3
<1>7. ASSUME NEW i \in Ids, NEW g \in late[i], OnQuiet(i, g)
      PROVE  OneDiscovery' /\ Periods' /\ QuietTimeout'
  <2>1. /\ late' = [late EXCEPT ![i] = @ \ {g}]
        /\ UNCHANGED <<blocks, quietAt>>
    BY <1>7 DEF OnQuiet, assembly
  <2>2. \A j \in Ids : late'[j] \subseteq late[j] /\ (j # i => late'[j] = late[j])
    BY <2>1 DEF DiscoveryInv, TypeOK
  <2>3. CASE Current(i, g) /\ FinishDiscovery("timeout")
    <3>1. "timeout" \in Reasons
      BY DEF Reasons
    <3>2. discovery = i /\ gen[i] \in late[i]
      BY <2>3 DEF Current, DiscoveryInv, OneDiscovery
    <3>3. blocks'[discovery] = quietAt[discovery]
      BY <2>1, <3>2 DEF DiscoveryInv, Periods
    <3> QED BY <2>1, <2>2, <2>3, <3>1, <3>2, <3>3, FinishSafe
  <2>4. CASE ~Current(i, g) /\ UNCHANGED <<outcome, gen, timer, discovery>>
    <3>1. \A j \in Ids : gen[j] \in late[j] /\ stage[j] = "running"
            => gen[j] \in late'[j]
      BY <2>1, <2>2, <2>4 DEF Current, DiscoveryInv, TypeOK
    <3> QED BY <2>1, <2>2, <2>4, <3>1, IdleSafe DEF outcome
  <2> QED BY <1>7, <2>3, <2>4 DEF OnQuiet
<1>8. CASE ClearToD
  BY <1>8, IdleSafe DEF ClearToD, outcome, assembly, clock
<1>9. CASE Stop
  <2>1. UNCHANGED <<blocks, late, quietAt>> /\ FinishDiscovery("stopped")
    BY <1>9 DEF Stop, assembly
  <2>2. "stopped" \in Reasons
    BY DEF Reasons
  <2> QED BY <2>1, <2>2, FinishSafe
<1>10. CASE UNCHANGED vars
  BY <1>10, IdleSafe DEF vars, outcome, assembly, clock
<1> QED BY <1>1, <1>2, <1>3, <1>4, <1>5, <1>6, <1>7, <1>8, <1>9, <1>10 DEF Next

LEMMA DiscoveryInit == Init => DiscoveryInv
<1> SUFFICES ASSUME Init PROVE OneDiscovery /\ Periods /\ QuietTimeout
  BY TypeInit DEF DiscoveryInv
<1>1. \A i \in Ids : /\ stage[i] = "unused" /\ err[i] = None
                     /\ timer[i] = FALSE /\ late[i] = {} /\ discovery = None
  BY DEF Init
<1>2. None # "timeout"
  BY ToDAssumption DEF Reasons
<1> QED BY <1>1, <1>2, ToDAssumption DEF OneDiscovery, Periods, QuietTimeout

LEMMA DiscoveryInvariant == Spec => []DiscoveryInv
<1>1. Init => DiscoveryInv
  BY DiscoveryInit
<1>2. DiscoveryInv /\ [Next]_vars => DiscoveryInv'
  BY DiscoveryStep
<1> QED BY <1>1, <1>2, PTL DEF Spec

\* The registered discovery is the one that runs, and it never waits without
\* a timer or a callback on its way.
THEOREM RegisteredRuns == Spec => []OneDiscovery
BY DiscoveryInvariant, PTL DEF DiscoveryInv

\* An expiry overtaken by a block never ends a discovery.
THEOREM TimeoutIsQuiet == Spec => []QuietTimeout
BY DiscoveryInvariant, PTL DEF DiscoveryInv

-----------------------------------------------------------------------------
\* What makes CompleteIsTheTable inductive: nothing is collected that no table
\* lists, and blocks of a single table announce the size of that table.
BlocksOfTables ==
  /\ \A i \in Ids :
       /\ seen[i] \subseteq UNION heard[i]
       /\ heard[i] = {} => total[i] = 0
       /\ \A T \in Tables : heard[i] = {T} => total[i] = Cardinality(T)
       /\ err[i] = "ok" => Complete(seen[i], total[i])
  /\ tod.uids \subseteq UNION sources

TableInv == DiscoveryInv /\ BlocksOfTables /\ CompleteIsTheTable

\* Steps that collect nothing and make no discovery succeed.
LEMMA NothingCollected ==
  ASSUME TableInv, UNCHANGED <<seen, total, heard, tod, sources>>,
         \A i \in Ids : err'[i] = "ok" => err[i] = "ok"
  PROVE  BlocksOfTables' /\ CompleteIsTheTable'
<1>1. BlocksOfTables'
  BY DEF TableInv, BlocksOfTables
<1>2. CompleteIsTheTable'
  BY DEF TableInv, CompleteIsTheTable
<1> QED BY <1>1, <1>2

\* How a finished discovery's error changes: not at all.
LEMMA FinishNotOk ==
  ASSUME NEW why \in Reasons \ {"ok"}, FinishDiscovery(why)
  PROVE  \A i \in Ids : err'[i] = "ok" => err[i] = "ok"
BY Finishes

LEMMA TableStep == TableInv /\ [Next]_vars => TableInv'
<1> SUFFICES ASSUME TableInv, [Next]_vars
             PROVE  BlocksOfTables' /\ CompleteIsTheTable'
  BY DiscoveryStep DEF TableInv
<1>0. TypeOK /\ OneDiscovery
  BY DEF TableInv, DiscoveryInv
<1>1. ASSUME NEW i \in Ids, NEW bind \in Binds, Discover(i, bind)
      PROVE  BlocksOfTables' /\ CompleteIsTheTable'
  <2>1. err' = [j \in Ids |-> IF j = discovery THEN "superseded" ELSE err[j]]
    BY <1>1 DEF Discover
  <2>2. \A j \in Ids : err'[j] = "ok" => err[j] = "ok"
    BY <2>1
  <2> QED BY <1>1, <2>2, NothingCollected DEF Discover, assembly, table
<1>2. ASSUME NEW i \in Ids, NEW bind \in Binds, DiscoverStopped(i, bind)
      PROVE  BlocksOfTables' /\ CompleteIsTheTable'
  <2>1. \A j \in Ids : err'[j] = "ok" => err[j] = "ok"
    BY <1>0, <1>2 DEF DiscoverStopped, TypeOK
  <2> QED BY <1>2, <2>1, NothingCollected DEF DiscoverStopped, assembly, table
<1>3. ASSUME NEW b \in Blocks, Unsolicited(b)
      PROVE  BlocksOfTables' /\ CompleteIsTheTable'
  <2> DEFINE grows == tod.cached /\ ~tod.complete
             uids == b.uids \cup (IF grows THEN tod.uids ELSE {})
             from == {b.table} \cup (IF grows THEN sources ELSE {})
  <2>1. /\ tod' = Entry(uids, Complete(uids, UidTotal(b)))
        /\ sources' = from
        /\ UNCHANGED <<seen, total, heard, err>>
    BY <1>3 DEF Unsolicited, assembly, outcome
  <2>2. tod.uids \subseteq UNION sources
    BY DEF TableInv, BlocksOfTables
  <2>3. uids \subseteq UNION from
    BY <2>2, BlockType
  <2> HIDE DEF uids
  <2>4. tod'.uids = uids /\ tod'.complete = Complete(uids, UidTotal(b))
    BY <2>1 DEF Entry
  <2>5. BlocksOfTables'
    BY <2>1, <2>3, <2>4 DEF TableInv, BlocksOfTables
  <2>6. ASSUME NEW T \in Tables, tod'.complete, sources' = {T}
        PROVE  tod'.uids = T
    <3>1. b.table = T /\ uids \subseteq T
      BY <2>1, <2>3, <2>6
    <3>2. Complete(uids, Cardinality(T))
      BY <2>4, <2>6, <3>1 DEF UidTotal
    <3> QED BY <2>4, <3>1, <3>2, FullTable
  <2>7. \A T \in Tables, j \in Ids : err'[j] = "ok" /\ heard'[j] = {T} => seen'[j] = T
    BY <2>1 DEF TableInv, CompleteIsTheTable
  <2> QED BY <2>5, <2>6, <2>7 DEF CompleteIsTheTable
<1>4. ASSUME NEW b \in Blocks, NEW i \in Ids, HandleBlock(i, b)
      PROVE  BlocksOfTables' /\ CompleteIsTheTable'
  <2> DEFINE uids == seen[i] \cup b.uids
             size == Larger(total[i], UidTotal(b))
             from == heard[i] \cup {b.table}
  <2>1. /\ discovery = i
        /\ seen' = [seen EXCEPT ![i] = uids]
        /\ total' = [total EXCEPT ![i] = size]
        /\ heard' = [heard EXCEPT ![i] = from]
        /\ tod' = Entry(uids, Complete(uids, size))
        /\ sources' = from
    BY <1>4 DEF HandleBlock
  <2>2. seen'[i] = uids /\ total'[i] = size /\ heard'[i] = from
    BY <1>0, <2>1 DEF TypeOK
  <2>3. \A j \in Ids : j # i =>
          seen'[j] = seen[j] /\ total'[j] = total[j] /\ heard'[j] = heard[j]
    BY <1>0, <2>1 DEF TypeOK
  <2>4. uids \subseteq UNION from
    BY BlockType DEF TableInv, BlocksOfTables
  <2>5. \A T \in Tables : from = {T} => size = Cardinality(T)
    <3> SUFFICES ASSUME NEW T \in Tables, from = {T}
                 PROVE  size = Cardinality(T)
      OBVIOUS
    <3>1. b.table = T /\ UidTotal(b) = Cardinality(T) /\ UidTotal(b) \in Nat
      BY BlockType DEF UidTotal
    <3>2. total[i] = 0 \/ total[i] = Cardinality(T)
      BY DEF TableInv, BlocksOfTables
    <3> QED BY <3>1, <3>2, LargerType
  <2>6. \A j \in Ids : err'[j] = "ok" =>
          \/ j = i /\ Complete(uids, size)
          \/ j # i /\ err[j] = "ok"
    <3>1. \A j \in Ids : err[j] = "ok" => j # i
      BY <1>0, <2>1, ToDAssumption DEF OneDiscovery, Reasons
    <3>2. CASE Complete(uids, size) /\ FinishDiscovery("ok")
      BY <2>1, <3>1, <3>2, Finishes
    <3>3. CASE UNCHANGED <<outcome, discovery>>
      BY <3>1, <3>3 DEF outcome
    <3> QED BY <1>4, <3>2, <3>3 DEF HandleBlock
  <2> HIDE DEF uids, size, from
  <2>7. tod'.uids = uids /\ tod'.complete = Complete(uids, size)
    BY <2>1 DEF Entry
  <2>8. from # {}
    BY DEF from
  <2>9. BlocksOfTables'
    <3>1. \A j \in Ids :
            /\ seen'[j] \subseteq UNION heard'[j]
            /\ heard'[j] = {} => total'[j] = 0
            /\ \A T \in Tables : heard'[j] = {T} => total'[j] = Cardinality(T)
      BY <2>2, <2>3, <2>4, <2>5, <2>8 DEF TableInv, BlocksOfTables
    <3>2. \A j \in Ids : err'[j] = "ok" => Complete(seen'[j], total'[j])
      BY <2>2, <2>3, <2>6 DEF TableInv, BlocksOfTables
    <3>3. tod'.uids \subseteq UNION sources'
      BY <2>1, <2>4, <2>7
    <3> QED BY <3>1, <3>2, <3>3 DEF BlocksOfTables
  <2>10. ASSUME NEW T \in Tables, tod'.complete, sources' = {T}
         PROVE  tod'.uids = T
    <3>1. uids \subseteq T /\ Complete(uids, Cardinality(T))
      BY <2>1, <2>4, <2>5, <2>7, <2>10
    <3> QED BY <2>7, <3>1, FullTable
  <2>11. ASSUME NEW T \in Tables, NEW j \in Ids, err'[j] = "ok", heard'[j] = {T}
         PROVE  seen'[j] = T
    <3>1. seen'[j] \subseteq T /\ Complete(seen'[j], Cardinality(T))
      BY <2>9, <2>11 DEF BlocksOfTables
    <3> QED BY <3>1, FullTable
  <2> QED BY <2>9, <2>10, <2>11 DEF CompleteIsTheTable
<1>5. CASE HandleNak
  <2>1. UNCHANGED <<seen, total, heard, tod, sources>>
    BY <1>5 DEF HandleNak, assembly, table
  <2>2. \A j \in Ids : err'[j] = "ok" => err[j] = "ok"
    <3>1. CASE FinishDiscovery("nak")
      BY <3>1, FinishNotOk DEF Reasons
    <3>2. CASE UNCHANGED <<outcome, gen, timer, discovery>>
      BY <3>2 DEF outcome
    <3> QED BY <1>5, <3>1, <3>2 DEF HandleNak
  <2> QED BY <2>1, <2>2, NothingCollected
<1>6. ASSUME NEW i \in Ids, TimerFires(i)
      PROVE  BlocksOfTables' /\ CompleteIsTheTable'
  BY <1>6, NothingCollected DEF TimerFires, outcome, assembly, table
<1>7. ASSUME NEW i \in Ids, NEW g \in late[i], OnQuiet(i, g)
      PROVE  BlocksOfTables' /\ CompleteIsTheTable'
  <2>1. UNCHANGED <<seen, total, heard, tod, sources>>
    BY <1>7 DEF OnQuiet, assembly, table
  <2>2. \A j \in Ids : err'[j] = "ok" => err[j] = "ok"
    <3>1. CASE FinishDiscovery("timeout")
      BY <3>1, FinishNotOk DEF Reasons
    <3>2. CASE UNCHANGED <<outcome, gen, timer, discovery>>
      BY <3>2 DEF outcome
    <3> QED BY <1>7, <3>1, <3>2 DEF OnQuiet
  <2> QED BY <2>1, <2>2, NothingCollected
<1>8. CASE ClearToD
  <2>1. /\ UNCHANGED <<seen, total, heard, err>>
        /\ tod' = NoEntry /\ sources' = {}
    BY <1>8 DEF ClearToD, assembly, outcome
  <2>2. BlocksOfTables'
    BY <2>1 DEF TableInv, BlocksOfTables, NoEntry
  <2>3. CompleteIsTheTable'
    BY <2>1 DEF TableInv, CompleteIsTheTable, NoEntry
  <2> QED BY <2>2, <2>3
<1>9. CASE Stop
  <2>1. UNCHANGED <<seen, total, heard, tod, sources>> /\ FinishDiscovery("stopped")
    BY <1>9 DEF Stop, assembly, table
  <2>2. \A j \in Ids : err'[j] = "ok" => err[j] = "ok"
    BY <2>1, FinishNotOk DEF Reasons
  <2> QED BY <2>1, <2>2, NothingCollected
<1>10. CASE UNCHANGED vars
  BY <1>10, NothingCollected DEF vars, outcome, assembly, table
<1> QED BY <1>1, <1>2, <1>3, <1>4, <1>5, <1>6, <1>7, <1>8, <1>9, <1>10 DEF Next

\* Whatever is called complete and came from one table is that table: blocks
\* lost, reordered or repeated never make a result of something else.
THEOREM CompleteTable == Spec => []CompleteIsTheTable
<1>1. Init => TableInv
  <2> SUFFICES ASSUME Init PROVE TableInv
    OBVIOUS
  <2>1. DiscoveryInv
    BY DiscoveryInit
  <2>2. \A i \in Ids : err[i] = None /\ seen[i] = {} /\ heard[i] = {} /\ total[i] = 0
    BY DEF Init
  <2>3. tod.uids = {} /\ tod.complete = FALSE /\ sources = {}
    BY DEF Init, NoEntry
  <2>4. None # "ok"
    BY ToDAssumption DEF Reasons
  <2> QED BY <2>1, <2>2, <2>3, <2>4 DEF TableInv, BlocksOfTables, CompleteIsTheTable
<1>2. TableInv /\ [Next]_vars => TableInv'
  BY TableStep
<1> QED BY <1>1, <1>2, PTL DEF Spec, TableInv

-----------------------------------------------------------------------------
\* Steps that begin no discovery and learn an identity at most.
LEMMA IdentityStays ==
  ASSUME TypeOK, OneIdentity, UNCHANGED <<node, cleared>>,
         identity' = identity \/ identity' = Canonical(FirstBind),
         \A i \in Ids : stage'[i] = "running" => stage[i] = "running"
  PROVE  OneIdentity'
<1> SUFFICES ASSUME NEW i \in Ids, stage'[i] = "running", i \notin cleared
             PROVE  node[i] = identity'
  BY DEF OneIdentity
<1>1. node[i] = identity /\ node[i] \in Binds
  BY DEF OneIdentity, TypeOK
<1>2. identity # None
  BY <1>1, ToDAssumption
<1> QED BY <1>1, <1>2 DEF Canonical

\* FinishDiscovery begins none.
LEMMA FinishBeginsNone ==
  ASSUME NEW why, FinishDiscovery(why)
  PROVE  \A i \in Ids : stage'[i] = "running" => stage[i] = "running"
BY Finishes

LEMMA IdentityStep ==
  DiscoveryInv /\ OneIdentity /\ [Next]_vars => OneIdentity'
<1> SUFFICES ASSUME DiscoveryInv, OneIdentity, [Next]_vars
             PROVE  OneIdentity'
  OBVIOUS
<1>0. TypeOK /\ OneDiscovery
  BY DEF DiscoveryInv
<1>1. ASSUME NEW i \in Ids, NEW bind \in Binds, Discover(i, bind)
      PROVE  OneIdentity'
  <2>1. /\ node' = [node EXCEPT ![i] = Canonical(bind)]
        /\ identity' = Canonical(bind)
        /\ stage' = [j \in Ids |-> IF j = discovery THEN "done"
                                   ELSE IF j = i THEN "running" ELSE stage[j]]
    BY <1>1 DEF Discover
  <2>2. node'[i] = identity'
    BY <1>0, <2>1 DEF TypeOK
  <2>3. \A j \in Ids : stage'[j] = "running" => j = i
    BY <1>0, <2>1 DEF OneDiscovery
  <2> QED BY <2>2, <2>3 DEF OneIdentity
<1>2. ASSUME NEW i \in Ids, NEW bind \in Binds, DiscoverStopped(i, bind)
      PROVE  OneIdentity'
  <2> SUFFICES ASSUME NEW j \in Ids, stage'[j] = "running", j \notin cleared'
               PROVE  node'[j] = identity'
    BY DEF OneIdentity
  <2>1. j # i /\ stage[j] = "running" /\ node'[j] = node[j]
    BY <1>0, <1>2 DEF DiscoverStopped, TypeOK
  <2>2. node[j] = identity /\ node[j] \in Binds
    BY <1>0, <1>2, <2>1 DEF OneIdentity, TypeOK, DiscoverStopped
  <2>3. identity # None
    BY <2>2, ToDAssumption
  <2> QED BY <1>2, <2>1, <2>2, <2>3 DEF DiscoverStopped, Canonical
<1>3. ASSUME NEW b \in Blocks, Unsolicited(b)
      PROVE  OneIdentity'
  BY <1>0, <1>3, IdentityStays DEF Unsolicited, HandlesPacket, outcome
<1>4. ASSUME NEW b \in Blocks, NEW i \in Ids, HandleBlock(i, b)
      PROVE  OneIdentity'
  <2>1. \A j \in Ids : stage'[j] = "running" => stage[j] = "running"
    BY <1>4, FinishBeginsNone DEF HandleBlock, outcome
  <2> QED BY <1>0, <1>4, <2>1, IdentityStays DEF HandleBlock, HandlesPacket
<1>5. CASE HandleNak
  <2>1. \A j \in Ids : stage'[j] = "running" => stage[j] = "running"
    BY <1>5, FinishBeginsNone DEF HandleNak, outcome
  <2> QED BY <1>0, <1>5, <2>1, IdentityStays DEF HandleNak, HandlesPacket
<1>6. ASSUME NEW i \in Ids, TimerFires(i)
      PROVE  OneIdentity'
  BY <1>0, <1>6, IdentityStays DEF TimerFires, outcome
<1>7. ASSUME NEW i \in Ids, NEW g \in late[i], OnQuiet(i, g)
      PROVE  OneIdentity'
  <2>1. \A j \in Ids : stage'[j] = "running" => stage[j] = "running"
    BY <1>7, FinishBeginsNone DEF OnQuiet, outcome
  <2> QED BY <1>0, <1>7, <2>1, IdentityStays DEF OnQuiet
<1>8. CASE ClearToD
  <2>1. \A j \in Ids : stage'[j] = "running" => j \in cleared'
    BY <1>0, <1>8 DEF ClearToD, outcome, OneDiscovery
  <2> QED BY <2>1 DEF OneIdentity
<1>9. CASE Stop
  <2>1. \A j \in Ids : stage'[j] = "running" => stage[j] = "running"
    BY <1>9, FinishBeginsNone DEF Stop
  <2> QED BY <1>0, <1>9, <2>1, IdentityStays DEF Stop
<1>10. CASE UNCHANGED vars
  BY <1>10 DEF vars, outcome, OneIdentity
<1> QED BY <1>1, <1>2, <1>3, <1>4, <1>5, <1>6, <1>7, <1>8, <1>9, <1>10 DEF Next

\* A running discovery keeps the port's identity, unless the port is cleared.
THEOREM IdentityKept == Spec => []OneIdentity
<1>1. Init => OneIdentity
  BY DEF Init, OneIdentity
<1>2. DiscoveryInv /\ OneIdentity /\ [Next]_vars => OneIdentity'
  BY IdentityStep
<1> QED BY <1>1, <1>2, DiscoveryInvariant, PTL DEF Spec

\* The parts of the registration invariant together, for any tables and calls.
THEOREM RegistrationIsSound == Spec => []RegistrationInvariant
BY TypeCorrect, RegisteredRuns, TimeoutIsQuiet, IdentityKept, PTL
   DEF RegistrationInvariant

-----------------------------------------------------------------------------
(* ProbeGate.  The invariant takes the requests, the records and the       *)
(* counts as arguments, because a step changes them one after the other.   *)

Stages == {"idle", "gate", "resolve", "leading", "waiting", "woken", "decide", "probing",
           "info", "listing", "resetting"}
Requests == [at : Stages, dev : Responders, pid : Probes \cup {nobody}, held : Records,
             asked : Records, answer : Lists \cup {unknown}, live : BOOLEAN, cut : BOOLEAN]
Facts == [list : Lists \cup {unknown}, attempted : BOOLEAN,
          silent : 0 .. MaxSupportedSilentAttempts, flight : Readers \cup {nobody},
          refused : SUBSET Probes]

\* What the gate asked in vain it has counted, until it may not ask any more; and
\* it has one silence to spare while it asks.
SpendBy(f, n) ==
  /\ ~MayNotAsk(f) => n <= f.silent
  /\ f.flight # nobody => n <= 1

Spoke(f) == f.attempted \/ f.silent > 0

\* A request that comes from a flight, or was spared one, without a cancellation:
\* its record has a list, or says why there is none.
ToldBy(R, f) ==
  R.held = R.asked /\ ~R.cut =>
    /\ R.at = "woken" => f.list # unknown \/ Spoke(f)
    /\ R.at = "decide" => R.answer # unknown \/ Spoke(f)

LeadsFor(R, d, g) == R.at = "leading" /\ R.dev = d /\ R.asked = g

Fits(R, r, f) ==
  /\ R.at = "leading" => f.flight = r
  /\ R.at = "waiting" => f.flight # nobody
  /\ R.at = "probing" => R.pid # nobody
  /\ ToldBy(R, f)

Sound(f, n, d, g, T) ==
  /\ SpendBy(f, n)
  /\ \A r \in Readers : f.flight = r => LeadsFor(T[r], d, g)

ProbeOK(T, F, N) ==
  /\ T \in [Readers -> Requests]
  /\ F \in [Responders -> [Records -> Facts]]
  /\ N \in [Responders -> [Records -> 0 .. MaxSupportedSilentAttempts]]
  /\ \A d \in Responders, g \in Records : Sound(F[d][g], N[d][g], d, g, T)
  /\ \A r \in Readers : Fits(T[r], r, F[T[r].dev][T[r].asked])

\* A record only learns, until it is forgotten.
Grows(f, h) ==
  /\ h \in Facts /\ h.flight = f.flight
  /\ f.list # unknown => h.list # unknown
  /\ f.attempted => h.attempted
  /\ f.silent <= h.silent

LEMMA GrownTold ==
  ASSUME NEW f \in Facts, NEW h \in Facts, Grows(f, h), NEW R \in Requests, NEW r, Fits(R, r, f)
  PROVE  Fits(R, r, h)
<1>1. /\ h.flight = f.flight /\ (f.list # unknown => h.list # unknown)
      /\ (f.attempted => h.attempted) /\ f.silent <= h.silent
      /\ f.silent \in Nat /\ h.silent \in Nat
  BY DEF Grows, Facts
<1>2. Spoke(f) => Spoke(h)
  <2>1. f.silent > 0 => h.silent > 0
    BY <1>1
  <2> QED BY <1>1, <2>1 DEF Spoke
<1>3. ToldBy(R, f) => ToldBy(R, h)
  BY <1>1, <1>2 DEF ToldBy
<1> QED BY <1>1, <1>3 DEF Fits

LEMMA GrownSpends ==
  ASSUME NEW f \in Facts, NEW h \in Facts, Grows(f, h), NEW n \in Nat, SpendBy(f, n)
  PROVE  SpendBy(h, n)
<1>1. /\ h.flight = f.flight /\ (f.list # unknown => h.list # unknown)
      /\ (f.attempted => h.attempted) /\ f.silent <= h.silent
      /\ f.silent \in 0 .. 2 /\ h.silent \in 0 .. 2
  BY DEF Grows, Facts, MaxSupportedSilentAttempts
<1>2. ~MayNotAsk(h) => ~MayNotAsk(f)
  BY <1>1 DEF MayNotAsk, MaxSupportedSilentAttempts
<1> QED BY <1>1, <1>2 DEF SpendBy

\* A request's own move.
LEMMA OneMoves ==
  ASSUME NEW T, NEW F, NEW N, ProbeOK(T, F, N), NEW r \in Readers, NEW R \in Requests,
         Fits(R, r, F[R.dev][R.asked]),
         \A d \in Responders, g \in Records : LeadsFor(T[r], d, g) => LeadsFor(R, d, g)
  PROVE  ProbeOK([T EXCEPT ![r] = R], F, N)
<1> DEFINE U == [T EXCEPT ![r] = R]
<1>1. T \in [Readers -> Requests]
  BY DEF ProbeOK
<1>2. U \in [Readers -> Requests] /\ \A w \in Readers : U[w] = IF w = r THEN R ELSE T[w]
  BY <1>1
<1> HIDE DEF U
<1>3. ASSUME NEW d \in Responders, NEW g \in Records PROVE Sound(F[d][g], N[d][g], d, g, U)
  <2>1. Sound(F[d][g], N[d][g], d, g, T)
    BY DEF ProbeOK
  <2> QED BY <1>2, <2>1 DEF Sound
<1>4. ASSUME NEW w \in Readers PROVE Fits(U[w], w, F[U[w].dev][U[w].asked])
  <2>1. CASE w = r
    BY <1>2, <2>1
  <2>2. CASE w # r
    <3>1. U[w] = T[w]
      BY <1>2, <2>2
    <3> QED BY <3>1 DEF ProbeOK
  <2> QED BY <2>1, <2>2
<1> QED BY <1>2, <1>3, <1>4 DEF ProbeOK, U

LEMMA RecordsGrow ==
  ASSUME NEW T, NEW F, NEW N, ProbeOK(T, F, N), NEW d \in Responders, NEW g \in Records,
         NEW h, Grows(F[d][g], h)
  PROVE  ProbeOK(T, [F EXCEPT ![d][g] = h], N)
<1> DEFINE G == [F EXCEPT ![d][g] = h]
<1>1. /\ T \in [Readers -> Requests] /\ F \in [Responders -> [Records -> Facts]]
      /\ N \in [Responders -> [Records -> 0 .. MaxSupportedSilentAttempts]]
  BY DEF ProbeOK
<1>2. h \in Facts
  BY DEF Grows
<1>3. /\ G \in [Responders -> [Records -> Facts]]
      /\ \A e \in Responders, k \in Records :
           G[e][k] = IF e = d /\ k = g THEN h ELSE F[e][k]
  BY <1>1, <1>2
<1>4. \A e \in Responders, k \in Records : F[e][k] \in Facts /\ N[e][k] \in 0 .. 2
  BY <1>1 DEF MaxSupportedSilentAttempts
<1> HIDE DEF G
<1>5. ASSUME NEW e \in Responders, NEW k \in Records PROVE Grows(F[e][k], G[e][k])
  <2>1. CASE e = d /\ k = g
    BY <1>3, <2>1
  <2>2. CASE ~(e = d /\ k = g)
    <3>1. G[e][k] = F[e][k]
      BY <1>3, <2>2
    <3>2. F[e][k].silent \in Nat
      BY <1>4 DEF Facts
    <3> QED BY <1>4, <3>1, <3>2 DEF Grows
  <2> QED BY <2>1, <2>2
<1>6. ASSUME NEW e \in Responders, NEW k \in Records PROVE Sound(G[e][k], N[e][k], e, k, T)
  <2>1. Sound(F[e][k], N[e][k], e, k, T)
    BY DEF ProbeOK
  <2>2. G[e][k] \in Facts /\ G[e][k].flight = F[e][k].flight
    BY <1>5 DEF Grows
  <2>3. SpendBy(G[e][k], N[e][k])
    <3>1. N[e][k] \in Nat
      BY <1>4
    <3> QED BY <1>4, <1>5, <2>1, <2>2, <3>1, GrownSpends DEF Sound
  <2> QED BY <2>1, <2>2, <2>3 DEF Sound
<1>7. ASSUME NEW w \in Readers PROVE Fits(T[w], w, G[T[w].dev][T[w].asked])
  <2>1. T[w] \in Requests /\ T[w].dev \in Responders /\ T[w].asked \in Records
    BY <1>1 DEF Requests
  <2>2. Fits(T[w], w, F[T[w].dev][T[w].asked])
    BY DEF ProbeOK
  <2>3. /\ Grows(F[T[w].dev][T[w].asked], G[T[w].dev][T[w].asked])
        /\ F[T[w].dev][T[w].asked] \in Facts /\ G[T[w].dev][T[w].asked] \in Facts
    BY <1>4, <1>5, <2>1 DEF Grows
  <2> QED BY <2>1, <2>2, <2>3, GrownTold
<1> QED BY <1>1, <1>3, <1>6, <1>7 DEF ProbeOK, G

LEMMA OutcomeGrows ==
  ASSUME NEW f \in Facts, NEW o \in Answers, NEW live \in BOOLEAN
  PROVE  Grows(f, RecordOutcome(f, o, live))
<1> DEFINE h == RecordOutcome(f, o, live)
<1> SUFFICES Grows(f, h)
  OBVIOUS
<1>1. f.silent \in 0 .. 2 /\ f.list \in Lists \cup {unknown}
  BY DEF Facts, MaxSupportedSilentAttempts
<1>2. o.said = "list" => o.pids \in Lists /\ o.pids # unknown
  BY ProbeAssumption DEF Answers, Lists
<1>3. CASE h = f
  BY <1>1, <1>3 DEF Grows
<1> DEFINE yes == TRUE
<1>4. CASE o.said = "list" /\ f.list = unknown /\ h = [f EXCEPT !.list = o.pids, !.attempted = TRUE]
  <2>1. h = [f EXCEPT !.list = o.pids, !.attempted = yes] /\ yes \in BOOLEAN /\ yes
    BY <1>4
  <2> HIDE DEF yes, h
  <2>2. h \in Facts
    BY <1>2, <1>4, <2>1 DEF Facts
  <2>3. h.list = o.pids /\ h.attempted = yes /\ h.flight = f.flight /\ h.silent = f.silent
    BY <2>1 DEF Facts
  <2>4. h.attempted
    BY <2>3 DEF yes
  <2>5. f.silent <= f.silent /\ h.list # unknown
    BY <1>1, <1>2, <1>4, <2>3
  <2> QED BY <2>2, <2>3, <2>4, <2>5 DEF Grows
<1>5. CASE h = [f EXCEPT !.attempted = TRUE]
  <2>1. h = [f EXCEPT !.attempted = yes] /\ yes \in BOOLEAN /\ yes
    BY <1>5
  <2> HIDE DEF yes, h
  <2>2. h \in Facts
    BY <2>1 DEF Facts
  <2>3. h.list = f.list /\ h.attempted = yes /\ h.flight = f.flight /\ h.silent = f.silent
    BY <2>1 DEF Facts
  <2>4. h.attempted
    BY <2>3 DEF yes
  <2>5. f.silent <= f.silent
    BY <1>1
  <2> QED BY <2>2, <2>3, <2>4, <2>5 DEF Grows
<1>6. CASE f.silent < 2 /\ h = [f EXCEPT !.silent = f.silent + 1]
  <2>1. f.silent + 1 \in 0 .. 2
    BY <1>1, <1>6
  <2> QED BY <1>1, <1>6, <2>1 DEF Grows, Facts, MaxSupportedSilentAttempts
<1> QED BY <1>3, <1>4, <1>5, <1>6 DEF RecordOutcome, Usable, MaxSupportedSilentAttempts

\* What ProbeOK says of one request and of one record.
LEMMA Parts ==
  ASSUME NEW T, NEW F, NEW N, ProbeOK(T, F, N)
  PROVE  /\ T \in [Readers -> Requests] /\ F \in [Responders -> [Records -> Facts]]
         /\ N \in [Responders -> [Records -> 0 .. 2]]
         /\ \A r \in Readers :
              /\ T[r] \in Requests /\ T[r].dev \in Responders /\ T[r].asked \in Records
              /\ Fits(T[r], r, F[T[r].dev][T[r].asked])
         /\ \A d \in Responders, g \in Records :
              /\ F[d][g] \in Facts /\ N[d][g] \in 0 .. 2
              /\ F[d][g].silent \in 0 .. 2 /\ F[d][g].flight \in Readers \cup {nobody}
              /\ Sound(F[d][g], N[d][g], d, g, T)
<1>1. /\ T \in [Readers -> Requests] /\ F \in [Responders -> [Records -> Facts]]
      /\ N \in [Responders -> [Records -> 0 .. 2]]
  BY DEF ProbeOK, MaxSupportedSilentAttempts
<1>2. \A r \in Readers : T[r] \in Requests /\ T[r].dev \in Responders /\ T[r].asked \in Records
  BY <1>1 DEF Requests
<1>3. \A d \in Responders, g \in Records :
        /\ F[d][g] \in Facts /\ N[d][g] \in 0 .. 2
        /\ F[d][g].silent \in 0 .. 2 /\ F[d][g].flight \in Readers \cup {nobody}
  BY <1>1 DEF Facts, MaxSupportedSilentAttempts
<1>4. /\ \A r \in Readers : Fits(T[r], r, F[T[r].dev][T[r].asked])
      /\ \A d \in Responders, g \in Records : Sound(F[d][g], N[d][g], d, g, T)
  BY DEF ProbeOK
<1> QED BY <1>1, <1>2, <1>3, <1>4

LEMMA LeadStarts ==
  ASSUME NEW T, NEW F, NEW N, ProbeOK(T, F, N), NEW r \in Readers, T[r].at = "resolve",
         NEW d \in Responders, ~MayNotAsk(F[d]["now"]), F[d]["now"].flight = nobody,
         NEW R \in Requests, LeadsFor(R, d, "now"),
         NEW f \in Facts, f = [F[d]["now"] EXCEPT !.flight = r]
  PROVE  ProbeOK([T EXCEPT ![r] = R], [F EXCEPT ![d]["now"] = f], N)
<1> DEFINE U == [T EXCEPT ![r] = R]
           G == [F EXCEPT ![d]["now"] = f]
           old == F[d]["now"]
<1>1. /\ T \in [Readers -> Requests] /\ F \in [Responders -> [Records -> Facts]]
      /\ N \in [Responders -> [Records -> 0 .. 2]] /\ "now" \in Records
  BY Parts DEF Records
<1>2. U \in [Readers -> Requests] /\ \A w \in Readers : U[w] = IF w = r THEN R ELSE T[w]
  BY <1>1
<1>3. /\ G \in [Responders -> [Records -> Facts]]
      /\ \A e \in Responders, k \in Records :
           G[e][k] = IF e = d /\ k = "now" THEN f ELSE F[e][k]
  BY <1>1
<1>4. old \in Facts /\ N[d]["now"] \in 0 .. 2 /\ Sound(old, N[d]["now"], d, "now", T)
  BY <1>1, Parts
<1>5. /\ f.flight = r /\ f.list = old.list /\ f.attempted = old.attempted
      /\ f.silent = old.silent /\ old.silent \in 0 .. 2
  BY <1>4 DEF Facts, MaxSupportedSilentAttempts
<1> HIDE DEF U, G, old
<1>6. SpendBy(f, N[d]["now"])
  <2>1. /\ N[d]["now"] <= old.silent /\ ~(old.silent >= 2)
    BY <1>4 DEF Sound, SpendBy, MayNotAsk, old, MaxSupportedSilentAttempts
  <2>2. N[d]["now"] <= 1
    BY <1>4, <1>5, <2>1
  <2> QED BY <1>5, <2>1, <2>2 DEF SpendBy
<1>7. ASSUME NEW e \in Responders, NEW k \in Records PROVE Sound(G[e][k], N[e][k], e, k, U)
  <2>1. CASE e = d /\ k = "now"
    <3>1. \A w \in Readers : f.flight = w => LeadsFor(U[w], d, "now")
      BY <1>2, <1>5
    <3> QED BY <1>3, <1>6, <2>1, <3>1 DEF Sound
  <2>2. CASE ~(e = d /\ k = "now")
    <3>1. G[e][k] = F[e][k] /\ Sound(F[e][k], N[e][k], e, k, T)
      BY <1>3, <2>2, Parts
    <3>2. ~LeadsFor(T[r], e, k)
      BY DEF LeadsFor
    <3>3. \A w \in Readers : G[e][k].flight = w => LeadsFor(U[w], e, k)
      BY <1>2, <3>1, <3>2 DEF Sound
    <3> QED BY <3>1, <3>3 DEF Sound
  <2> QED BY <2>1, <2>2
<1>8. ASSUME NEW w \in Readers PROVE Fits(U[w], w, G[U[w].dev][U[w].asked])
  <2>1. CASE w = r
    <3>1. U[w] = R /\ G[R.dev][R.asked] = f
      BY <1>1, <1>2, <1>3, <2>1 DEF LeadsFor
    <3>2. R.at = "leading"
      BY DEF LeadsFor
    <3> QED BY <1>5, <2>1, <3>1, <3>2 DEF Fits, ToldBy
  <2>2. CASE w # r
    <3>1. U[w] = T[w] /\ T[w] \in Requests /\ T[w].dev \in Responders /\ T[w].asked \in Records
      BY <1>2, <2>2, Parts
    <3>2. Fits(T[w], w, F[T[w].dev][T[w].asked])
      BY Parts
    <3>3. CASE T[w].dev = d /\ T[w].asked = "now"
      <4>1. Fits(T[w], w, old)
        BY <3>2, <3>3 DEF old
      <4>2. T[w].at # "leading"
        BY <4>1, ProbeAssumption DEF Fits, old
      <4>3. ToldBy(T[w], f)
        BY <1>5, <4>1 DEF Fits, ToldBy, Spoke
      <4>4. f.flight # nobody
        BY <1>5, ProbeAssumption
      <4>5. G[T[w].dev][T[w].asked] = f
        BY <1>3, <3>1, <3>3
      <4> QED BY <3>1, <3>2, <4>2, <4>3, <4>4, <4>5 DEF Fits
    <3>4. CASE ~(T[w].dev = d /\ T[w].asked = "now")
      BY <1>3, <3>1, <3>2, <3>4
    <3> QED BY <3>3, <3>4
  <2> QED BY <2>1, <2>2
<1> QED BY <1>1, <1>2, <1>3, <1>7, <1>8 DEF ProbeOK, U, G, MaxSupportedSilentAttempts

\* The end of a flight: its leader and its waiters have what the responder said.
Lands(T, F, N, r, d, g, o, f, h, n, U) ==
  /\ LeadsFor(T[r], d, g)
  /\ f = RecordOutcome(F[d][g], o, T[r].live)
  /\ h = [f EXCEPT !.flight = nobody]
  /\ n \in 0 .. 3
  /\ n = IF T[r].live /\ ~Usable(o) THEN N[d][g] + 1 ELSE N[d][g]
  /\ U \in [Readers -> Requests]
  /\ \A w \in Readers :
       \/ /\ w = r
          /\ U[w].at = "decide" /\ U[w].answer = f.list /\ U[w].cut = ~T[r].live
          /\ U[w].dev = d /\ U[w].asked = g
       \/ /\ w # r /\ T[w].at = "waiting" /\ T[w].dev = d /\ T[w].asked = g
          /\ U[w].at = "woken" /\ U[w].cut = ~(T[r].live /\ T[w].live)
          /\ U[w].dev = d /\ U[w].asked = g
       \/ /\ w # r /\ ~(T[w].at = "waiting" /\ T[w].dev = d /\ T[w].asked = g)
          /\ U[w] = T[w]

LEMMA FlightEnds ==
  ASSUME NEW T, NEW F, NEW N, ProbeOK(T, F, N), NEW r \in Readers, NEW o \in Answers,
         NEW d, NEW g, NEW f, NEW h, NEW n, NEW U, Lands(T, F, N, r, d, g, o, f, h, n, U)
  PROVE  ProbeOK(U, [F EXCEPT ![d][g] = h], [N EXCEPT ![d][g] = n])
<1>0. /\ LeadsFor(T[r], d, g)
      /\ f = RecordOutcome(F[d][g], o, T[r].live)
      /\ h = [f EXCEPT !.flight = nobody]
      /\ n \in 0 .. 3
      /\ n = IF T[r].live /\ ~Usable(o) THEN N[d][g] + 1 ELSE N[d][g]
      /\ U \in [Readers -> Requests]
      /\ \A w \in Readers :
           \/ /\ w = r
              /\ U[w].at = "decide" /\ U[w].answer = f.list /\ U[w].cut = ~T[r].live
              /\ U[w].dev = d /\ U[w].asked = g
           \/ /\ w # r /\ T[w].at = "waiting" /\ T[w].dev = d /\ T[w].asked = g
              /\ U[w].at = "woken" /\ U[w].cut = ~(T[r].live /\ T[w].live)
              /\ U[w].dev = d /\ U[w].asked = g
           \/ /\ w # r /\ ~(T[w].at = "waiting" /\ T[w].dev = d /\ T[w].asked = g)
              /\ U[w] = T[w]
  BY DEF Lands
<1> DEFINE old == F[d][g]
           G == [F EXCEPT ![d][g] = h]
           M == [N EXCEPT ![d][g] = n]
           live == T[r].live
<1>1. /\ T \in [Readers -> Requests] /\ F \in [Responders -> [Records -> Facts]]
      /\ N \in [Responders -> [Records -> 0 .. 2]]
      /\ d \in Responders /\ g \in Records /\ live \in BOOLEAN
  BY <1>0, Parts DEF LeadsFor, Requests
<1>2. /\ old \in Facts /\ old.silent \in 0 .. 2 /\ N[d][g] \in 0 .. 2
      /\ SpendBy(old, N[d][g]) /\ old.flight = r
  BY <1>0, <1>1, Parts DEF LeadsFor, Fits, Sound
<1>3. Grows(old, f) /\ f \in Facts
  BY <1>0, <1>1, <1>2, OutcomeGrows DEF Grows
<1>4. /\ h \in Facts /\ h.flight = nobody /\ h.list = f.list /\ h.silent = f.silent
      /\ h.attempted = f.attempted /\ f.silent \in 0 .. 2
  BY <1>0, <1>3 DEF Facts, MaxSupportedSilentAttempts
<1>5. N[d][g] <= 1
  BY <1>0, <1>2, ProbeAssumption DEF SpendBy
<1>6. n \in 0 .. 2 /\ n >= N[d][g]
  BY <1>0, <1>1, <1>2, <1>5
\* What a live answer leaves: a list, or a word, or a silence counted.
<1>7. live => f.list # unknown \/ Spoke(f)
  <2> SUFFICES ASSUME live PROVE f.list # unknown \/ Spoke(f)
    OBVIOUS
  <2>1. CASE old.list # unknown
    BY <1>0, <1>3, <2>1 DEF Grows
  <2>2. CASE old.list = unknown /\ o.said = "list"
    <3>1. f.list = o.pids /\ o.pids # unknown
      BY <1>0, <1>2, <2>2, ProbeAssumption DEF RecordOutcome, Usable, Facts, Answers, Lists
    <3> QED BY <1>0, <3>1
  <2>3. CASE old.list = unknown /\ o.said \in {"garbled", "refused"}
    <3>1. f.attempted
      BY <1>0, <1>2, <2>3 DEF RecordOutcome, Usable, Facts
    <3> QED BY <1>0, <3>1 DEF Spoke
  <2>4. CASE old.list = unknown /\ o.said = "silence"
    <3>1. f.silent > 0
      BY <1>0, <1>2, <2>4 DEF RecordOutcome, Usable, Facts, MaxSupportedSilentAttempts
    <3> QED BY <1>0, <3>1 DEF Spoke
  <2> QED BY <1>0, <2>1, <2>2, <2>3, <2>4 DEF Answers
<1>8. SpendBy(h, n)
  <2> SUFFICES ASSUME ~MayNotAsk(h) PROVE n <= h.silent
    BY <1>0, <1>4 DEF SpendBy
  <2>1. f.list = unknown /\ ~f.attempted /\ f.silent < 2
    BY <1>0, <1>4 DEF MayNotAsk, MaxSupportedSilentAttempts
  <2>2. old.list = unknown /\ ~old.attempted /\ old.silent <= f.silent
    BY <1>0, <1>3, <2>1 DEF Grows
  <2>3. N[d][g] <= old.silent
    BY <1>0, <1>2, <1>4, <2>1, <2>2 DEF SpendBy, MayNotAsk, MaxSupportedSilentAttempts
  <2>4. CASE live /\ ~Usable(o)
    <3>1. o.said \in {"garbled", "refused", "silence"}
      BY <1>0, <2>4 DEF Usable, Answers
    <3>2. f.silent = old.silent + 1
      <4>1. o.said = "garbled" => f.attempted
        BY <1>0, <1>2, <2>2 DEF RecordOutcome, Usable, Facts
      <4>2. o.said = "refused" => f.attempted
        BY <1>0, <1>2, <2>2, <2>4 DEF RecordOutcome, Usable, Facts
      <4>3. o.said = "silence" => f.silent = old.silent + 1
        BY <1>0, <1>2, <1>4, <2>1, <2>2, <2>4 DEF RecordOutcome, Usable, Facts, MaxSupportedSilentAttempts
      <4> QED BY <1>0, <2>1, <3>1, <4>1, <4>2, <4>3
    <3>3. n = N[d][g] + 1
      BY <1>0, <2>4
    <3> QED BY <1>0, <1>2, <1>4, <2>3, <3>2, <3>3
  <2>5. CASE ~(live /\ ~Usable(o))
    <3>1. n = N[d][g]
      BY <1>0, <2>5
    <3> QED BY <1>0, <1>2, <1>4, <2>2, <2>3, <3>1
  <2> QED BY <1>0, <2>4, <2>5
<1>9. /\ G \in [Responders -> [Records -> Facts]]
      /\ \A e \in Responders, k \in Records : G[e][k] = IF e = d /\ k = g THEN h ELSE F[e][k]
  BY <1>0, <1>1, <1>4
<1>10. /\ M \in [Responders -> [Records -> 0 .. 2]]
       /\ \A e \in Responders, k \in Records : M[e][k] = IF e = d /\ k = g THEN n ELSE N[e][k]
  BY <1>0, <1>1, <1>6
<1> HIDE DEF G, M, old, live
<1>11. ASSUME NEW e \in Responders, NEW k \in Records PROVE Sound(G[e][k], M[e][k], e, k, U)
  <2>1. CASE e = d /\ k = g
    <3>1. \A w \in Readers : h.flight # w
      BY <1>0, <1>4, ProbeAssumption
    <3> QED BY <1>0, <1>8, <1>9, <1>10, <2>1, <3>1 DEF Sound
  <2>2. CASE ~(e = d /\ k = g)
    <3>1. G[e][k] = F[e][k] /\ M[e][k] = N[e][k] /\ Sound(F[e][k], N[e][k], e, k, T)
      BY <1>0, <1>9, <1>10, <2>2, Parts
    <3>2. ASSUME NEW w \in Readers, G[e][k].flight = w PROVE LeadsFor(U[w], e, k)
      <4>1. LeadsFor(T[w], e, k)
        BY <1>0, <3>1, <3>2 DEF Sound
      <4>2. w # r /\ T[w].at # "waiting"
        BY <1>0, <2>2, <4>1 DEF LeadsFor
      <4> QED BY <1>0, <4>1, <4>2
    <3> QED BY <1>0, <3>1, <3>2 DEF Sound
  <2> QED BY <1>0, <2>1, <2>2
<1>12. ASSUME NEW w \in Readers PROVE Fits(U[w], w, G[U[w].dev][U[w].asked])
  <2>1. CASE U[w].at = "decide" /\ U[w].answer = f.list /\ U[w].cut = ~live
             /\ U[w].dev = d /\ U[w].asked = g
    <3>1. ~U[w].cut => live
      BY <1>0, <1>1, <2>1
    <3>2. Spoke(f) => Spoke(h)
      BY <1>0, <1>4 DEF Spoke
    <3>3. ToldBy(U[w], h)
      BY <1>0, <1>7, <2>1, <3>1, <3>2 DEF ToldBy
    <3> QED BY <1>0, <1>1, <1>9, <2>1, <3>3 DEF Fits
  <2>2. CASE U[w].at = "woken" /\ U[w].cut = ~(live /\ T[w].live) /\ U[w].dev = d /\ U[w].asked = g
    <3>1. ~U[w].cut => live
      BY <1>0, <1>1, <2>2
    <3>2. /\ Spoke(f) => Spoke(h)
          /\ h.list = f.list
      BY <1>0, <1>4 DEF Spoke
    <3>3. ToldBy(U[w], h)
      BY <1>0, <1>7, <2>2, <3>1, <3>2 DEF ToldBy
    <3> QED BY <1>0, <1>1, <1>9, <2>2, <3>3 DEF Fits
  <2>3. CASE w # r /\ ~(T[w].at = "waiting" /\ T[w].dev = d /\ T[w].asked = g) /\ U[w] = T[w]
    <3>1. T[w] \in Requests /\ T[w].dev \in Responders /\ T[w].asked \in Records
          /\ Fits(T[w], w, F[T[w].dev][T[w].asked])
      BY <1>0, Parts
    <3>2. CASE T[w].dev = d /\ T[w].asked = g
      <4>1. Fits(T[w], w, old)
        BY <1>0, <3>1, <3>2 DEF old
      <4>2. T[w].at # "leading" /\ T[w].at # "waiting"
        BY <1>0, <1>2, <2>3, <3>2, <4>1 DEF Fits
      <4>3. ToldBy(T[w], h)
        <5>1. Fits(T[w], w, f)
          BY <1>0, <1>2, <1>3, <3>1, <4>1, GrownTold
        <5> QED BY <1>0, <1>4, <5>1 DEF Fits, ToldBy, Spoke
      <4> QED BY <1>0, <1>9, <2>3, <3>1, <3>2, <4>2, <4>3 DEF Fits
    <3>3. CASE ~(T[w].dev = d /\ T[w].asked = g)
      BY <1>0, <1>9, <2>3, <3>1, <3>3
    <3> QED BY <1>0, <3>2, <3>3
  <2> QED BY <1>0, <2>1, <2>2, <2>3 DEF live
<1> QED BY <1>0, <1>6, <1>9, <1>10, <1>11, <1>12 DEF ProbeOK, G, M, MaxSupportedSilentAttempts

\* A request that neither asks nor has an answer to judge fits any record.
LEMMA QuietFits ==
  ASSUME NEW R, R.at \notin {"leading", "waiting", "woken", "decide"},
         R.at = "probing" => R.pid # nobody, NEW r, NEW f
  PROVE  Fits(R, r, f)
BY DEF Fits, ToldBy

LEMMA IdleRequest ==
  /\ Idle \in Requests /\ Idle.at = "idle"
  /\ Idle.held = "now" /\ Idle.asked = "now"
<1> DEFINE d0 == CHOOSE d \in Responders : TRUE
           yes == TRUE
           no == FALSE
<1>1. d0 \in Responders
  BY ProbeAssumption
<1>2. yes \in BOOLEAN /\ no \in BOOLEAN
  OBVIOUS
<1>3. Idle = [at |-> "idle", dev |-> d0, pid |-> nobody, held |-> "now", asked |-> "now",
              answer |-> unknown, live |-> yes, cut |-> no]
  BY DEF Idle
<1> HIDE DEF d0, yes, no
<1> QED BY <1>1, <1>2, <1>3 DEF Requests, Stages, Records

\* A request that leaves what nothing depends on.
LEMMA QuietMoves ==
  ASSUME NEW T, NEW F, NEW N, ProbeOK(T, F, N), NEW r \in Readers, NEW R \in Requests,
         T[r].at # "leading", R.at \notin {"leading", "waiting", "woken", "decide"},
         R.at = "probing" => R.pid # nobody
  PROVE  ProbeOK([T EXCEPT ![r] = R], F, N)
<1>1. Fits(R, r, F[R.dev][R.asked])
  BY QuietFits
<1>2. \A d \in Responders, g \in Records : LeadsFor(T[r], d, g) => LeadsFor(R, d, g)
  BY DEF LeadsFor
<1> QED BY <1>1, <1>2, OneMoves

LEMMA NothingKnown ==
  /\ NoFacts \in Facts /\ NoFacts.flight = nobody /\ 0 \in 0 .. MaxSupportedSilentAttempts
  /\ \A d, g, T : Sound(NoFacts, 0, d, g, T)
<1> DEFINE no == FALSE
           nothing == {}
<1>1. no \in BOOLEAN /\ nothing \in SUBSET Probes /\ 0 \in 0 .. 2
  OBVIOUS
<1>2. NoFacts = [list |-> unknown, attempted |-> no, silent |-> 0, flight |-> nobody,
                 refused |-> nothing]
  BY DEF NoFacts
<1> HIDE DEF no, nothing
<1>3. NoFacts \in Facts
  BY <1>1, <1>2 DEF Facts, MaxSupportedSilentAttempts
<1>4. NoFacts.flight = nobody /\ NoFacts.silent = 0
  BY <1>2
<1>5. SpendBy(NoFacts, 0)
  BY <1>4 DEF SpendBy
<1>6. \A r \in Readers : NoFacts.flight # r
  BY <1>4, ProbeAssumption
<1> QED BY <1>1, <1>3, <1>4, <1>5, <1>6 DEF Sound, MaxSupportedSilentAttempts

\* The record that nobody holds any more goes.
LEMMA CollectedKeeps ==
  ASSUME NEW T, NEW F, NEW N, ProbeOK(T, F, N)
  PROVE  ProbeOK(T, Collected(F, NoFacts, T), Collected(N, 0, T))
<1> DEFINE G == Collected(F, NoFacts, T)
           M == Collected(N, 0, T)
           Free(d) == ~\E r \in Readers : HoldsOld(T[r], d)
<1>1. /\ T \in [Readers -> Requests] /\ F \in [Responders -> [Records -> Facts]]
      /\ N \in [Responders -> [Records -> 0 .. 2]]
  BY Parts
<1>2. NoFacts \in Facts /\ 0 \in 0 .. 2
  BY NothingKnown DEF MaxSupportedSilentAttempts
<1>3. /\ G \in [Responders -> [Records -> Facts]]
      /\ \A d \in Responders, g \in Records :
           \/ Free(d) /\ g = "old" /\ G[d][g] = NoFacts
           \/ ~(Free(d) /\ g = "old") /\ G[d][g] = F[d][g]
  BY <1>1, <1>2 DEF Collected
<1>4. /\ M \in [Responders -> [Records -> 0 .. 2]]
      /\ \A d \in Responders, g \in Records :
           \/ Free(d) /\ g = "old" /\ M[d][g] = 0
           \/ ~(Free(d) /\ g = "old") /\ M[d][g] = N[d][g]
  BY <1>1, <1>2 DEF Collected
<1> HIDE DEF G, M
<1>5. ASSUME NEW d \in Responders, NEW g \in Records PROVE Sound(G[d][g], M[d][g], d, g, T)
  <2>1. CASE Free(d) /\ g = "old"
    <3>1. G[d][g] = NoFacts /\ M[d][g] = 0
      BY <1>3, <1>4, <2>1
    <3> QED BY <3>1, NothingKnown
  <2>2. CASE ~(Free(d) /\ g = "old")
    <3>1. G[d][g] = F[d][g] /\ M[d][g] = N[d][g]
      BY <1>3, <1>4, <2>2
    <3> QED BY <3>1, Parts
  <2> QED BY <2>1, <2>2
<1>6. ASSUME NEW w \in Readers PROVE Fits(T[w], w, G[T[w].dev][T[w].asked])
  <2>1. /\ T[w].dev \in Responders /\ T[w].asked \in Records
        /\ Fits(T[w], w, F[T[w].dev][T[w].asked])
    BY Parts
  <2>2. ~(Free(T[w].dev) /\ T[w].asked = "old")
    BY DEF HoldsOld
  <2>3. G[T[w].dev][T[w].asked] = F[T[w].dev][T[w].asked]
    BY <1>3, <2>1, <2>2
  <2> QED BY <2>1, <2>3
<1> QED BY <1>1, <1>3, <1>4, <1>5, <1>6 DEF ProbeOK, G, M, MaxSupportedSilentAttempts

LEMMA ForgottenRequest ==
  ASSUME NEW R \in Requests
  PROVE  /\ Forgotten(R) \in Requests /\ Forgotten(R).dev = R.dev /\ Forgotten(R).at = R.at
         /\ Forgotten(R).cut = R.cut /\ Forgotten(R).answer = R.answer
         /\ Forgotten(R).pid = R.pid
         /\ R.at \in {"leading", "waiting", "woken", "decide"} =>
              Forgotten(R).held = "old" /\ Forgotten(R).asked = "old"
<1>1. "old" \in Records
  BY DEF Records
<1>2. CASE R.at \in {"leading", "waiting", "woken", "decide"}
  <2>1. Forgotten(R) = [R EXCEPT !.held = "old", !.asked = "old"]
    BY <1>2 DEF Forgotten
  <2> QED BY <1>1, <2>1 DEF Requests
<1>3. CASE R.at = "resolve"
  <2>1. Forgotten(R) = [R EXCEPT !.held = "old"]
    BY <1>3 DEF Forgotten
  <2> QED BY <1>1, <1>3, <2>1 DEF Requests
<1>4. CASE R.at \notin {"leading", "waiting", "woken", "decide", "resolve"}
  <2>1. Forgotten(R) = R
    BY <1>4 DEF Forgotten
  <2> QED BY <1>4, <2>1
<1> QED BY <1>2, <1>3, <1>4

\* Whoever asked for the record of now asks for the one that was forgotten.
Forgets(T, F, N, ds, U, G, M) ==
  /\ \A d \in ds, r \in Readers : ~HoldsOld(T[r], d)
  /\ U = [r \in Readers |-> IF T[r].dev \in ds THEN Forgotten(T[r]) ELSE T[r]]
  /\ G = [d \in Responders |->
       IF d \in ds THEN [g \in Records |-> IF g = "now" THEN NoFacts ELSE F[d]["now"]]
       ELSE F[d]]
  /\ M = [d \in Responders |->
       IF d \in ds THEN [g \in Records |-> IF g = "now" THEN 0 ELSE N[d]["now"]]
       ELSE N[d]]

LEMMA ForgetKeeps ==
  ASSUME NEW T, NEW F, NEW N, ProbeOK(T, F, N), NEW ds \in SUBSET Responders,
         NEW U, NEW G, NEW M, Forgets(T, F, N, ds, U, G, M)
  PROVE  ProbeOK(U, G, M)
<1>0. /\ \A d \in ds, r \in Readers : ~HoldsOld(T[r], d)
      /\ U = [r \in Readers |-> IF T[r].dev \in ds THEN Forgotten(T[r]) ELSE T[r]]
      /\ G = [d \in Responders |->
           IF d \in ds THEN [g \in Records |-> IF g = "now" THEN NoFacts ELSE F[d]["now"]]
           ELSE F[d]]
      /\ M = [d \in Responders |->
           IF d \in ds THEN [g \in Records |-> IF g = "now" THEN 0 ELSE N[d]["now"]]
           ELSE N[d]]
  BY DEF Forgets
<1>1. /\ T \in [Readers -> Requests] /\ F \in [Responders -> [Records -> Facts]]
      /\ N \in [Responders -> [Records -> 0 .. 2]] /\ "now" \in Records
  BY Parts DEF Records
<1>2. NoFacts \in Facts /\ 0 \in 0 .. 2
  BY NothingKnown DEF MaxSupportedSilentAttempts
<1>3. /\ U \in [Readers -> Requests]
      /\ \A r \in Readers : /\ T[r].dev \in ds => U[r] = Forgotten(T[r])
                            /\ T[r].dev \notin ds => U[r] = T[r]
  BY <1>0, <1>1, ForgottenRequest
<1>4. /\ G \in [Responders -> [Records -> Facts]]
      /\ \A d \in Responders : d \notin ds => G[d] = F[d]
      /\ \A d \in ds : G[d]["now"] = NoFacts /\ G[d]["old"] = F[d]["now"]
  BY <1>0, <1>1, <1>2 DEF Records
<1>5. /\ M \in [Responders -> [Records -> 0 .. 2]]
      /\ \A d \in Responders : d \notin ds => M[d] = N[d]
      /\ \A d \in ds : M[d]["now"] = 0 /\ M[d]["old"] = N[d]["now"]
  BY <1>0, <1>1, <1>2 DEF Records
<1>6. ASSUME NEW d \in Responders, NEW g \in Records PROVE Sound(G[d][g], M[d][g], d, g, U)
  <2>1. CASE d \notin ds
    <3>1. G[d][g] = F[d][g] /\ M[d][g] = N[d][g] /\ Sound(F[d][g], N[d][g], d, g, T)
      BY <1>4, <1>5, <2>1, Parts
    <3>2. ASSUME NEW w \in Readers, LeadsFor(T[w], d, g) PROVE LeadsFor(U[w], d, g)
      BY <1>3, <2>1, <3>2 DEF LeadsFor
    <3> QED BY <3>1, <3>2 DEF Sound
  <2>2. CASE d \in ds /\ g = "now"
    <3>1. G[d][g] = NoFacts /\ M[d][g] = 0
      BY <1>4, <1>5, <2>2
    <3> QED BY <3>1, NothingKnown
  <2>3. CASE d \in ds /\ g = "old"
    <3>1. G[d][g] = F[d]["now"] /\ M[d][g] = N[d]["now"] /\ Sound(F[d]["now"], N[d]["now"], d, "now", T)
      BY <1>1, <1>4, <1>5, <2>3, Parts
    <3>2. ASSUME NEW w \in Readers, LeadsFor(T[w], d, "now") PROVE LeadsFor(U[w], d, g)
      <4>1. T[w].at = "leading" /\ T[w].dev = d /\ T[w] \in Requests
        BY <1>1, <3>2 DEF LeadsFor
      <4>2. U[w] = Forgotten(T[w])
        BY <1>3, <2>3, <4>1
      <4> QED BY <2>3, <4>1, <4>2, ForgottenRequest DEF LeadsFor
    <3> QED BY <3>1, <3>2 DEF Sound
  <2> QED BY <2>1, <2>2, <2>3 DEF Records
<1>7. ASSUME NEW w \in Readers PROVE Fits(U[w], w, G[U[w].dev][U[w].asked])
  <2>1. /\ T[w] \in Requests /\ T[w].dev \in Responders /\ T[w].asked \in Records
        /\ Fits(T[w], w, F[T[w].dev][T[w].asked]) /\ T[w].held \in Records
    BY Parts DEF Requests
  <2>2. CASE T[w].dev \notin ds
    BY <1>3, <1>4, <2>1, <2>2
  <2>3. CASE T[w].dev \in ds /\ T[w].at \notin {"leading", "waiting", "woken", "decide"}
    <3>1. /\ U[w].at \notin {"leading", "waiting", "woken", "decide"}
          /\ U[w].at = "probing" => U[w].pid # nobody
      BY <1>3, <2>1, <2>3, ForgottenRequest DEF Fits
    <3> QED BY <3>1, QuietFits
  <2>4. CASE T[w].dev \in ds /\ T[w].at \in {"leading", "waiting", "woken", "decide"}
    <3>1. T[w].asked = "now" /\ T[w].held = "now"
      BY <1>0, <2>1, <2>4 DEF HoldsOld, Records
    <3>2. /\ U[w].dev = T[w].dev /\ U[w].at = T[w].at /\ U[w].cut = T[w].cut
          /\ U[w].answer = T[w].answer /\ U[w].held = "old" /\ U[w].asked = "old"
          /\ U[w].pid = T[w].pid
      BY <1>3, <2>1, <2>4, ForgottenRequest
    <3>3. G[U[w].dev][U[w].asked] = F[T[w].dev][T[w].asked]
      BY <1>4, <2>4, <3>1, <3>2
    <3> QED BY <2>1, <3>1, <3>2, <3>3 DEF Fits, ToldBy
  <2> QED BY <2>2, <2>3, <2>4
<1> QED BY <1>3, <1>4, <1>5, <1>6, <1>7 DEF ProbeOK, MaxSupportedSilentAttempts

\* The invariant.
ProbeIInv == ProbeOK(reader, facts, spent) /\ blind = FALSE

LEMMA ProbeStarts ==
  ASSUME ProbeInit
  PROVE  ProbeIInv
<1>1. /\ facts \in [Responders -> [Records -> Facts]]
      /\ \A d \in Responders, g \in Records : facts[d][g] = NoFacts
  BY NothingKnown DEF ProbeInit
<1>2. /\ spent \in [Responders -> [Records -> 0 .. MaxSupportedSilentAttempts]]
      /\ \A d \in Responders, g \in Records : spent[d][g] = 0
  BY NothingKnown DEF ProbeInit
<1>3. reader \in [Readers -> Requests] /\ \A r \in Readers : reader[r].at = "idle"
  BY IdleRequest DEF ProbeInit
<1>4. \A r \in Readers : Fits(reader[r], r, facts[reader[r].dev][reader[r].asked])
  BY <1>3 DEF Fits, ToldBy
<1>5. \A d \in Responders, g \in Records : Sound(facts[d][g], spent[d][g], d, g, reader)
  BY <1>1, <1>2, NothingKnown
<1> QED BY <1>1, <1>2, <1>3, <1>4, <1>5 DEF ProbeIInv, ProbeOK, ProbeInit

LEMMA StepBegins ==
  ASSUME ProbeIInv, NEW r \in Readers, NEW d \in Responders,
         NEW first \in {"gate", "resolve", "info", "resetting"}, NEW pid \in Probes \cup {nobody},
         Begins(r, d, first, pid)
  PROVE  ProbeIInv'
<1> DEFINE R == [Idle EXCEPT !.dev = d, !.at = first, !.pid = pid]
<1>1. R \in Requests /\ R.at = first
  BY IdleRequest DEF Requests, Stages
<1>2. reader' = [reader EXCEPT ![r] = R] /\ facts' = facts /\ spent' = spent /\ blind' = blind
      /\ reader[r].at # "leading"
  BY DEF Begins, Goes
<1> HIDE DEF R
<1>3. ProbeOK([reader EXCEPT ![r] = R], facts, spent)
  BY <1>1, <1>2, QuietMoves DEF ProbeIInv
<1> QED BY <1>2, <1>3 DEF ProbeIInv

\* A request that ends, for whatever reason, unless it leads a flight.
LEMMA RequestEnds ==
  ASSUME NEW T, NEW F, NEW N, ProbeOK(T, F, N), NEW r \in Readers, T[r].at # "leading"
  PROVE  ProbeOK([T EXCEPT ![r] = Idle], F, N)
BY IdleRequest, QuietMoves

LEMMA StepCancelled ==
  ASSUME ProbeIInv, NEW r \in Readers, Cancelled(r)
  PROVE  ProbeIInv'
<1> DEFINE no == FALSE
           R == [reader[r] EXCEPT !.live = no]
<1>1. /\ reader[r] \in Requests
      /\ Fits(reader[r], r, facts[reader[r].dev][reader[r].asked])
  BY Parts DEF ProbeIInv
<1>2. no \in BOOLEAN /\ reader' = [reader EXCEPT ![r] = R]
      /\ facts' = facts /\ spent' = spent /\ blind' = blind
  BY DEF Cancelled, Goes
<1> HIDE DEF no
<1>3. /\ R \in Requests /\ R.at = reader[r].at /\ R.dev = reader[r].dev /\ R.held = reader[r].held
      /\ R.asked = reader[r].asked /\ R.answer = reader[r].answer /\ R.cut = reader[r].cut
      /\ R.pid = reader[r].pid
  BY <1>1, <1>2 DEF Requests
<1> HIDE DEF R
<1>4. Fits(R, r, facts[R.dev][R.asked])
  BY <1>1, <1>3 DEF Fits, ToldBy
<1>5. \A d \in Responders, g \in Records : LeadsFor(reader[r], d, g) => LeadsFor(R, d, g)
  BY <1>3 DEF LeadsFor
<1>6. ProbeOK([reader EXCEPT ![r] = R], facts, spent)
  BY <1>3, <1>4, <1>5, OneMoves DEF ProbeIInv
<1> QED BY <1>2, <1>6 DEF ProbeIInv

LEMMA StepGate ==
  ASSUME ProbeIInv, NEW r \in Readers, Gate(r)
  PROVE  ProbeIInv'
<1>1. /\ facts' = facts /\ spent' = spent /\ blind' = blind /\ reader[r].at = "gate"
      /\ \/ reader' = [reader EXCEPT ![r] = Idle]
         \/ reader' = [reader EXCEPT ![r] = [reader[r] EXCEPT !.at = "resolve", !.held = "now"]]
  BY DEF Gate, Done, Goes
<1>2. CASE reader' = [reader EXCEPT ![r] = Idle]
  BY <1>1, <1>2, RequestEnds DEF ProbeIInv
<1>3. CASE reader' = [reader EXCEPT ![r] = [reader[r] EXCEPT !.at = "resolve", !.held = "now"]]
  <2> DEFINE R == [reader[r] EXCEPT !.at = "resolve", !.held = "now"]
  <2>1. reader[r] \in Requests
    BY Parts DEF ProbeIInv
  <2>2. R \in Requests /\ R.at = "resolve"
    BY <2>1 DEF Requests, Stages, Records
  <2> HIDE DEF R
  <2>3. ProbeOK([reader EXCEPT ![r] = R], facts, spent)
    BY <1>1, <2>2, QuietMoves DEF ProbeIInv
  <2>4. reader' = [reader EXCEPT ![r] = R]
    BY <1>3 DEF R
  <2> QED BY <1>1, <2>3, <2>4 DEF ProbeIInv
<1> QED BY <1>1, <1>2, <1>3

LEMMA StepResolve ==
  ASSUME ProbeIInv, NEW r \in Readers, Resolve(r)
  PROVE  ProbeIInv'
<1> DEFINE d == reader[r].dev
           f == facts[d]["now"]
<1>1. /\ reader[r] \in Requests /\ d \in Responders /\ "now" \in Records
      /\ f \in Facts /\ f.silent \in 0 .. 2 /\ f.list \in Lists \cup {unknown}
  BY Parts DEF ProbeIInv, Records, Facts
<1>2. spent' = spent /\ blind' = blind /\ reader[r].at = "resolve"
  BY DEF Resolve
<1>3. CASE /\ MayNotAsk(f)
           /\ Goes(r, [reader[r] EXCEPT !.at = "decide", !.asked = "now", !.answer = f.list])
           /\ facts' = facts
  <2> DEFINE R == [reader[r] EXCEPT !.at = "decide", !.asked = "now", !.answer = f.list]
  <2>1. R \in Requests /\ R.at = "decide" /\ R.dev = d /\ R.asked = "now" /\ R.answer = f.list
    BY <1>1 DEF Requests, Stages
  <2>2. reader' = [reader EXCEPT ![r] = R]
    BY <1>3 DEF Goes
  <2> HIDE DEF R
  <2>3. f.list # unknown \/ Spoke(f)
    BY <1>1, <1>3 DEF MayNotAsk, Spoke, MaxSupportedSilentAttempts
  <2>4. Fits(R, r, facts[R.dev][R.asked])
    BY <2>1, <2>3 DEF Fits, ToldBy
  <2>5. \A e \in Responders, g \in Records : LeadsFor(reader[r], e, g) => LeadsFor(R, e, g)
    BY <1>2 DEF LeadsFor
  <2>6. ProbeOK([reader EXCEPT ![r] = R], facts, spent)
    BY <2>1, <2>4, <2>5, OneMoves DEF ProbeIInv
  <2> QED BY <1>2, <1>3, <2>2, <2>6 DEF ProbeIInv
<1>4. CASE /\ f.flight # nobody
           /\ Goes(r, [reader[r] EXCEPT !.at = "waiting", !.asked = "now"])
           /\ facts' = facts
  <2> DEFINE R == [reader[r] EXCEPT !.at = "waiting", !.asked = "now"]
  <2>1. R \in Requests /\ R.at = "waiting" /\ R.dev = d /\ R.asked = "now"
    BY <1>1 DEF Requests, Stages
  <2>2. reader' = [reader EXCEPT ![r] = R]
    BY <1>4 DEF Goes
  <2> HIDE DEF R
  <2>4. Fits(R, r, facts[R.dev][R.asked])
    BY <1>4, <2>1 DEF Fits, ToldBy
  <2>5. \A e \in Responders, g \in Records : LeadsFor(reader[r], e, g) => LeadsFor(R, e, g)
    BY <1>2 DEF LeadsFor
  <2>6. ProbeOK([reader EXCEPT ![r] = R], facts, spent)
    BY <2>1, <2>4, <2>5, OneMoves DEF ProbeIInv
  <2> QED BY <1>2, <1>4, <2>2, <2>6 DEF ProbeIInv
<1>5. CASE /\ ~MayNotAsk(f) /\ f.flight = nobody
           /\ Goes(r, [reader[r] EXCEPT !.at = "leading", !.asked = "now"])
           /\ facts' = [facts EXCEPT ![d]["now"].flight = r]
  <2> DEFINE R == [reader[r] EXCEPT !.at = "leading", !.asked = "now"]
             h == [f EXCEPT !.flight = r]
  <2>1. R \in Requests /\ LeadsFor(R, d, "now")
    BY <1>1 DEF Requests, Stages, LeadsFor
  <2>2. reader' = [reader EXCEPT ![r] = R]
    BY <1>5 DEF Goes
  <2>3. h \in Facts /\ h = [facts[d]["now"] EXCEPT !.flight = r]
    BY <1>1 DEF Facts
  <2>4. facts' = [facts EXCEPT ![d]["now"] = h]
    BY <1>5
  <2> HIDE DEF R, h
  <2>5. ProbeOK([reader EXCEPT ![r] = R], [facts EXCEPT ![d]["now"] = h], spent)
    BY <1>1, <1>2, <1>5, <2>1, <2>3, LeadStarts DEF ProbeIInv
  <2> QED BY <1>2, <2>2, <2>4, <2>5 DEF ProbeIInv
<1> QED BY <1>3, <1>4, <1>5 DEF Resolve, StateFor

LEMMA StepLeaderHears ==
  ASSUME ProbeIInv, NEW r \in Readers, LeaderHears(r)
  PROVE  ProbeIInv'
<1> DEFINE d == reader[r].dev
           g == reader[r].asked
           live == reader[r].live
<1>1. /\ reader \in [Readers -> Requests] /\ d \in Responders /\ g \in Records
      /\ facts \in [Responders -> [Records -> Facts]]
      /\ spent \in [Responders -> [Records -> 0 .. 2]]
      /\ facts[d][g] \in Facts /\ spent[d][g] \in 0 .. 2
      /\ LeadsFor(reader[r], d, g) /\ live \in BOOLEAN
  BY Parts DEF ProbeIInv, LeaderHears, LeadsFor, Requests
<1>2. PICK o \in Answers :
        LET f == Recorded(facts[d][g], o, live)
        IN /\ facts' = [facts EXCEPT ![d][g] = [f EXCEPT !.flight = nobody]]
           /\ reader' = [w \in Readers |->
                IF w = r THEN [reader[r] EXCEPT !.at = "decide", !.answer = f.list,
                                                !.live = TRUE, !.cut = ~live]
                ELSE IF w \in Waiting(d, FlightOf(r))
                THEN [reader[w] EXCEPT !.at = "woken", !.live = TRUE,
                                       !.cut = ~(live /\ reader[w].live)]
                ELSE reader[w]]
           /\ spent' = IF live /\ ~Usable(o) THEN Spends(d, g) ELSE spent
  BY DEF LeaderHears
<1> DEFINE f == RecordOutcome(facts[d][g], o, live)
           h == [f EXCEPT !.flight = nobody]
           n == IF live /\ ~Usable(o) THEN spent[d][g] + 1 ELSE spent[d][g]
           yes == TRUE
<1>3. f \in Facts /\ f.list \in Lists \cup {unknown}
  <2>1. Grows(facts[d][g], f)
    BY <1>1, OutcomeGrows
  <2>2. f \in Facts
    BY <2>1 DEF Grows
  <2> QED BY <2>2 DEF Facts
<1>4. facts' = [facts EXCEPT ![d][g] = h]
  BY <1>2 DEF Recorded
<1>5. n \in 0 .. 3 /\ spent' = [spent EXCEPT ![d][g] = n]
  <2>1. CASE live /\ ~Usable(o)
    <3>1. n = spent[d][g] + 1
      BY <2>1
    <3>2. spent' = Spends(d, g)
      BY <1>2, <2>1
    <3>3. ~(spent[d][g] > MaxSupportedSilentAttempts)
      BY <1>1 DEF MaxSupportedSilentAttempts
    <3>4. spent' = [spent EXCEPT ![d][g] = spent[d][g] + 1]
      BY <3>2, <3>3 DEF Spends
    <3>5. n \in 0 .. 3
      BY <1>1, <3>1
    <3> HIDE DEF n
    <3>6. spent' = [spent EXCEPT ![d][g] = n]
      BY <3>1, <3>4
    <3> QED BY <3>5, <3>6
  <2>2. CASE ~(live /\ ~Usable(o))
    <3>1. n = spent[d][g] /\ spent' = spent
      BY <1>2, <2>2
    <3>2. [spent EXCEPT ![d][g] = spent[d][g]] = spent
      BY <1>1
    <3>3. n \in 0 .. 3
      BY <1>1, <3>1
    <3> HIDE DEF n
    <3>4. spent' = [spent EXCEPT ![d][g] = n]
      BY <3>1, <3>2
    <3> QED BY <3>3, <3>4
  <2> QED BY <2>1, <2>2
<1> DEFINE U == reader'
<1>6. U = [w \in Readers |->
            IF w = r THEN [reader[r] EXCEPT !.at = "decide", !.answer = f.list,
                                            !.live = yes, !.cut = ~live]
            ELSE IF w \in Waiting(d, g)
            THEN [reader[w] EXCEPT !.at = "woken", !.live = yes, !.cut = ~(live /\ reader[w].live)]
            ELSE reader[w]]
  BY <1>2 DEF Recorded, FlightOf
<1>7. yes \in BOOLEAN
  OBVIOUS
<1> HIDE DEF f, h, n, U, yes, live
<1>8. ASSUME NEW w \in Readers
      PROVE  /\ U[w] \in Requests
             /\ \/ /\ w = r
                   /\ U[w].at = "decide" /\ U[w].answer = f.list /\ U[w].cut = ~live
                   /\ U[w].dev = d /\ U[w].asked = g
                \/ /\ w # r /\ reader[w].at = "waiting" /\ reader[w].dev = d /\ reader[w].asked = g
                   /\ U[w].at = "woken" /\ U[w].cut = ~(live /\ reader[w].live)
                   /\ U[w].dev = d /\ U[w].asked = g
                \/ /\ w # r
                   /\ ~(reader[w].at = "waiting" /\ reader[w].dev = d /\ reader[w].asked = g)
                   /\ U[w] = reader[w]
  <2>1. reader[w] \in Requests
    BY <1>1
  <2>2. CASE w = r
    <3> DEFINE c == ~live
    <3>1. c \in BOOLEAN
      BY <1>1 DEF live
    <3>2. U[w] = [reader[w] EXCEPT !.at = "decide", !.answer = f.list, !.live = yes, !.cut = c]
      BY <1>6, <2>2
    <3> HIDE DEF c
    <3>3. /\ U[w] \in Requests /\ U[w].at = "decide" /\ U[w].answer = f.list /\ U[w].cut = c
          /\ U[w].dev = reader[w].dev /\ U[w].asked = reader[w].asked
      BY <1>3, <1>7, <2>1, <3>1, <3>2 DEF Requests, Stages
    <3>4. U[w].cut = ~live
      BY <3>3 DEF c
    <3> QED BY <2>2, <3>3, <3>4
  <2>3. CASE w # r /\ reader[w].at = "waiting" /\ reader[w].dev = d /\ reader[w].asked = g
    <3> DEFINE c == ~(live /\ reader[w].live)
    <3>1. c \in BOOLEAN
      OBVIOUS
    <3>2. w \in Waiting(d, g)
      BY <2>3 DEF Waiting
    <3>3. U[w] = [reader[w] EXCEPT !.at = "woken", !.live = yes, !.cut = c]
      BY <1>6, <2>3, <3>2
    <3> HIDE DEF c
    <3>4. /\ U[w] \in Requests /\ U[w].at = "woken" /\ U[w].cut = c
          /\ U[w].dev = reader[w].dev /\ U[w].asked = reader[w].asked
      BY <1>7, <2>1, <3>1, <3>3 DEF Requests, Stages
    <3>5. U[w].cut = ~(live /\ reader[w].live)
      BY <3>4 DEF c
    <3> QED BY <2>3, <3>4, <3>5
  <2>4. CASE w # r /\ ~(reader[w].at = "waiting" /\ reader[w].dev = d /\ reader[w].asked = g)
    <3>1. w \notin Waiting(d, g)
      BY <2>4 DEF Waiting
    <3>2. U[w] = reader[w]
      BY <1>6, <2>4, <3>1
    <3> QED BY <2>1, <2>4, <3>2
  <2> QED BY <2>2, <2>3, <2>4
<1>9. U \in [Readers -> Requests]
  <2>1. \A w \in Readers : U[w] \in Requests
    BY <1>8
  <2> QED BY <1>6, <2>1
<1>10. ProbeOK(U, [facts EXCEPT ![d][g] = h], [spent EXCEPT ![d][g] = n])
  <2>1. n = IF reader[r].live /\ ~Usable(o) THEN spent[d][g] + 1 ELSE spent[d][g]
    BY DEF n, live
  <2>2. f = RecordOutcome(facts[d][g], o, reader[r].live)
    BY DEF f, live
  <2>3. h = [f EXCEPT !.flight = nobody]
    BY DEF h
  <2>4. ProbeOK(reader, facts, spent)
    BY DEF ProbeIInv
  <2>5. \A w \in Readers :
          \/ /\ w = r
             /\ U[w].at = "decide" /\ U[w].answer = f.list /\ U[w].cut = ~reader[r].live
             /\ U[w].dev = d /\ U[w].asked = g
          \/ /\ w # r /\ reader[w].at = "waiting" /\ reader[w].dev = d /\ reader[w].asked = g
             /\ U[w].at = "woken" /\ U[w].cut = ~(reader[r].live /\ reader[w].live)
             /\ U[w].dev = d /\ U[w].asked = g
          \/ /\ w # r /\ ~(reader[w].at = "waiting" /\ reader[w].dev = d /\ reader[w].asked = g)
             /\ U[w] = reader[w]
    BY <1>8 DEF live
  <2>6. LeadsFor(reader[r], d, g) /\ n \in 0 .. 3
    BY <1>1, <1>5
  <2> HIDE DEF d, g
  <2>7. Lands(reader, facts, spent, r, d, g, o, f, h, n, U)
    BY <1>9, <2>1, <2>2, <2>3, <2>5, <2>6 DEF Lands
  <2> QED BY <2>4, <2>7, FlightEnds
<1>11. blind' = blind
  BY DEF LeaderHears
<1> QED BY <1>4, <1>5, <1>10, <1>11 DEF ProbeIInv, U

LEMMA StepWakes ==
  ASSUME ProbeIInv, NEW r \in Readers, Wakes(r)
  PROVE  ProbeIInv'
<1> DEFINE yes == TRUE
           f == facts[reader[r].dev][reader[r].asked]
<1>1. /\ reader[r] \in Requests /\ f \in Facts /\ f.list \in Lists \cup {unknown}
      /\ Fits(reader[r], r, f) /\ yes \in BOOLEAN
  BY Parts DEF ProbeIInv, Facts
<1>2. facts' = facts /\ spent' = spent /\ blind' = blind /\ reader[r].at # "leading"
  BY DEF Wakes
<1> HIDE DEF yes
<1>3. CASE reader[r].at = "woken" /\ Goes(r, [reader[r] EXCEPT !.at = "decide", !.answer = f.list])
  <2> DEFINE R == [reader[r] EXCEPT !.at = "decide", !.answer = f.list]
  <2>1. /\ R \in Requests /\ R.at = "decide" /\ R.answer = f.list /\ R.dev = reader[r].dev
        /\ R.held = reader[r].held /\ R.asked = reader[r].asked /\ R.cut = reader[r].cut
    BY <1>1 DEF Requests, Stages
  <2>2. reader' = [reader EXCEPT ![r] = R]
    BY <1>3 DEF Goes
  <2> HIDE DEF R
  <2>3. Fits(R, r, facts[R.dev][R.asked])
    BY <1>1, <1>3, <2>1 DEF Fits, ToldBy
  <2>4. \A e \in Responders, g \in Records : LeadsFor(reader[r], e, g) => LeadsFor(R, e, g)
    BY <1>2 DEF LeadsFor
  <2>5. ProbeOK([reader EXCEPT ![r] = R], facts, spent)
    BY <2>1, <2>3, <2>4, OneMoves DEF ProbeIInv
  <2> QED BY <1>2, <2>2, <2>5 DEF ProbeIInv
<1>4. CASE Goes(r, [reader[r] EXCEPT !.at = "decide", !.live = yes, !.cut = yes])
  <2> DEFINE R == [reader[r] EXCEPT !.at = "decide", !.live = yes, !.cut = yes]
  <2>1. R \in Requests /\ R.at = "decide" /\ R.cut = yes
    BY <1>1 DEF Requests, Stages
  <2>2. reader' = [reader EXCEPT ![r] = R]
    BY <1>4 DEF Goes
  <2> HIDE DEF R
  <2>3. R.cut
    BY <2>1 DEF yes
  <2>4. Fits(R, r, facts[R.dev][R.asked])
    BY <2>1, <2>3 DEF Fits, ToldBy
  <2>5. \A e \in Responders, g \in Records : LeadsFor(reader[r], e, g) => LeadsFor(R, e, g)
    BY <1>2 DEF LeadsFor
  <2>6. ProbeOK([reader EXCEPT ![r] = R], facts, spent)
    BY <2>1, <2>4, <2>5, OneMoves DEF ProbeIInv
  <2> QED BY <1>2, <2>2, <2>6 DEF ProbeIInv
<1> QED BY <1>3, <1>4 DEF Wakes, Asked, yes

\* A request that decides to ask knows of its device what the invariant says.
LEMMA StepDecide ==
  ASSUME ProbeIInv, NEW r \in Readers, Decide(r)
  PROVE  ProbeIInv'
<1> DEFINE R == reader[r]
           f == facts[R.dev][R.asked]
<1>1. R \in Requests /\ f \in Facts /\ f.silent \in 0 .. 2 /\ Fits(R, r, f) /\ R.at = "decide"
  BY Parts DEF ProbeIInv, Decide
<1>2. /\ \/ reader' = [reader EXCEPT ![r] = Idle] /\ blind' = blind
         \/ /\ reader' = [reader EXCEPT ![r] = Probing(reader[r])]
            /\ blind' = (blind \/ Unexplained(r))
            /\ R.answer = unknown => ~Silent(Held(r))
            /\ R.pid # nobody
      /\ facts' = Collected(facts, NoFacts, reader')
      /\ spent' = Collected(spent, 0, reader')
  BY DEF Decide, Done
<1>3. ProbeOK(reader', facts, spent) /\ blind' = FALSE
  <2>1. CASE reader' = [reader EXCEPT ![r] = Idle] /\ blind' = blind
    BY <1>1, <2>1, RequestEnds DEF ProbeIInv
  <2>2. CASE /\ reader' = [reader EXCEPT ![r] = Probing(reader[r])]
             /\ blind' = (blind \/ Unexplained(r))
             /\ R.answer = unknown => ~Silent(Held(r))
             /\ R.pid # nobody
    <3> DEFINE P == Probing(R)
    <3>1. P \in Requests /\ P.at = "probing" /\ P.pid # nobody
      BY <1>1, <2>2, IdleRequest DEF Probing, Requests, Stages
    <3> HIDE DEF P
    <3>2. ProbeOK([reader EXCEPT ![r] = P], facts, spent)
      BY <1>1, <3>1, QuietMoves DEF ProbeIInv
    <3>3. ASSUME Unexplained(r) PROVE FALSE
      <4>1. Held(r) = f /\ ~f.attempted /\ R.answer = unknown /\ R.held = R.asked /\ ~R.cut
        BY <3>3 DEF Unexplained, Held
      <4>2. Spoke(f)
        BY <1>1, <4>1 DEF Fits, ToldBy
      <4> QED BY <2>2, <4>1, <4>2 DEF Spoke, Silent
    <3>4. blind = FALSE
      BY DEF ProbeIInv
    <3> QED BY <2>2, <3>2, <3>3, <3>4 DEF P
  <2> QED BY <1>2, <2>1, <2>2
<1>4. ProbeOK(reader', Collected(facts, NoFacts, reader'), Collected(spent, 0, reader'))
  BY <1>3, CollectedKeeps
<1> QED BY <1>2, <1>3, <1>4 DEF ProbeIInv

LEMMA StepProbeEnds ==
  ASSUME ProbeIInv, NEW r \in Readers, ProbeEnds(r)
  PROVE  ProbeIInv'
<1> DEFINE d == reader[r].dev
           f == facts[d]["now"]
           h == [f EXCEPT !.refused = @ \cup {reader[r].pid}]
<1>1. /\ reader[r] \in Requests /\ d \in Responders /\ "now" \in Records /\ f \in Facts
      /\ f.silent \in 0 .. 2 /\ reader[r].pid \in Probes
  <2>1. /\ reader[r] \in Requests /\ d \in Responders /\ "now" \in Records
        /\ Fits(reader[r], r, facts[d][reader[r].asked])
    BY Parts DEF ProbeIInv, Records
  <2>2. f \in Facts /\ f.silent \in 0 .. 2
    BY <2>1, Parts DEF ProbeIInv
  <2>3. reader[r].pid \in Probes
    BY <2>1 DEF ProbeEnds, Fits, Requests
  <2> QED BY <2>1, <2>2, <2>3
<1>2. /\ reader' = [reader EXCEPT ![r] = Idle] /\ spent' = spent /\ blind' = blind
      /\ reader[r].at # "leading"
      /\ facts' = facts \/ facts' = [facts EXCEPT ![d]["now"].refused = @ \cup {reader[r].pid}]
  BY DEF ProbeEnds, Done
<1>3. CASE facts' = facts
  BY <1>2, <1>3, RequestEnds DEF ProbeIInv
<1>4. CASE facts' = [facts EXCEPT ![d]["now"].refused = @ \cup {reader[r].pid}]
  <2>1. facts' = [facts EXCEPT ![d]["now"] = h]
    BY <1>4
  <2>2. h \in Facts /\ h.flight = f.flight /\ h.list = f.list /\ h.attempted = f.attempted
        /\ h.silent = f.silent
    BY <1>1, <1>4 DEF Facts
  <2>3. Grows(f, h)
    BY <1>1, <2>2 DEF Grows
  <2> HIDE DEF h, f
  <2>4. ProbeOK(reader, [facts EXCEPT ![d]["now"] = h], spent)
    BY <1>1, <2>3, RecordsGrow DEF ProbeIInv, f
  <2>5. ProbeOK([reader EXCEPT ![r] = Idle], [facts EXCEPT ![d]["now"] = h], spent)
    BY <1>2, <2>4, RequestEnds
  <2> QED BY <1>2, <2>1, <2>5 DEF ProbeIInv
<1> QED BY <1>2, <1>3, <1>4

LEMMA StepCoreInfo ==
  ASSUME ProbeIInv, NEW r \in Readers, CoreInfo(r)
  PROVE  ProbeIInv'
<1>1. /\ facts' = facts /\ spent' = spent /\ blind' = blind /\ reader[r].at = "info"
      /\ \/ reader' = [reader EXCEPT ![r] = Idle]
         \/ reader' = [reader EXCEPT ![r] = [reader[r] EXCEPT !.at = "listing"]]
  BY DEF CoreInfo, Done, Goes
<1>2. CASE reader' = [reader EXCEPT ![r] = Idle]
  BY <1>1, <1>2, RequestEnds DEF ProbeIInv
<1>3. CASE reader' = [reader EXCEPT ![r] = [reader[r] EXCEPT !.at = "listing"]]
  <2> DEFINE R == [reader[r] EXCEPT !.at = "listing"]
  <2>1. reader[r] \in Requests
    BY Parts DEF ProbeIInv
  <2>2. R \in Requests /\ R.at = "listing"
    BY <2>1 DEF Requests, Stages
  <2> HIDE DEF R
  <2>3. ProbeOK([reader EXCEPT ![r] = R], facts, spent)
    BY <1>1, <2>2, QuietMoves DEF ProbeIInv
  <2>4. reader' = [reader EXCEPT ![r] = R]
    BY <1>3 DEF R
  <2> QED BY <1>1, <2>3, <2>4 DEF ProbeIInv
<1> QED BY <1>1, <1>2, <1>3

LEMMA StepCoreListing ==
  ASSUME ProbeIInv, NEW r \in Readers, CoreListing(r)
  PROVE  ProbeIInv'
<1> DEFINE d == reader[r].dev
           f == facts[d]["now"]
           R == [reader[r] EXCEPT !.at = "gate"]
<1>1. /\ reader[r] \in Requests /\ d \in Responders /\ "now" \in Records /\ f \in Facts
      /\ reader[r].live \in BOOLEAN /\ reader[r].at = "listing"
      /\ spent' = spent /\ blind' = blind
  BY Parts DEF ProbeIInv, Records, CoreListing, Requests
<1>2. R \in Requests /\ R.at = "gate"
  BY <1>1 DEF Requests, Stages
<1>3. \/ reader' = [reader EXCEPT ![r] = Idle] /\ facts' = facts
      \/ \E o \in Answers :
           /\ facts' = [facts EXCEPT ![d]["now"] = RecordOutcome(f, o, reader[r].live)]
           /\ \/ reader' = [reader EXCEPT ![r] = Idle]
              \/ reader' = [reader EXCEPT ![r] = R]
  BY DEF CoreListing, Done, Goes, Recorded
<1> HIDE DEF R
<1>4. CASE reader' = [reader EXCEPT ![r] = Idle] /\ facts' = facts
  BY <1>1, <1>4, RequestEnds DEF ProbeIInv
<1>5. ASSUME NEW o \in Answers,
             facts' = [facts EXCEPT ![d]["now"] = RecordOutcome(f, o, reader[r].live)],
             \/ reader' = [reader EXCEPT ![r] = Idle]
             \/ reader' = [reader EXCEPT ![r] = R]
      PROVE  ProbeIInv'
  <2> DEFINE h == RecordOutcome(f, o, reader[r].live)
  <2>1. Grows(f, h)
    BY <1>1, OutcomeGrows
  <2>2. facts' = [facts EXCEPT ![d]["now"] = h]
    BY <1>5
  <2> HIDE DEF h
  <2>3. ProbeOK(reader, facts', spent)
    BY <1>1, <2>1, <2>2, RecordsGrow DEF ProbeIInv
  <2>4. ProbeOK([reader EXCEPT ![r] = Idle], facts', spent)
    BY <1>1, <2>3, RequestEnds
  <2>5. ProbeOK([reader EXCEPT ![r] = R], facts', spent)
    BY <1>1, <1>2, <2>3, QuietMoves
  <2> QED BY <1>1, <1>5, <2>4, <2>5 DEF ProbeIInv
<1> QED BY <1>3, <1>4, <1>5

\* A reset replaces the record under the requests that hold it.
LEMMA RecordReplaced ==
  ASSUME ProbeIInv, NEW ds \in SUBSET Responders, NEW T, ProbeOK(T, facts, spent),
         ForgetDevice(ds, T), blind' = blind
  PROVE  ProbeIInv'
<1> DEFINE U == [r \in Readers |-> IF T[r].dev \in ds THEN Forgotten(T[r]) ELSE T[r]]
           G == [d \in Responders |->
             IF d \in ds THEN [g \in Records |-> IF g = "now" THEN NoFacts ELSE facts[d]["now"]]
             ELSE facts[d]]
           M == [d \in Responders |->
             IF d \in ds THEN [g \in Records |-> IF g = "now" THEN 0 ELSE spent[d]["now"]]
             ELSE spent[d]]
<1>1. /\ \A d \in ds, r \in Readers : ~HoldsOld(T[r], d)
      /\ reader' = U
      /\ facts' = Collected(G, NoFacts, U)
      /\ spent' = Collected(M, 0, U)
  BY DEF ForgetDevice
<1> HIDE DEF U, G, M
<1>2. ProbeOK(U, G, M)
  <2>1. U = [r \in Readers |-> IF T[r].dev \in ds THEN Forgotten(T[r]) ELSE T[r]]
    BY DEF U
  <2>2. G = [d \in Responders |->
          IF d \in ds THEN [g \in Records |-> IF g = "now" THEN NoFacts ELSE facts[d]["now"]]
          ELSE facts[d]]
    BY DEF G
  <2>3. M = [d \in Responders |->
          IF d \in ds THEN [g \in Records |-> IF g = "now" THEN 0 ELSE spent[d]["now"]]
          ELSE spent[d]]
    BY DEF M
  <2>4. Forgets(T, facts, spent, ds, U, G, M)
    BY <1>1, <2>1, <2>2, <2>3 DEF Forgets
  <2> QED BY <2>4, ForgetKeeps
<1>3. ProbeOK(U, Collected(G, NoFacts, U), Collected(M, 0, U))
  BY <1>2, CollectedKeeps
<1> QED BY <1>1, <1>3 DEF ProbeIInv

LEMMA StepReset ==
  ASSUME ProbeIInv, NEW r \in Readers, Reset(r)
  PROVE  ProbeIInv'
<1>1. reader[r].at = "resetting" /\ blind' = blind /\ reader[r].dev \in Responders
  BY Parts DEF Reset, ProbeIInv
<1>2. ProbeOK([reader EXCEPT ![r] = Idle], facts, spent)
  BY <1>1, RequestEnds DEF ProbeIInv
<1>3. CASE Done(r) /\ facts' = facts /\ spent' = spent
  BY <1>1, <1>2, <1>3 DEF ProbeIInv, Done
<1>4. CASE ForgetDevice({reader[r].dev}, [reader EXCEPT ![r] = Idle])
  <2>1. {reader[r].dev} \in SUBSET Responders
    BY <1>1
  <2> QED BY <1>1, <1>2, <1>4, <2>1, RecordReplaced
<1> QED BY <1>3, <1>4 DEF Reset

LEMMA ProbeStep ==
  ASSUME ProbeIInv, [ProbeNext]_probeVars
  PROVE  ProbeIInv'
<1>1. CASE UNCHANGED probeVars
  BY <1>1 DEF probeVars, ProbeIInv
<1>2. ASSUME NEW r \in Readers, ReaderStep(r) PROVE ProbeIInv'
  BY <1>2, StepGate, StepResolve, StepLeaderHears, StepWakes, StepDecide, StepProbeEnds,
     StepCoreInfo, StepCoreListing, StepReset DEF ReaderStep
<1>3. ASSUME NEW r \in Readers,
             GetServiceLife(r) \/ GetActions(r) \/ ReadCoreIdentity(r) \/ BeginReset(r)
      PROVE  ProbeIInv'
  BY <1>3, StepBegins DEF GetServiceLife, GetActions, ReadCoreIdentity, BeginReset
<1>4. CASE ClearAllDeviceState
  <2>1. Responders \in SUBSET Responders
    OBVIOUS
  <2>2. ForgetDevice(Responders, reader) /\ blind' = blind /\ ProbeOK(reader, facts, spent)
    BY <1>4 DEF ClearAllDeviceState, ProbeIInv
  <2> QED BY <2>1, <2>2, RecordReplaced
<1> QED BY <1>1, <1>2, <1>3, <1>4, StepCancelled DEF ProbeNext

LEMMA LeadersAgree ==
  ASSUME ProbeIInv
  PROVE  OneLeaderPerRecord
<1> SUFFICES ASSUME NEW d \in Responders, NEW g \in Records
             PROVE  LET leaders == {r \in Readers : reader[r].at = "leading" /\ reader[r].dev = d
                                                    /\ reader[r].asked = g}
                    IN /\ Cardinality(leaders) =< 1
                       /\ (facts[d][g].flight # nobody) = (leaders # {})
                       /\ Waiting(d, g) # {} => leaders # {}
  BY DEF OneLeaderPerRecord
<1> DEFINE leaders == {r \in Readers : reader[r].at = "leading" /\ reader[r].dev = d
                                       /\ reader[r].asked = g}
           f == facts[d][g]
<1>1. /\ f.flight \in Readers \cup {nobody}
      /\ \A r \in Readers : f.flight = r => r \in leaders
  BY Parts DEF ProbeIInv, Sound, LeadsFor
<1>2. \A r \in leaders : f.flight = r
  BY Parts DEF ProbeIInv, Fits
<1>3. \A r \in Waiting(d, g) : f.flight # nobody
  BY Parts DEF ProbeIInv, Fits, Waiting
<1> HIDE DEF leaders, f
<1>4. leaders \subseteq Readers
  BY DEF leaders
<1>5. CASE f.flight = nobody
  <2>1. leaders = {}
    BY <1>2, <1>4, <1>5, ProbeAssumption
  <2>2. Cardinality(leaders) = 0
    BY <2>1, FS_EmptySet
  <2> QED BY <1>3, <1>5, <2>1, <2>2 DEF leaders, f
<1>6. CASE f.flight \in Readers
  <2>1. leaders = {f.flight} /\ f.flight # nobody
    BY <1>1, <1>2, <1>6, ProbeAssumption
  <2>2. Cardinality(leaders) = 1
    BY <2>1, FS_Singleton
  <2>3. /\ Cardinality(leaders) =< 1
        /\ (f.flight # nobody) = (leaders # {})
        /\ Waiting(d, g) # {} => leaders # {}
    BY <2>1, <2>2
  <2> QED BY <2>3 DEF leaders, f
<1> QED BY <1>1, <1>5, <1>6

\* In every behaviour of the gate, for any number of requests and of responders,
\* resets included: a flight has its leader, a record that says nothing is asked
\* twice at most, and no probe goes out blind (params/client.go, ensureAdvertised).
THEOREM ProbesAreExplained ==
  ProbeInit /\ [][ProbeNext]_probeVars => []ProbeInvariant
<1>1. ProbeInit => ProbeIInv
  BY ProbeStarts
<1>2. ProbeIInv /\ [ProbeNext]_probeVars => ProbeIInv'
  BY ProbeStep
<1>3. ProbeIInv => ProbeInvariant
  <2> SUFFICES ASSUME ProbeIInv PROVE ProbeInvariant
    OBVIOUS
  <2>1. ProbeTypeOK
    <3>1. blind \in BOOLEAN
      BY DEF ProbeIInv
    <3>2. \A d \in Responders, g \in Records : facts[d][g] \in Facts
      BY Parts DEF ProbeIInv
    <3> QED BY <3>1, <3>2 DEF ProbeTypeOK, Facts
  <2>2. GateAsksTwice
    BY Parts DEF ProbeIInv, GateAsksTwice, MaxSupportedSilentAttempts
  <2>3. NoBlindProbe
    BY DEF ProbeIInv, NoBlindProbe
  <2> QED BY <2>1, <2>2, <2>3, LeadersAgree DEF ProbeInvariant
<1> QED BY <1>1, <1>2, <1>3, PTL

-----------------------------------------------------------------------------
(* LibraryMerge.  A library stays one its loader accepts because no merge  *)
(* can give a record the key of another one (Distinct): the search for a   *)
(* match would have found that record first.                               *)

StampedRecords == [maker : 1 .. Len(MakerNames), model : 1 .. Len(ModelNames), mode : Payloads,
                   stamp : Payloads \cup {unstamped}]
Named(r) == Key(r) # <<1, 1>>

\* No merge can give r the key of s: when r has no manufacturer yet, s has neither its
\* model nor, without a model, a manufacturer whose name holds it; and a record of a
\* manufacturer without a model, none that its name stands for.
Distinct(r, s) ==
  /\ Key(r) # Key(s)
  /\ r.maker = 1 /\ ModelNames[r.model] # {} =>
       /\ s.model # r.model
       /\ ~(s.model = 1 /\ ModelNames[r.model] \subseteq MakerNames[s.maker])
  /\ r.model = 1 /\ s.maker = r.maker => ~Contained(ModelNames[s.model], MakerNames[r.maker])

Apart(lib) ==
  \A i \in DOMAIN lib :
    /\ Named(lib[i])
    /\ \A j \in DOMAIN lib : i # j => Distinct(lib[i], lib[j])

\* A mode without a channel map has no detail, and a stamp is on its own mode.
Sensible(r) ==
  /\ r.mode.map = 0 => ~r.mode.detail
  /\ r.stamp \in {unstamped, r.mode}

LEMMA IncomingType ==
  ASSUME NEW q \in Incoming
  PROVE  /\ q \in StampedRecords /\ Named(q) /\ Sensible(q)
         /\ q.mode \in Told
<1>1. ASSUME NEW k \in Identities, NEW p \in Told, NEW s \in {unstamped, p},
             q = [maker |-> k[1], model |-> k[2], mode |-> p, stamp |-> s]
      PROVE  /\ q \in StampedRecords /\ Named(q) /\ Sensible(q)
             /\ q.mode \in Told
  <2>1. k \in (1 .. Len(MakerNames)) \X (1 .. Len(ModelNames)) /\ k # <<1, 1>> /\ k = <<k[1], k[2]>>
    BY DEF Identities
  <2>2. p \in Payloads /\ (p.map = 0 => ~p.detail)
    BY DEF Told
  <2>3. q.maker = k[1] /\ q.model = k[2] /\ q.mode = p /\ q.stamp = s
    BY <1>1
  <2>4. q \in StampedRecords
    BY <1>1, <2>1, <2>2 DEF StampedRecords
  <2>5. Named(q)
    BY <2>1, <2>3 DEF Named, Key
  <2>6. Sensible(q)
    BY <1>1, <2>2, <2>3 DEF Sensible
  <2> QED BY <2>3, <2>4, <2>5, <2>6
<1>2. \/ \E k \in Identities, p \in Told : q = Record(k[1], k[2], p)
      \/ \E k \in Identities, p \in Told : q = [Record(k[1], k[2], p) EXCEPT !.stamp = p]
  BY DEF Incoming
<1>3. ASSUME NEW k \in Identities, NEW p \in Told
      PROVE  /\ Record(k[1], k[2], p) =
                  [maker |-> k[1], model |-> k[2], mode |-> p, stamp |-> unstamped]
             /\ [Record(k[1], k[2], p) EXCEPT !.stamp = p] =
                  [maker |-> k[1], model |-> k[2], mode |-> p, stamp |-> p]
  BY DEF Record
<1>4. CASE \E k \in Identities, p \in Told : q = Record(k[1], k[2], p)
  <2>1. PICK k \in Identities, p \in Told : q = Record(k[1], k[2], p)
    BY <1>4
  <2>2. q = [maker |-> k[1], model |-> k[2], mode |-> p, stamp |-> unstamped]
    BY <1>3, <2>1
  <2> QED BY <1>1, <2>1, <2>2
<1>5. CASE \E k \in Identities, p \in Told : q = [Record(k[1], k[2], p) EXCEPT !.stamp = p]
  <2>1. PICK k \in Identities, p \in Told : q = [Record(k[1], k[2], p) EXCEPT !.stamp = p]
    BY <1>5
  <2>2. q = [maker |-> k[1], model |-> k[2], mode |-> p, stamp |-> p]
    BY <1>3, <2>1
  <2> QED BY <1>1, <2>1, <2>2
<1> QED BY <1>2, <1>4, <1>5

\* The merged record, field by field.
LEMMA MergedFields ==
  ASSUME NEW r \in StampedRecords, NEW q \in StampedRecords
  PROVE  LET R == Merged(r, q)
         IN /\ R.maker = IF r.maker = 1 THEN q.maker ELSE r.maker
            /\ R.model = IF r.model = 1 THEN q.model ELSE r.model
            /\ R.mode = MergeMode(q.mode, r.mode)
            /\ R.stamp = KeptStamp(MergeMode(q.mode, r.mode), q.stamp, r.stamp)
            /\ R \in StampedRecords
<1> DEFINE mode == MergeMode(q.mode, r.mode)
           stamp == KeptStamp(mode, q.stamp, r.stamp)
           maker == IF r.maker = 1 THEN q.maker ELSE r.maker
           model == IF r.model = 1 THEN q.model ELSE r.model
<1>1. r.mode \in Payloads /\ q.mode \in Payloads
  BY DEF StampedRecords
<1>2. mode \in Payloads
  <2>1. [q.mode EXCEPT !.map = r.mode.map, !.detail = r.mode.detail] \in Payloads
    BY <1>1 DEF Payloads
  <2> QED BY <1>1, <2>1 DEF MergeMode
<1>3. stamp \in Payloads \cup {unstamped}
  BY DEF KeptStamp, StampedRecords
<1>4. maker \in 1 .. Len(MakerNames) /\ model \in 1 .. Len(ModelNames)
  BY DEF StampedRecords
<1>5. Merged(r, q) = [maker |-> maker, model |-> model, mode |-> mode, stamp |-> stamp]
  BY DEF Merged
<1> HIDE DEF mode, stamp, maker, model
<1>6. /\ Merged(r, q).maker = maker /\ Merged(r, q).model = model /\ Merged(r, q).mode = mode
      /\ Merged(r, q).stamp = stamp /\ Merged(r, q) \in StampedRecords
  BY <1>2, <1>3, <1>4, <1>5 DEF StampedRecords
<1> QED BY <1>6 DEF mode, stamp, maker, model

\* What tolerant matching goes by: one model's name in the other's text.
LEMMA CloseMatch ==
  ASSUME NEW r \in StampedRecords, NEW q \in StampedRecords, Matches(r, q), Key(r) # Key(q)
  PROVE  /\ \/ Contained(ModelNames[r.model], MakerNames[q.maker] \cup ModelNames[q.model])
            \/ Contained(ModelNames[q.model], MakerNames[r.maker] \cup ModelNames[r.model])
         /\ MakerNames[q.maker] # {} /\ MakerNames[r.maker] # {} =>
              \/ Contained(MakerNames[r.maker], MakerNames[q.maker] \cup ModelNames[q.model])
              \/ Contained(MakerNames[q.maker], MakerNames[r.maker] \cup ModelNames[r.model])
BY DEF Matches

\* Two records that do not match stay apart, whichever comes second.
LEMMA StrangersAreDistinct ==
  ASSUME NEW r \in StampedRecords, NEW q \in StampedRecords, ~Matches(r, q), Named(r), Named(q)
  PROVE  Distinct(r, q) /\ Distinct(q, r)
<1>1. Key(r) # Key(q)
  BY DEF Matches
<1>2. ~ /\ \/ Contained(ModelNames[r.model], MakerNames[q.maker] \cup ModelNames[q.model])
           \/ Contained(ModelNames[q.model], MakerNames[r.maker] \cup ModelNames[r.model])
        /\ MakerNames[q.maker] # {} /\ MakerNames[r.maker] # {} =>
             \/ Contained(MakerNames[r.maker], MakerNames[q.maker] \cup ModelNames[q.model])
             \/ Contained(MakerNames[q.maker], MakerNames[r.maker] \cup ModelNames[r.model])
  BY DEF Matches
<1>3. Distinct(r, q)
  <2>1. r.maker = 1 /\ ModelNames[r.model] # {} =>
          /\ q.model # r.model
          /\ ~(q.model = 1 /\ ModelNames[r.model] \subseteq MakerNames[q.maker])
    BY <1>2, EmptyNamesFirst DEF Contained
  <2>2. r.model = 1 /\ q.maker = r.maker => ~Contained(ModelNames[q.model], MakerNames[r.maker])
    BY <1>2, EmptyNamesFirst DEF Contained
  <2> QED BY <1>1, <2>1, <2>2 DEF Distinct
<1>4. Distinct(q, r)
  <2>1. q.maker = 1 /\ ModelNames[q.model] # {} =>
          /\ r.model # q.model
          /\ ~(r.model = 1 /\ ModelNames[q.model] \subseteq MakerNames[r.maker])
    BY <1>2, EmptyNamesFirst DEF Contained
  <2>2. q.model = 1 /\ r.maker = q.maker => ~Contained(ModelNames[r.model], MakerNames[q.maker])
    BY <1>2, EmptyNamesFirst DEF Contained
  <2> QED BY <1>1, <2>1, <2>2 DEF Distinct
<1> QED BY <1>3, <1>4

\* A record that fills in a name stays apart from the others.
LEMMA MergedIsDistinct ==
  ASSUME NEW r \in StampedRecords, NEW q \in StampedRecords, NEW s \in StampedRecords,
         Matches(r, q), Named(r), Distinct(r, s), Distinct(s, r)
  PROVE  Distinct(Merged(r, q), s) /\ Distinct(s, Merged(r, q)) /\ Named(Merged(r, q))
<1> DEFINE R == Merged(r, q)
<1>1. /\ R.maker = IF r.maker = 1 THEN q.maker ELSE r.maker
      /\ R.model = IF r.model = 1 THEN q.model ELSE r.model
      /\ R \in StampedRecords
  BY MergedFields
<1> HIDE DEF R
<1>2. CASE R.maker = r.maker /\ R.model = r.model
  BY <1>2 DEF Distinct, Key, Named, R
<1>3. CASE r.maker = 1 /\ q.maker # 1
  <2>1. r.model # 1 /\ R.maker = q.maker /\ R.model = r.model /\ Key(r) # Key(q)
    BY <1>1, <1>3 DEF Named, Key
  <2>2. ModelNames[r.model] # {}
    BY <1>3, <2>1, CloseMatch, EmptyNamesFirst DEF Contained
  <2>3. /\ s.model # r.model
        /\ ~(s.model = 1 /\ ModelNames[r.model] \subseteq MakerNames[s.maker])
    BY <1>3, <2>2 DEF Distinct
  <2>4. Distinct(R, s)
    BY <1>3, <2>1, <2>3 DEF Distinct, Key
  <2>5. Distinct(s, R)
    BY <1>3, <2>1, <2>3 DEF Distinct, Key, Contained
  <2> QED BY <2>1, <2>4, <2>5 DEF Named, Key, R
<1>4. CASE r.model = 1 /\ q.model # 1
  <2>1. r.maker # 1 /\ R.maker = r.maker /\ R.model = q.model /\ Key(r) # Key(q)
    BY <1>1, <1>4 DEF Named, Key
  <2>2. Contained(ModelNames[q.model], MakerNames[r.maker])
    BY <1>4, <2>1, CloseMatch, EmptyNamesFirst DEF Contained
  <2>3. s.maker = r.maker => s.model # q.model /\ s.model # 1
    BY <1>4, <2>2 DEF Distinct, Key
  <2>4. Distinct(R, s)
    BY <1>4, <2>1, <2>3 DEF Distinct, Key
  <2>5. s.maker = 1 /\ ModelNames[s.model] # {} => s.model # q.model
    BY <1>4, <2>2 DEF Distinct, Contained
  <2>6. Distinct(s, R)
    BY <1>4, <2>1, <2>3, <2>5 DEF Distinct, Key
  <2> QED BY <2>1, <2>4, <2>6 DEF Named, Key, R
<1> QED BY <1>1, <1>2, <1>3, <1>4

\* What matched once matches the record it was merged into.
LEMMA MergedMatches ==
  ASSUME NEW r \in StampedRecords, NEW q \in StampedRecords, Matches(r, q), Named(r)
  PROVE  Matches(Merged(r, q), q)
<1> DEFINE R == Merged(r, q)
<1>1. /\ R.maker = IF r.maker = 1 THEN q.maker ELSE r.maker
      /\ R.model = IF r.model = 1 THEN q.model ELSE r.model
  BY MergedFields
<1> HIDE DEF R
<1>2. CASE Key(r) = Key(q)
  BY <1>1, <1>2 DEF Key, Matches, R
<1>3. CASE Key(r) # Key(q)
  <2>1. /\ \/ Contained(ModelNames[r.model], MakerNames[q.maker] \cup ModelNames[q.model])
           \/ Contained(ModelNames[q.model], MakerNames[r.maker] \cup ModelNames[r.model])
        /\ MakerNames[q.maker] # {} /\ MakerNames[r.maker] # {} =>
             \/ Contained(MakerNames[r.maker], MakerNames[q.maker] \cup ModelNames[q.model])
             \/ Contained(MakerNames[q.maker], MakerNames[r.maker] \cup ModelNames[r.model])
    BY <1>3, CloseMatch
  <2>2. MakerNames[r.maker] \subseteq MakerNames[R.maker] /\ ModelNames[r.model] \subseteq ModelNames[R.model]
    BY <1>1, EmptyNamesFirst
  <2>3. \/ Contained(ModelNames[R.model], MakerNames[q.maker] \cup ModelNames[q.model])
        \/ Contained(ModelNames[q.model], MakerNames[R.maker] \cup ModelNames[R.model])
    BY <1>1, <2>1, <2>2, EmptyNamesFirst DEF Contained
  <2>4. MakerNames[q.maker] # {} /\ MakerNames[R.maker] # {} =>
          \/ Contained(MakerNames[R.maker], MakerNames[q.maker] \cup ModelNames[q.model])
          \/ Contained(MakerNames[q.maker], MakerNames[R.maker] \cup ModelNames[R.model])
    <3>1. CASE r.maker = 1
      BY <1>1, <3>1 DEF Contained
    <3>2. CASE r.maker # 1
      BY <1>1, <2>1, <2>2, <3>2 DEF Contained
    <3> QED BY <3>1, <3>2
  <2> QED BY <2>3, <2>4 DEF Matches, R
<1> QED BY <1>2, <1>3

\* The merge of modes: a second time it changes nothing, and it keeps what is known.
LEMMA ModesSettle ==
  ASSUME NEW new \in Payloads, NEW old \in Payloads
  PROVE  /\ MergeMode(new, MergeMode(new, old)) = MergeMode(new, old)
         /\ MergeMode(new, new) = new
<1>1. MergeMode(new, new) = new
  BY DEF MergeMode, LessDetailed
<1>2. CASE LessDetailed(new, old)
  BY <1>2 DEF MergeMode
<1>3. CASE ~LessDetailed(new, old) /\ new.map = 0 /\ old.map # 0
  <2> DEFINE m == [new EXCEPT !.map = old.map, !.detail = old.detail]
  <2>1. MergeMode(new, old) = m
    BY <1>3 DEF MergeMode
  <2>2. m.map = old.map /\ m.detail = old.detail /\ ~LessDetailed(new, m)
    BY <1>3 DEF Payloads, LessDetailed
  <2> DEFINE n == [new EXCEPT !.map = m.map, !.detail = m.detail]
  <2>3. MergeMode(new, m) = n
    BY <1>3, <2>2 DEF MergeMode
  <2>4. n = m
    BY <2>2
  <2> HIDE DEF m, n
  <2> QED BY <1>1, <2>1, <2>3, <2>4
<1>4. CASE ~LessDetailed(new, old) /\ ~(new.map = 0 /\ old.map # 0)
  BY <1>1, <1>4 DEF MergeMode
<1> QED BY <1>1, <1>2, <1>3, <1>4

LEMMA ModesGrow ==
  ASSUME NEW new \in Told, NEW old \in Payloads, old.map = 0 => ~old.detail
  PROVE  LET mode == MergeMode(new, old)
         IN /\ old.map # 0 => mode.map # 0
            /\ old.detail /\ mode.map = old.map => mode.detail
            /\ mode.map = 0 => ~mode.detail
<1>1. new \in Payloads /\ new.detail = new.wheels /\ (new.map = 0 => ~new.detail)
  BY DEF Told
<1>2. CASE LessDetailed(new, old)
  BY <1>2 DEF MergeMode
<1>3. CASE ~LessDetailed(new, old) /\ new.map = 0 /\ old.map # 0
  <2> DEFINE m == [new EXCEPT !.map = old.map, !.detail = old.detail]
  <2>1. MergeMode(new, old) = m
    BY <1>3 DEF MergeMode
  <2>2. m.map = old.map /\ m.detail = old.detail
    BY <1>1 DEF Payloads
  <2> QED BY <1>3, <2>1, <2>2
<1>4. CASE ~LessDetailed(new, old) /\ ~(new.map = 0 /\ old.map # 0)
  <2>1. MergeMode(new, old) = new
    BY <1>4 DEF MergeMode
  <2> QED BY <1>1, <1>4, <2>1 DEF LessDetailed
<1> QED BY <1>2, <1>3, <1>4

LEMMA MergedIsSensible ==
  ASSUME NEW r \in StampedRecords, NEW q \in StampedRecords, Sensible(r), q.mode \in Told
  PROVE  Sensible(Merged(r, q))
<1> DEFINE mode == MergeMode(q.mode, r.mode)
<1>1. r.mode \in Payloads /\ (mode.map = 0 => ~mode.detail)
  BY ModesGrow DEF Sensible, StampedRecords
<1>2. KeptStamp(mode, q.stamp, r.stamp) \in {unstamped, mode}
  BY DEF KeptStamp
<1> QED BY <1>1, <1>2, MergedFields DEF Sensible

LEMMA MergedAgain ==
  ASSUME NEW r \in StampedRecords, NEW q \in StampedRecords, Sensible(q)
  PROVE  Merged(Merged(r, q), q) = Merged(r, q) /\ Merged(q, q) = q
<1> DEFINE R == Merged(r, q)
           S == Merged(R, q)
           Q == Merged(q, q)
<1>1. /\ R.maker = IF r.maker = 1 THEN q.maker ELSE r.maker
      /\ R.model = IF r.model = 1 THEN q.model ELSE r.model
      /\ R.mode = MergeMode(q.mode, r.mode)
      /\ R.stamp = KeptStamp(R.mode, q.stamp, r.stamp)
      /\ R \in StampedRecords
  BY MergedFields
<1>2. /\ S.maker = IF R.maker = 1 THEN q.maker ELSE R.maker
      /\ S.model = IF R.model = 1 THEN q.model ELSE R.model
      /\ S.mode = MergeMode(q.mode, R.mode)
      /\ S.stamp = KeptStamp(S.mode, q.stamp, R.stamp)
      /\ S \in StampedRecords
  BY <1>1, MergedFields
<1>3. /\ Q.maker = q.maker /\ Q.model = q.model
      /\ Q.mode = MergeMode(q.mode, q.mode)
      /\ Q.stamp = KeptStamp(Q.mode, q.stamp, q.stamp)
      /\ Q \in StampedRecords
  BY MergedFields
<1> HIDE DEF R, S, Q
<1>4. q.mode \in Payloads /\ r.mode \in Payloads
  BY DEF StampedRecords
<1>5. S.mode = R.mode /\ Q.mode = q.mode
  BY <1>1, <1>2, <1>3, <1>4, ModesSettle
<1>6. S.stamp = R.stamp
  BY <1>1, <1>2, <1>5 DEF KeptStamp
<1>7. Q.stamp = q.stamp
  BY <1>3, <1>5 DEF KeptStamp, Sensible
<1>8. S = R
  BY <1>1, <1>2, <1>5, <1>6 DEF StampedRecords
<1>9. Q = q
  BY <1>3, <1>5, <1>7 DEF StampedRecords
<1> QED BY <1>8, <1>9 DEF R, S, Q

-----------------------------------------------------------------------------
\* Induction over the natural numbers gives every set of them its least member.
LEMMA LeastMember ==
  ASSUME NEW S, S \subseteq Nat, S # {}
  PROVE  First(S) \in S /\ \A j \in S : First(S) <= j
BY SmallestNumber DEF First

\* matchLocked finds a record that matches, whenever there is one.
LEMMA MatchFinds ==
  ASSUME NEW lib \in Seq(StampedRecords), NEW q \in StampedRecords
  PROVE  \/ Match(lib, q) = 0 /\ \A i \in DOMAIN lib : ~Matches(lib[i], q)
         \/ Match(lib, q) \in DOMAIN lib /\ Matches(lib[Match(lib, q)], q)
<1> DEFINE exact == {i \in DOMAIN lib : Key(lib[i]) = Key(q)}
           close == {i \in DOMAIN lib : Matches(lib[i], q)}
<1>1. Match(lib, q) = First(IF exact # {} THEN exact ELSE close)
  BY DEF Match
<1>2. DOMAIN lib \subseteq Nat
  BY LenProperties
<1>3. exact \subseteq close
  BY DEF Matches
<1>4. exact \subseteq Nat /\ close \subseteq Nat
  BY <1>2
<1>5. CASE exact # {}
  <2> HIDE DEF exact, close
  <2>1. First(exact) \in exact
    BY <1>4, <1>5, LeastMember
  <2> QED BY <1>1, <1>3, <1>5, <2>1 DEF close
<1>6. CASE exact = {} /\ close # {}
  <2> HIDE DEF exact, close
  <2>1. First(close) \in close
    BY <1>4, <1>6, LeastMember
  <2> QED BY <1>1, <1>6, <2>1 DEF close
<1>7. CASE exact = {} /\ close = {}
  <2>1. Match(lib, q) = 0
    BY <1>1, <1>7 DEF First
  <2> QED BY <1>7, <2>1
<1> QED BY <1>5, <1>6, <1>7

\* The others keep their place around a new record.
LEMMA InsertedAt ==
  ASSUME NEW lib \in Seq(StampedRecords), NEW q \in StampedRecords
  PROVE  \E at \in 0 .. Len(lib) :
           /\ Inserted(lib, q) \in Seq(StampedRecords)
           /\ DOMAIN Inserted(lib, q) = 1 .. Len(lib) + 1
           /\ \A i \in 1 .. Len(lib) + 1 :
                Inserted(lib, q)[i] = IF i <= at THEN lib[i] ELSE IF i = at + 1 THEN q ELSE lib[i - 1]
<1> DEFINE before == {i \in DOMAIN lib : ~KeyBefore(q, lib[i])}
           at == Cardinality(before)
           left == SubSeq(lib, 1, at)
           right == SubSeq(lib, at + 1, Len(lib))
<1>1. Len(lib) \in Nat /\ DOMAIN lib = 1 .. Len(lib) /\ \A i \in 1 .. Len(lib) : lib[i] \in StampedRecords
  BY LenProperties, ElementOfSeq
<1>2. at \in 0 .. Len(lib)
  <2>1. IsFiniteSet(1 .. Len(lib)) /\ Cardinality(1 .. Len(lib)) = Len(lib)
    <3>1. 1 \in Int /\ Len(lib) \in Int
      BY <1>1
    <3>2. /\ IsFiniteSet(1 .. Len(lib))
          /\ Cardinality(1 .. Len(lib)) = IF 1 > Len(lib) THEN 0 ELSE Len(lib) - 1 + 1
      BY <3>1, FS_Interval
    <3> QED BY <1>1, <3>2
  <2>2. before \in SUBSET (1 .. Len(lib))
    BY <1>1
  <2> HIDE DEF before
  <2>3. IsFiniteSet(before) /\ Cardinality(before) <= Len(lib)
    BY <2>1, <2>2, FS_Subset
  <2>4. Cardinality(before) \in Nat
    BY <2>3, FS_CardinalityType
  <2> QED BY <1>1, <2>3, <2>4
<1>3. Inserted(lib, q) = left \o <<q>> \o right
  BY DEF Inserted
<1> HIDE DEF at
<1>4. left \in Seq(StampedRecords) /\ Len(left) = at /\ \A i \in 1 .. at : left[i] = lib[i]
  <2>1. at \in Int /\ \A i \in 1 .. at : lib[i] \in StampedRecords
    BY <1>1, <1>2
  <2>2. /\ SubSeq(lib, 1, at) \in Seq(StampedRecords)
        /\ Len(SubSeq(lib, 1, at)) = IF 1 <= at THEN at - 1 + 1 ELSE 0
        /\ \A i \in 1 .. at - 1 + 1 : SubSeq(lib, 1, at)[i] = lib[1 + i - 1]
    BY <2>1, SubSeqProperties
  <2> HIDE DEF left
  <2>3. left = SubSeq(lib, 1, at)
    BY DEF left
  <2>4. Len(left) = at
    <3>1. Len(left) = IF 1 <= at THEN at - 1 + 1 ELSE 0
      BY <2>2, <2>3
    <3>2. Len(lib) \in Nat /\ at \in 0 .. Len(lib)
      BY <1>1, <1>2
    <3> QED BY <3>1, <3>2
  <2>5. ASSUME NEW i \in 1 .. at PROVE left[i] = lib[i]
    <3>1. i \in 1 .. at - 1 + 1 /\ 1 + i - 1 = i
      BY <1>2
    <3>2. left[i] = lib[1 + i - 1]
      BY <2>2, <2>3, <3>1
    <3> QED BY <3>1, <3>2
  <2> QED BY <2>2, <2>3, <2>4, <2>5
<1>5. /\ right \in Seq(StampedRecords) /\ Len(right) = Len(lib) - at
      /\ \A i \in 1 .. Len(lib) - at : right[i] = lib[at + i]
  <2>1. /\ at + 1 \in Int /\ Len(lib) \in Int
        /\ \A i \in at + 1 .. Len(lib) : lib[i] \in StampedRecords
    BY <1>1, <1>2
  <2>2. /\ SubSeq(lib, at + 1, Len(lib)) \in Seq(StampedRecords)
        /\ Len(SubSeq(lib, at + 1, Len(lib))) = IF at + 1 <= Len(lib) THEN Len(lib) - (at + 1) + 1 ELSE 0
        /\ \A i \in 1 .. Len(lib) - (at + 1) + 1 : SubSeq(lib, at + 1, Len(lib))[i] = lib[at + 1 + i - 1]
    BY <2>1, SubSeqProperties
  <2> HIDE DEF right
  <2>3. right = SubSeq(lib, at + 1, Len(lib))
    BY DEF right
  <2>4. Len(right) = Len(lib) - at
    <3>1. Len(right) = IF at + 1 <= Len(lib) THEN Len(lib) - (at + 1) + 1 ELSE 0
      BY <2>2, <2>3
    <3>2. Len(lib) \in Nat /\ at \in 0 .. Len(lib)
      BY <1>1, <1>2
    <3> QED BY <3>1, <3>2
  <2>5. ASSUME NEW i \in 1 .. Len(lib) - at PROVE right[i] = lib[at + i]
    <3>1. i \in 1 .. Len(lib) - (at + 1) + 1 /\ at + 1 + i - 1 = at + i
      BY <1>1, <1>2
    <3>2. right[i] = lib[at + 1 + i - 1]
      BY <2>2, <2>3, <3>1
    <3> QED BY <3>1, <3>2
  <2> QED BY <2>2, <2>3, <2>4, <2>5
<1> HIDE DEF left, right
<1> DEFINE one == <<q>>
           first == left \o one
           whole == first \o right
<1>6. one \in Seq(StampedRecords) /\ Len(one) = 1 /\ one[1] = q
  OBVIOUS
<1> HIDE DEF one
<1>7. /\ first \in Seq(StampedRecords) /\ Len(first) = at + 1
      /\ \A i \in 1 .. at + 1 : first[i] = IF i <= at THEN left[i] ELSE one[i - at]
  <2>1. /\ first \in Seq(StampedRecords) /\ Len(first) = Len(left) + Len(one)
        /\ \A i \in 1 .. Len(left) + Len(one) :
             first[i] = IF i <= Len(left) THEN left[i] ELSE one[i - Len(left)]
    BY <1>4, <1>6, ConcatProperties
  <2> HIDE DEF first
  <2>2. Len(left) + Len(one) = at + 1
    BY <1>2, <1>4, <1>6
  <2> QED BY <1>4, <2>1, <2>2
<1> HIDE DEF first
<1>8. /\ whole \in Seq(StampedRecords) /\ Len(whole) = Len(lib) + 1
      /\ \A i \in 1 .. Len(lib) + 1 : whole[i] = IF i <= at + 1 THEN first[i] ELSE right[i - (at + 1)]
  <2>1. /\ whole \in Seq(StampedRecords) /\ Len(whole) = Len(first) + Len(right)
        /\ \A i \in 1 .. Len(first) + Len(right) :
             whole[i] = IF i <= Len(first) THEN first[i] ELSE right[i - Len(first)]
    BY <1>5, <1>7, ConcatProperties
  <2>2. Len(first) + Len(right) = Len(lib) + 1
    BY <1>1, <1>2, <1>5, <1>7
  <2> QED BY <1>7, <2>1, <2>2
<1> HIDE DEF whole
<1>9. ASSUME NEW i \in 1 .. Len(lib) + 1
      PROVE  whole[i] = IF i <= at THEN lib[i] ELSE IF i = at + 1 THEN q ELSE lib[i - 1]
  <2>1. CASE i <= at
    BY <1>1, <1>2, <1>4, <1>7, <1>8, <2>1
  <2>2. CASE i = at + 1
    <3>1. whole[i] = first[i] /\ first[i] = one[i - at] /\ i - at = 1
      BY <1>1, <1>2, <1>7, <1>8, <2>2
    <3> QED BY <1>2, <1>6, <2>2, <3>1
  <2>3. CASE i > at + 1
    <3>0. ~(i <= at + 1) /\ i - (at + 1) \in 1 .. Len(lib) - at /\ at + (i - (at + 1)) = i - 1
      BY <1>1, <1>2, <2>3
    <3>1. whole[i] = right[i - (at + 1)] /\ i - (at + 1) \in 1 .. Len(lib) - at /\ at + (i - (at + 1)) = i - 1
      BY <1>8, <3>0
    <3>2. whole[i] = lib[i - 1]
      BY <1>5, <3>1
    <3> QED BY <1>2, <2>3, <3>2
  <2> QED BY <1>1, <1>2, <2>1, <2>2, <2>3
<1>10. Inserted(lib, q) = whole
  BY <1>3 DEF whole, first, one
<1>11. DOMAIN whole = 1 .. Len(lib) + 1
  BY <1>8, LenProperties
<1> QED BY <1>2, <1>8, <1>9, <1>10, <1>11

\* The library without one record.
LEMMA DeletedAt ==
  ASSUME NEW lib \in Seq(StampedRecords), NEW i \in DOMAIN lib,
         NEW less, less = SubSeq(lib, 1, i - 1) \o SubSeq(lib, i + 1, Len(lib))
  PROVE  /\ less \in Seq(StampedRecords)
         /\ DOMAIN less = 1 .. Len(lib) - 1
         /\ \A k \in 1 .. Len(lib) - 1 : less[k] = IF k < i THEN lib[k] ELSE lib[k + 1]
<1> DEFINE left == SubSeq(lib, 1, i - 1)
           right == SubSeq(lib, i + 1, Len(lib))
           n == Len(lib)
<1>1. n \in Nat /\ DOMAIN lib = 1 .. n /\ i \in 1 .. n /\ \A k \in 1 .. n : lib[k] \in StampedRecords
  BY LenProperties, ElementOfSeq
<1> HIDE DEF n
<1>2. left \in Seq(StampedRecords) /\ Len(left) = i - 1 /\ \A k \in 1 .. i - 1 : left[k] = lib[k]
  <2>1. 1 \in Int /\ i - 1 \in Int /\ \A k \in 1 .. i - 1 : lib[k] \in StampedRecords
    BY <1>1
  <2>2. /\ left \in Seq(StampedRecords)
        /\ Len(left) = IF 1 <= i - 1 THEN i - 1 - 1 + 1 ELSE 0
        /\ \A k \in 1 .. i - 1 - 1 + 1 : left[k] = lib[1 + k - 1]
    BY <2>1, SubSeqProperties
  <2> HIDE DEF left
  <2>3. Len(left) = i - 1
    BY <1>1, <2>2
  <2>4. ASSUME NEW k \in 1 .. i - 1 PROVE left[k] = lib[k]
    <3>1. k \in 1 .. i - 1 - 1 + 1 /\ 1 + k - 1 = k
      BY <1>1
    <3> QED BY <2>2, <3>1
  <2> QED BY <2>2, <2>3, <2>4
<1>3. right \in Seq(StampedRecords) /\ Len(right) = n - i /\ \A k \in 1 .. n - i : right[k] = lib[i + k]
  <2>1. i + 1 \in Int /\ n \in Int /\ \A k \in i + 1 .. n : lib[k] \in StampedRecords
    BY <1>1
  <2>2. right = SubSeq(lib, i + 1, n)
    BY DEF n
  <2> HIDE DEF right
  <2> DEFINE rest == SubSeq(lib, i + 1, n)
  <2>3. /\ rest \in Seq(StampedRecords)
        /\ Len(rest) = IF i + 1 <= n THEN n - (i + 1) + 1 ELSE 0
        /\ \A k \in 1 .. n - (i + 1) + 1 : rest[k] = lib[i + 1 + k - 1]
    BY <2>1, SubSeqProperties
  <2>6. rest = right
    BY <2>2
  <2> HIDE DEF rest
  <2>4. Len(right) = n - i
    BY <1>1, <2>3, <2>6
  <2>5. ASSUME NEW k \in 1 .. n - i PROVE right[k] = lib[i + k]
    <3>1. k \in 1 .. n - (i + 1) + 1 /\ i + 1 + k - 1 = i + k
      BY <1>1
    <3>2. right[k] = lib[i + 1 + k - 1]
      BY <2>3, <2>6, <3>1
    <3> QED BY <3>1, <3>2
  <2> QED BY <2>3, <2>4, <2>5, <2>6
<1>4. less = left \o right
  OBVIOUS
<1> HIDE DEF left, right
<1>5. /\ less \in Seq(StampedRecords) /\ Len(less) = Len(left) + Len(right)
      /\ \A k \in 1 .. Len(left) + Len(right) :
           less[k] = IF k <= Len(left) THEN left[k] ELSE right[k - Len(left)]
  <2> DEFINE both == left \o right
  <2>1. /\ both \in Seq(StampedRecords) /\ Len(both) = Len(left) + Len(right)
        /\ \A k \in 1 .. Len(left) + Len(right) :
             both[k] = IF k <= Len(left) THEN left[k] ELSE right[k - Len(left)]
    BY <1>2, <1>3, ConcatProperties
  <2>2. less = both
    BY <1>4
  <2> HIDE DEF both
  <2> QED BY <2>1, <2>2
<1>6. Len(left) + Len(right) = n - 1
  BY <1>1, <1>2, <1>3
<1>7. ASSUME NEW k \in 1 .. n - 1 PROVE less[k] = IF k < i THEN lib[k] ELSE lib[k + 1]
  <2>1. CASE k < i
    <3>1. k <= i - 1 /\ k \in 1 .. i - 1
      BY <1>1, <2>1
    <3> QED BY <1>2, <1>5, <1>6, <2>1, <3>1
  <2>2. CASE ~(k < i)
    <3>0. k \in Int /\ 1 <= k /\ k <= n - 1 /\ i \in Int /\ n \in Int
      BY <1>1
    <3>4. i <= k
      BY <2>2, <3>0
    <3>1. ~(k <= i - 1) /\ k - (i - 1) \in 1 .. n - i /\ i + (k - (i - 1)) = k + 1
      <4> DEFINE e == k - (i - 1)
      <4>1. e \in Int /\ e = k - i + 1
        BY <3>0
      <4> HIDE DEF e
      <4>2. 1 <= e /\ e <= n - i /\ i + e = k + 1 /\ n - i \in Int
        <5>1. k - i + 1 <= n - 1 - i + 1 /\ n - 1 - i + 1 = n - i /\ n - i \in Int
          BY <3>0
        <5>2. 0 <= k - i
          BY <3>0, <3>4
        <5>3. 1 <= e
          BY <3>0, <4>1, <5>2
        <5>4. i + e = k + 1
          BY <3>0, <4>1
        <5> QED BY <4>1, <5>1, <5>3, <5>4
      <4>3. e \in 1 .. n - i
        BY <4>1, <4>2
      <4>4. ~(k <= i - 1)
        BY <3>0, <3>4
      <4> QED BY <4>2, <4>3, <4>4 DEF e
    <3>2. less[k] = right[k - (i - 1)]
      BY <1>2, <1>5, <1>6, <3>1
    <3>3. right[k - (i - 1)] = lib[i + (k - (i - 1))]
      BY <1>3, <3>1
    <3> QED BY <2>2, <3>1, <3>2, <3>3
  <2> QED BY <2>1, <2>2
<1>8. DOMAIN less = 1 .. n - 1
  BY <1>5, <1>6, LenProperties
<1> QED BY <1>5, <1>7, <1>8 DEF n

\* What every state of the library satisfies.
LibOK(lib) ==
  /\ lib \in Seq(StampedRecords)
  /\ Apart(lib)
  /\ \A i \in DOMAIN lib : Sensible(lib[i])

\* A library whose records come, each from another place, out of a sound one.
LEMMA PartIsSound ==
  ASSUME NEW lib, LibOK(lib), NEW part \in Seq(StampedRecords), NEW from \in [DOMAIN part -> DOMAIN lib],
         \A k \in DOMAIN part : part[k] = lib[from[k]],
         \A k, l \in DOMAIN part : k # l => from[k] # from[l]
  PROVE  LibOK(part)
<1>1. \A k \in DOMAIN part : Named(part[k]) /\ Sensible(part[k])
  BY DEF LibOK, Apart
<1>2. ASSUME NEW k \in DOMAIN part, NEW l \in DOMAIN part, k # l PROVE Distinct(part[k], part[l])
  <2>1. from[k] \in DOMAIN lib /\ from[l] \in DOMAIN lib /\ from[k] # from[l]
    BY <1>2
  <2> QED BY <1>2, <2>1 DEF LibOK, Apart
<1> QED BY <1>1, <1>2 DEF LibOK, Apart

LEMMA DeleteKeeps ==
  ASSUME NEW lib, LibOK(lib), NEW i \in DOMAIN lib
  PROVE  LibOK(SubSeq(lib, 1, i - 1) \o SubSeq(lib, i + 1, Len(lib)))
<1> DEFINE less == SubSeq(lib, 1, i - 1) \o SubSeq(lib, i + 1, Len(lib))
           from == [k \in 1 .. Len(lib) - 1 |-> IF k < i THEN k ELSE k + 1]
<1>1. lib \in Seq(StampedRecords)
  BY DEF LibOK
<1>2. /\ less \in Seq(StampedRecords)
      /\ DOMAIN less = 1 .. Len(lib) - 1
      /\ \A k \in 1 .. Len(lib) - 1 : less[k] = IF k < i THEN lib[k] ELSE lib[k + 1]
  BY <1>1, DeletedAt
<1>3. Len(lib) \in Nat /\ DOMAIN lib = 1 .. Len(lib) /\ i \in 1 .. Len(lib)
  BY <1>1, LenProperties
<1> HIDE DEF less
<1>4. /\ from \in [1 .. Len(lib) - 1 -> 1 .. Len(lib)]
      /\ \A k \in 1 .. Len(lib) - 1 : less[k] = lib[from[k]]
      /\ \A k, l \in 1 .. Len(lib) - 1 : k # l => from[k] # from[l]
  BY <1>2, <1>3
<1> HIDE DEF from
<1>5. /\ from \in [DOMAIN less -> DOMAIN lib]
      /\ \A k \in DOMAIN less : less[k] = lib[from[k]]
      /\ \A k, l \in DOMAIN less : k # l => from[k] # from[l]
  BY <1>2, <1>3, <1>4
<1>6. less \in Seq(StampedRecords)
  BY <1>2
<1>7. LibOK(less)
  BY <1>5, <1>6, PartIsSound
<1> QED BY <1>7 DEF less

LEMMA InsertKeeps ==
  ASSUME NEW lib, LibOK(lib), NEW q \in Incoming, \A i \in DOMAIN lib : ~Matches(lib[i], q)
  PROVE  LibOK(Inserted(lib, q))
<1> DEFINE more == Inserted(lib, q)
<1>1. lib \in Seq(StampedRecords) /\ q \in StampedRecords /\ Named(q) /\ Sensible(q)
  BY IncomingType DEF LibOK
<1>2. PICK at \in 0 .. Len(lib) :
        /\ more \in Seq(StampedRecords)
        /\ DOMAIN more = 1 .. Len(lib) + 1
        /\ \A i \in 1 .. Len(lib) + 1 :
             more[i] = IF i <= at THEN lib[i] ELSE IF i = at + 1 THEN q ELSE lib[i - 1]
  BY <1>1, InsertedAt
<1> HIDE DEF more
<1>3. Len(lib) \in Nat /\ DOMAIN lib = 1 .. Len(lib) /\ \A i \in DOMAIN lib : lib[i] \in StampedRecords
  BY <1>1, LenProperties, ElementOfSeq
<1> DEFINE Old(i) == IF i <= at THEN i ELSE i - 1
<1>4. ASSUME NEW i \in DOMAIN more, i # at + 1
      PROVE  Old(i) \in DOMAIN lib /\ more[i] = lib[Old(i)]
  BY <1>2, <1>3, <1>4
<1>5. more[at + 1] = q /\ at + 1 \in DOMAIN more
  BY <1>2, <1>3
<1>6. \A i, j \in DOMAIN more : i # at + 1 /\ j # at + 1 /\ i # j => Old(i) # Old(j)
  BY <1>2, <1>3
<1> HIDE DEF Old
<1>7. \A i \in DOMAIN lib : Distinct(lib[i], q) /\ Distinct(q, lib[i])
  <2> TAKE i \in DOMAIN lib
  <2>1. Named(lib[i]) /\ lib[i] \in StampedRecords /\ ~Matches(lib[i], q)
    BY <1>3 DEF LibOK, Apart
  <2> QED BY <1>1, <2>1, StrangersAreDistinct
<1>8. ASSUME NEW i \in DOMAIN more PROVE Named(more[i]) /\ Sensible(more[i])
  <2>1. CASE i = at + 1
    BY <1>1, <1>5, <2>1
  <2>2. CASE i # at + 1
    BY <1>4, <2>2 DEF LibOK, Apart
  <2> QED BY <2>1, <2>2
<1>9. ASSUME NEW i \in DOMAIN more, NEW j \in DOMAIN more, i # j PROVE Distinct(more[i], more[j])
  <2>1. CASE i = at + 1
    BY <1>4, <1>5, <1>7, <1>9, <2>1
  <2>2. CASE j = at + 1
    BY <1>4, <1>5, <1>7, <1>9, <2>2
  <2>3. CASE i # at + 1 /\ j # at + 1
    <3>1. /\ Old(i) \in DOMAIN lib /\ Old(j) \in DOMAIN lib /\ Old(i) # Old(j)
          /\ more[i] = lib[Old(i)] /\ more[j] = lib[Old(j)]
      BY <1>4, <1>6, <1>9, <2>3
    <3> QED BY <3>1 DEF LibOK, Apart
  <2> QED BY <2>1, <2>2, <2>3
<1> QED BY <1>2, <1>8, <1>9 DEF LibOK, Apart, more

LEMMA MergeKeeps ==
  ASSUME NEW lib, LibOK(lib), NEW q \in Incoming, NEW i \in DOMAIN lib, Matches(lib[i], q)
  PROVE  LibOK([lib EXCEPT ![i] = Merged(@, q)])
<1> DEFINE R == Merged(lib[i], q)
           merged == [lib EXCEPT ![i] = R]
<1>1. lib \in Seq(StampedRecords) /\ q \in StampedRecords /\ q.mode \in Told
  BY IncomingType DEF LibOK
<1>2. Len(lib) \in Nat /\ DOMAIN lib = 1 .. Len(lib) /\ \A j \in DOMAIN lib : lib[j] \in StampedRecords
  BY <1>1, LenProperties, ElementOfSeq
<1>3. R \in StampedRecords
  BY <1>1, <1>2, MergedFields
<1>4. Sensible(R)
  BY <1>1, <1>2, MergedIsSensible DEF LibOK
<1>5. Named(lib[i])
  BY DEF LibOK, Apart
<1>6. ASSUME NEW j \in DOMAIN lib, j # i
      PROVE  Distinct(R, lib[j]) /\ Distinct(lib[j], R)
  <2>1. Distinct(lib[i], lib[j]) /\ Distinct(lib[j], lib[i])
    BY <1>6 DEF LibOK, Apart
  <2> QED BY <1>1, <1>2, <1>5, <2>1, MergedIsDistinct
<1>7. Named(R)
  <2>1. /\ R.maker = IF lib[i].maker = 1 THEN q.maker ELSE lib[i].maker
        /\ R.model = IF lib[i].model = 1 THEN q.model ELSE lib[i].model
    BY <1>1, <1>2, MergedFields
  <2> HIDE DEF R
  <2> QED BY <1>5, <2>1 DEF Named, Key
<1> HIDE DEF R
<1>8. /\ merged \in Seq(StampedRecords) /\ DOMAIN merged = DOMAIN lib
      /\ \A j \in DOMAIN lib : merged[j] = IF j = i THEN R ELSE lib[j]
  <2>1. /\ merged \in Seq(StampedRecords) /\ Len(merged) = Len(lib)
        /\ \A j \in 1 .. Len(lib) : merged[j] = IF j = i THEN R ELSE lib[j]
    BY <1>1, <1>2, <1>3, ExceptSeq
  <2> QED BY <1>2, <2>1, LenProperties
<1> HIDE DEF merged
<1>9. \A j \in DOMAIN lib : Named(merged[j]) /\ Sensible(merged[j])
  BY <1>4, <1>7, <1>8 DEF LibOK, Apart
<1>10. ASSUME NEW j \in DOMAIN lib, NEW k \in DOMAIN lib, j # k PROVE Distinct(merged[j], merged[k])
  <2>1. CASE j = i
    BY <1>6, <1>8, <1>10, <2>1
  <2>2. CASE k = i
    BY <1>6, <1>8, <1>10, <2>2
  <2>3. CASE j # i /\ k # i
    BY <1>8, <1>10, <2>3 DEF LibOK, Apart
  <2> QED BY <2>1, <2>2, <2>3
<1> QED BY <1>8, <1>9, <1>10 DEF LibOK, Apart, merged, R

LEMMA UpsertKeeps ==
  ASSUME NEW lib, LibOK(lib), NEW q \in Incoming
  PROVE  LibOK(UpsertLocked(lib, q))
<1>1. lib \in Seq(StampedRecords) /\ q \in StampedRecords
  BY IncomingType DEF LibOK
<1>2. CASE Match(lib, q) = 0 /\ \A i \in DOMAIN lib : ~Matches(lib[i], q)
  BY <1>2, InsertKeeps DEF UpsertLocked
<1>3. CASE Match(lib, q) \in DOMAIN lib /\ Matches(lib[Match(lib, q)], q)
  <2>1. Match(lib, q) # 0
    BY <1>1, <1>3, LenProperties
  <2> QED BY <1>3, <2>1, MergeKeeps DEF UpsertLocked
<1> QED BY <1>1, <1>2, <1>3, MatchFinds

\* A record that was just inserted is the one that matches.
LEMMA InsertedSettles ==
  ASSUME NEW lib \in Seq(StampedRecords), NEW q \in Incoming, \A i \in DOMAIN lib : ~Matches(lib[i], q)
  PROVE  UpsertLocked(Inserted(lib, q), q) = Inserted(lib, q)
<1> DEFINE more == Inserted(lib, q)
           exact == {i \in DOMAIN more : Key(more[i]) = Key(q)}
<1>1. q \in StampedRecords /\ Sensible(q)
  BY IncomingType
<1>2. PICK at \in 0 .. Len(lib) :
        /\ more \in Seq(StampedRecords)
        /\ DOMAIN more = 1 .. Len(lib) + 1
        /\ \A i \in 1 .. Len(lib) + 1 :
             more[i] = IF i <= at THEN lib[i] ELSE IF i = at + 1 THEN q ELSE lib[i - 1]
  BY <1>1, InsertedAt
<1>3. Match(more, q) = First(IF exact # {} THEN exact ELSE {i \in DOMAIN more : Matches(more[i], q)})
  BY DEF Match
<1> HIDE DEF more
<1>4. Len(lib) \in Nat /\ DOMAIN lib = 1 .. Len(lib)
  BY LenProperties
<1>5. more[at + 1] = q /\ at + 1 \in DOMAIN more
  BY <1>2, <1>4
<1>6. ASSUME NEW i \in DOMAIN more, i # at + 1 PROVE Key(more[i]) # Key(q)
  <2>1. i \in 1 .. Len(lib) + 1
    BY <1>2, <1>6
  <2>2. more[i] = IF i <= at THEN lib[i] ELSE IF i = at + 1 THEN q ELSE lib[i - 1]
    BY <1>2, <2>1
  <2>3. CASE i <= at
    <3>1. more[i] = lib[i] /\ i \in DOMAIN lib
      BY <1>4, <2>1, <2>2, <2>3
    <3> QED BY <3>1 DEF Matches
  <2>4. CASE ~(i <= at)
    <3>1. more[i] = lib[i - 1]
      BY <1>6, <2>2, <2>4
    <3>2. i - 1 \in DOMAIN lib
      BY <1>4, <1>6, <2>1, <2>4
    <3> QED BY <3>1, <3>2 DEF Matches
  <2> QED BY <2>3, <2>4
<1>7. exact = {at + 1}
  BY <1>5, <1>6
<1> HIDE DEF exact
<1>8. exact \subseteq Nat /\ exact # {}
  BY <1>2, <1>7
<1>9. Match(more, q) = at + 1
  BY <1>3, <1>7, <1>8, LeastMember
<1>10. at + 1 # 0
  BY <1>2
<1>11. UpsertLocked(more, q) = [more EXCEPT ![at + 1] = Merged(more[at + 1], q)]
  BY <1>9, <1>10 DEF UpsertLocked
<1>12. Merged(more[at + 1], q) = more[at + 1]
  BY <1>1, <1>5, MergedAgain
<1>13. [more EXCEPT ![at + 1] = more[at + 1]] = more
  BY <1>2
<1> QED BY <1>11, <1>12, <1>13 DEF more

\* A record that was merged is found where it was merged.
LEMMA MergedSettles ==
  ASSUME NEW lib \in Seq(StampedRecords), NEW q \in Incoming, \A k \in DOMAIN lib : Named(lib[k]),
         NEW i, i = Match(lib, q), i \in DOMAIN lib, Matches(lib[i], q)
  PROVE  LET once == [lib EXCEPT ![i] = Merged(@, q)] IN UpsertLocked(once, q) = once
<1> DEFINE once == [lib EXCEPT ![i] = Merged(@, q)]
           exact == {k \in DOMAIN lib : Key(lib[k]) = Key(q)}
           close == {k \in DOMAIN lib : Matches(lib[k], q)}
           exactly == {k \in DOMAIN once : Key(once[k]) = Key(q)}
           closely == {k \in DOMAIN once : Matches(once[k], q)}
<1> SUFFICES UpsertLocked(once, q) = once
  OBVIOUS
<1>1. q \in StampedRecords /\ Sensible(q)
  BY IncomingType
<1>2. Len(lib) \in Nat /\ DOMAIN lib = 1 .. Len(lib) /\ \A k \in DOMAIN lib : lib[k] \in StampedRecords
  BY LenProperties, ElementOfSeq
<1>4. /\ DOMAIN once = DOMAIN lib
      /\ \A k \in DOMAIN lib : once[k] = IF k = i THEN Merged(lib[i], q) ELSE lib[k]
  OBVIOUS
<1>5. i = First(IF exact # {} THEN exact ELSE close)
  BY DEF Match
<1>6. Match(once, q) = First(IF exactly # {} THEN exactly ELSE closely)
  BY DEF Match
<1>7. Matches(Merged(lib[i], q), q)
  BY <1>1, <1>2, MergedMatches
<1>8. Merged(Merged(lib[i], q), q) = Merged(lib[i], q)
  BY <1>1, <1>2, MergedAgain
<1>9. Key(lib[i]) = Key(q) => Key(Merged(lib[i], q)) = Key(q)
  BY <1>1, <1>2, MergedFields DEF Key
<1>10. closely = close
  BY <1>4, <1>7
<1>11. exact \subseteq Nat /\ exactly \subseteq Nat
  BY <1>2, <1>4
<1>12. Match(once, q) = i
  <2>1. CASE exact # {}
    <3>1. i \in exact
      <4>1. First(exact) \in exact
        <5> HIDE DEF exact
        <5> QED BY <1>11, <2>1, LeastMember
      <4> QED BY <1>5, <2>1, <4>1
    <3>2. exactly = exact
      BY <1>4, <1>9, <3>1
    <3> QED BY <1>5, <1>6, <2>1, <3>2
  <2>2. CASE exact = {} /\ Key(Merged(lib[i], q)) = Key(q)
    <3>1. exactly = {i}
      BY <1>4, <2>2
    <3> HIDE DEF exactly
    <3>2. First(exactly) = i
      BY <1>11, <3>1, LeastMember
    <3> QED BY <1>6, <3>1, <3>2
  <2>3. CASE exact = {} /\ Key(Merged(lib[i], q)) # Key(q)
    <3>1. exactly = {}
      BY <1>4, <2>3
    <3> QED BY <1>5, <1>6, <1>10, <2>3, <3>1
  <2> QED BY <2>1, <2>2, <2>3
<1>13. i # 0
  BY <1>2
<1>14. UpsertLocked(once, q) = [once EXCEPT ![i] = Merged(once[i], q)]
  BY <1>12, <1>13 DEF UpsertLocked
<1>15. Merged(once[i], q) = once[i]
  BY <1>4, <1>8
<1>16. [once EXCEPT ![i] = once[i]] = once
  BY <1>4
<1> QED BY <1>14, <1>15, <1>16

-----------------------------------------------------------------------------
LEMMA LibraryStarts ==
  ASSUME LibInit
  PROVE  LibOK(library)
BY DEF LibInit, LibOK, Apart

LEMMA LibraryStep ==
  ASSUME LibOK(library), [LibNext]_library
  PROVE  LibOK(library')
<1>1. ASSUME NEW q \in Incoming, Upsert(q) PROVE LibOK(library')
  BY <1>1, UpsertKeeps DEF Upsert
<1>2. ASSUME NEW q \in Incoming, ImportReplace(q) PROVE LibOK(library')
  <2> DEFINE one == <<q>>
  <2>1. q \in StampedRecords /\ Named(q) /\ Sensible(q)
    BY IncomingType
  <2>2. one \in Seq(StampedRecords) /\ DOMAIN one = {1} /\ one[1] = q
    BY <2>1
  <2>3. library' = one
    BY <1>2 DEF ImportReplace
  <2> HIDE DEF one
  <2> QED BY <2>1, <2>2, <2>3 DEF LibOK, Apart
<1>3. ASSUME NEW i \in 1 .. MaxRecords, Delete(i) PROVE LibOK(library')
  BY <1>3, DeleteKeeps DEF Delete
<1>4. ASSUME NEW i \in 1 .. MaxRecords, NEW p \in Payloads, NEW v \in BOOLEAN, VerifyMode(i, p, v)
      PROVE  LibOK(library')
  <2> DEFINE stamp == IF v THEN p ELSE unstamped
             r == [library[i] EXCEPT !.stamp = stamp]
  <2>1. i \in DOMAIN library /\ library[i].mode = p /\ library' = [library EXCEPT ![i].stamp = stamp]
    BY <1>4 DEF VerifyMode
  <2>2. library \in Seq(StampedRecords) /\ library[i] \in StampedRecords
    BY <2>1, LenProperties, ElementOfSeq DEF LibOK
  <2>3. stamp \in Payloads \cup {unstamped} /\ stamp \in {unstamped, p}
    OBVIOUS
  <2> HIDE DEF stamp
  <2>4. /\ r \in StampedRecords /\ r.maker = library[i].maker /\ r.model = library[i].model
        /\ r.mode = library[i].mode /\ r.stamp = stamp
    BY <2>2, <2>3 DEF StampedRecords
  <2>5. library' = [library EXCEPT ![i] = r]
    BY <2>1
  <2> HIDE DEF r
  <2>6. /\ library' \in Seq(StampedRecords) /\ DOMAIN library' = DOMAIN library
        /\ \A k \in DOMAIN library : library'[k] = IF k = i THEN r ELSE library[k]
    BY <2>1, <2>2, <2>4, <2>5, ExceptSeq, LenProperties
  <2>7. Sensible(r)
    BY <2>1, <2>3, <2>4 DEF LibOK, Sensible
  <2>8. \A k \in DOMAIN library :
          library'[k].maker = library[k].maker /\ library'[k].model = library[k].model
    BY <2>4, <2>6
  <2>9. Apart(library')
    <3>1. ASSUME NEW k \in DOMAIN library PROVE Named(library'[k])
      <4>1. Named(library[k])
        BY DEF LibOK, Apart
      <4> QED BY <2>8, <4>1 DEF Named, Key
    <3>2. ASSUME NEW k \in DOMAIN library, NEW l \in DOMAIN library, k # l
          PROVE  Distinct(library'[k], library'[l])
      <4>1. Distinct(library[k], library[l])
        BY <3>2 DEF LibOK, Apart
      <4> QED BY <2>8, <4>1 DEF Distinct, Key
    <3> QED BY <2>6, <3>1, <3>2 DEF Apart
  <2>10. \A k \in DOMAIN library' : Sensible(library'[k])
    BY <2>6, <2>7 DEF LibOK
  <2> QED BY <2>6, <2>9, <2>10 DEF LibOK
<1>5. CASE UNCHANGED library
  BY <1>5
<1> QED BY <1>1, <1>2, <1>3, <1>4, <1>5 DEF LibNext

LEMMA LibraryHolds ==
  LibSpec => []LibOK(library)
<1>1. LibInit => LibOK(library)
  BY LibraryStarts
<1>2. LibOK(library) /\ [LibNext]_library => LibOK(library)'
  BY LibraryStep
<1> QED BY <1>1, <1>2, PTL DEF LibSpec

\* The library of every session, for all names and however they contain one another,
\* is one its own loader accepts: a tolerant match that fills in a missing name gives
\* no record the key of another (library/store.go, upsertLocked and normalize).
THEOREM LibraryLoadsAgain ==
  LibSpec => [](LoadsAgain /\ StampIsCurrent)
<1>1. LibOK(library) => LoadsAgain /\ StampIsCurrent
  <2> SUFFICES ASSUME LibOK(library) PROVE LoadsAgain /\ StampIsCurrent
    OBVIOUS
  <2>1. LoadsAgain
    BY DEF LibOK, Apart, Distinct, Named, LoadsAgain
  <2>2. StampIsCurrent
    BY DEF LibOK, Sensible, StampIsCurrent
  <2> QED BY <2>1, <2>2
<1> QED BY <1>1, LibraryHolds, PTL

\* Whatever the library holds, importing the same record twice is importing it once.
THEOREM UpsertsSettle ==
  LibSpec => []UpsertSettles
<1>1. LibOK(library) => UpsertSettles
  <2> SUFFICES ASSUME LibOK(library), NEW q \in Incoming
               PROVE  UpsertLocked(UpsertLocked(library, q), q) = UpsertLocked(library, q)
    BY DEF UpsertSettles
  <2>1. library \in Seq(StampedRecords) /\ \A k \in DOMAIN library : Named(library[k])
    BY DEF LibOK, Apart
  <2>2. CASE Match(library, q) = 0 /\ \A i \in DOMAIN library : ~Matches(library[i], q)
    <3>1. UpsertLocked(library, q) = Inserted(library, q)
      BY <2>2 DEF UpsertLocked
    <3> QED BY <2>1, <2>2, <3>1, InsertedSettles
  <2>3. CASE Match(library, q) \in DOMAIN library /\ Matches(library[Match(library, q)], q)
    <3> DEFINE i == Match(library, q)
    <3>1. i # 0
      BY <2>1, <2>3, LenProperties
    <3>2. UpsertLocked(library, q) = [library EXCEPT ![i] = Merged(@, q)]
      BY <3>1 DEF UpsertLocked
    <3> QED BY <2>1, <2>3, <3>2, MergedSettles
  <2> QED BY <2>1, <2>2, <2>3, IncomingType, MatchFinds
<1> QED BY <1>1, LibraryHolds, PTL

\* "Never lose what is already known" (library/store.go, mergeRecord): no upsert takes
\* a mode's channel map away, nor the detail of a map that stays.
THEOREM LibraryNeverLoses ==
  LibSpec => []NeverLoses
<1>1. LibOK(library) => NeverLoses
  <2> SUFFICES ASSUME LibOK(library), NEW i \in DOMAIN library, NEW q \in Incoming, Match(library, q) = i
               PROVE  LET old == library[i].mode   new == UpsertLocked(library, q)[i].mode
                      IN (old.map # 0 => new.map # 0) /\ (old.detail /\ new.map = old.map => new.detail)
    BY DEF NeverLoses
  <2>1. library \in Seq(StampedRecords) /\ Sensible(library[i])
    BY DEF LibOK
  <2>2. library[i] \in StampedRecords /\ i # 0
    BY <2>1, LenProperties, ElementOfSeq
  <2>3. q \in StampedRecords /\ q.mode \in Told
    BY IncomingType
  <2>4. UpsertLocked(library, q)[i] = Merged(library[i], q)
    BY <2>2 DEF UpsertLocked
  <2>5. UpsertLocked(library, q)[i].mode = MergeMode(q.mode, library[i].mode)
    BY <2>2, <2>3, <2>4, MergedFields
  <2>6. library[i].mode \in Payloads /\ (library[i].mode.map = 0 => ~library[i].mode.detail)
    BY <2>1, <2>2 DEF Sensible, StampedRecords
  <2> QED BY <2>3, <2>5, <2>6, ModesGrow
<1> QED BY <1>1, LibraryHolds, PTL

-----------------------------------------------------------------------------
(* FixtureModel.  The proofs about light use only what ModelOK says of a model, and  *)
(* of its tree only what Hangs says.                                                 *)

(* The geometry tree: m steps up from every instance.                        *)
Up(t, u, n) ==
  IF n = 0 THEN [i \in Anywhere |-> i]
  ELSE LET below == u[n - 1] IN [i \in Anywhere |-> Parent(t, below[i])]
Walks(t, u, m) == u = [n \in 0 .. m |-> Up(t, u, n)]

LEMMA WalkExists ==
  ASSUME NEW t, NEW m \in Nat
  PROVE  \E u : Walks(t, u, m)
<1> DEFINE T == {j \in Nat : \E u : Walks(t, u, j)}
<1>1. 0 \in T
  <2> DEFINE u == [n \in 0 .. 0 |-> [i \in Anywhere |-> i]]
  <2>1. \A n \in 0 .. 0 : n = 0
    OBVIOUS
  <2>2. Walks(t, u, 0)
    BY <2>1 DEF Walks, Up
  <2> HIDE DEF u
  <2> QED BY <2>2
<1>2. ASSUME NEW j \in T PROVE j + 1 \in T
  <2>1. PICK g : g = [n \in 0 .. j |-> Up(t, g, n)]
    BY DEF Walks
  <2> DEFINE h == [n \in 0 .. j + 1 |-> IF n <= j THEN g[n] ELSE Up(t, g, n)]
  <2>2. j \in Nat
    OBVIOUS
  <2>3. ASSUME NEW n \in 0 .. j + 1 PROVE h[n] = Up(t, h, n)
    <3>1. h[n] = Up(t, g, n)
      <4>1. CASE n <= j
        <5>1. n \in 0 .. j
          BY <2>2, <4>1
        <5> HIDE DEF Up
        <5>2. g[n] = Up(t, g, n)
          BY <2>1, <5>1
        <5> QED BY <4>1, <5>2
      <4>2. CASE ~(n <= j)
        BY <4>2
      <4> QED BY <4>1, <4>2
    <3>2. CASE n = 0
      BY <3>1, <3>2 DEF Up
    <3>3. CASE n # 0
      <4>1. n - 1 \in 0 .. j + 1 /\ n - 1 <= j
        BY <2>2, <3>3
      <4>2. h[n - 1] = g[n - 1]
        BY <4>1
      <4> QED BY <3>1, <3>3, <4>2 DEF Up
    <3> QED BY <3>2, <3>3
  <2>4. h = [n \in 0 .. j + 1 |-> h[n]]
    OBVIOUS
  <2> HIDE DEF h
  <2>5. Walks(t, h, j + 1)
    BY <2>3, <2>4 DEF Walks
  <2> QED BY <2>2, <2>5
<1>3. T = Nat
  <2> HIDE DEF T
  <2>1. T \subseteq Nat
    BY DEF T
  <2> QED BY <1>1, <1>2, <2>1, NatSetInduction
<1> QED BY <1>3

LEMMA AncestorsAreSteps ==
  ASSUME NEW t, t # NoTree, Cardinality(Instances) \in Nat
  PROVE  \E u : /\ Walks(t, u, Cardinality(Instances))
                /\ Ancestors(t) = [i \in Anywhere |-> {u[n][i] : n \in 1 .. Cardinality(Instances)} \ {Root}]
<1> DEFINE N == Cardinality(Instances)
           K == CHOOSE u : u = [n \in 0 .. N |-> Up(t, u, n)]
<1>1. \E u : u = [n \in 0 .. N |-> Up(t, u, n)]
  BY WalkExists DEF Walks
<1>2. K = [n \in 0 .. N |-> Up(t, K, n)]
  BY <1>1
<1>3. Ancestors(t) = [i \in Anywhere |-> {u[i] : u \in {K[n] : n \in 1 .. N}} \ {Root}]
  BY DEF Ancestors, Up
<1> HIDE DEF K
<1>4. \A i : {u[i] : u \in {K[n] : n \in 1 .. N}} = {K[n][i] : n \in 1 .. N}
  OBVIOUS
<1>5. Ancestors(t) = [i \in Anywhere |-> {K[n][i] : n \in 1 .. N} \ {Root}]
  BY <1>3, <1>4
<1> QED BY <1>2, <1>5 DEF Walks

\* One step from any place, at any height.
LEMMA WalkSteps ==
  ASSUME NEW t, NEW u, NEW m \in Nat, Walks(t, u, m)
  PROVE  /\ \A i \in Anywhere : u[0][i] = i
         /\ \A n \in 0 .. m - 1, i \in Anywhere : u[n + 1][i] = Parent(t, u[n][i])
<1>1. \A n \in 0 .. m : u[n] = Up(t, u, n)
  BY DEF Walks
<1>2. 0 \in 0 .. m
  OBVIOUS
<1>3. u[0] = [i \in Anywhere |-> i]
  BY <1>1, <1>2 DEF Up
<1>4. ASSUME NEW n \in 0 .. m - 1, NEW i \in Anywhere
      PROVE  u[n + 1][i] = Parent(t, u[n][i])
  <2>1. n + 1 \in 0 .. m /\ n + 1 # 0 /\ (n + 1) - 1 = n
    OBVIOUS
  <2>2. u[n + 1] = [j \in Anywhere |-> Parent(t, u[n][j])]
    BY <1>1, <2>1 DEF Up
  <2> QED BY <2>2
<1> QED BY <1>3, <1>4

LEMMA WalkStays ==
  ASSUME NEW t \in Trees, NEW u, NEW m \in Nat, Walks(t, u, m)
  PROVE  \A n \in 0 .. m : u[n][Root] = Root /\ \A i \in Anywhere : u[n][i] \in Anywhere
<1> DEFINE Good(n) == u[n][Root] = Root /\ \A i \in Anywhere : u[n][i] \in Anywhere
           T == {n \in Nat : n <= m => Good(n)}
<1>1. Root \in Anywhere /\ \A i \in Anywhere : Parent(t, i) \in Anywhere
  BY ModelConstants DEF Parent, Anywhere
<1>2. Parent(t, Root) = Root
  BY DEF Parent
<1>3. 0 \in T
  BY <1>1, WalkSteps
<1>4. ASSUME NEW n \in T PROVE n + 1 \in T
  <2> SUFFICES ASSUME n + 1 <= m PROVE Good(n + 1)
    OBVIOUS
  <2>1. n \in 0 .. m - 1 /\ n <= m
    OBVIOUS
  <2>2. \A i \in Anywhere : u[n + 1][i] = Parent(t, u[n][i])
    BY <2>1, WalkSteps
  <2> QED BY <1>1, <1>2, <2>1, <2>2
<1>5. T = Nat
  <2> HIDE DEF T
  <2>1. T \subseteq Nat
    BY DEF T
  <2> QED BY <1>3, <1>4, <2>1, NatSetInduction
<1> QED BY <1>5

LEMMA WalkAdds ==
  ASSUME NEW t \in Trees, NEW u, NEW m \in Nat, Walks(t, u, m), NEW i \in Anywhere, NEW n \in 0 .. m
  PROVE  \A j \in 0 .. m - n : u[n + j][i] = u[j][u[n][i]]
<1> DEFINE Good(j) == u[n + j][i] = u[j][u[n][i]]
           T == {j \in Nat : n + j <= m => Good(j)}
<1>1. u[n][i] \in Anywhere
  BY WalkStays
<1>2. 0 \in T
  BY <1>1, WalkSteps
<1>3. ASSUME NEW j \in T PROVE j + 1 \in T
  <2> SUFFICES ASSUME n + (j + 1) <= m PROVE Good(j + 1)
    OBVIOUS
  <2>1. /\ n + j <= m /\ n + j \in 0 .. m - 1 /\ j \in 0 .. m - 1 /\ n + (j + 1) = (n + j) + 1
    OBVIOUS
  <2>2. u[n + j][i] = u[j][u[n][i]]
    BY <2>1
  <2>3. u[(n + j) + 1][i] = Parent(t, u[n + j][i])
    BY <2>1, WalkSteps
  <2>4. u[j + 1][u[n][i]] = Parent(t, u[j][u[n][i]])
    BY <1>1, <2>1, WalkSteps
  <2> QED BY <2>1, <2>2, <2>3, <2>4
<1>4. T = Nat
  <2> HIDE DEF T
  <2>1. T \subseteq Nat
    BY DEF T
  <2> QED BY <1>2, <1>3, <2>1, NatSetInduction
<1>5. \A j \in 0 .. m - n : j \in Nat /\ n + j <= m
  OBVIOUS
<1> QED BY <1>4, <1>5

\* What the proofs need of a tree: the ancestors of an ancestor are ancestors, nothing
\* is its own, and of two that one place has, one is the other's.
Hangs(above) ==
  /\ above \in [Anywhere -> SUBSET Instances] /\ above[Root] = {}
  /\ \A i \in Instances : i \notin above[i]
  /\ \A i \in Instances : \A x \in above[i] : above[x] \subseteq above[i]
  /\ \A i \in Instances : \A x, y \in {i} \cup above[i] : x = y \/ x \in above[y] \/ y \in above[x]

LEMMA TreesHang ==
  ASSUME NEW t \in Trees, t # NoTree
  PROVE  Hangs(Ancestors(t))
<1> DEFINE N == Cardinality(Instances)
           above == Ancestors(t)
<1>1. IsFiniteSet(Instances) /\ N \in Nat /\ Root \notin Instances
  BY ModelConstants, FS_CardinalityType
<1>2. PICK u : Walks(t, u, N) /\ above = [i \in Anywhere |-> {u[n][i] : n \in 1 .. N} \ {Root}]
  BY <1>1, AncestorsAreSteps
<1> HIDE DEF above, N
<1>3. \A i \in Instances : i \notin above[i]
  BY TreesAreTrees DEF above
<1>4. /\ \A n \in 0 .. N : u[n][Root] = Root /\ \A i \in Anywhere : u[n][i] \in Anywhere
      /\ \A i \in Anywhere : u[0][i] = i
  BY <1>1, <1>2, WalkStays, WalkSteps
<1>5. \A i \in Anywhere, n \in 0 .. N : \A j \in 0 .. N - n : u[n + j][i] = u[j][u[n][i]]
  BY <1>1, <1>2, WalkAdds
<1>6. Root \in Anywhere /\ Instances \subseteq Anywhere /\ \A i \in Anywhere : i = Root \/ i \in Instances
  BY DEF Anywhere
<1>7. ASSUME NEW i \in Anywhere, NEW x
      PROVE  x \in above[i] <=> x # Root /\ \E n \in 1 .. N : x = u[n][i]
  BY <1>2
<1>8. above \in [Anywhere -> SUBSET Instances]
  <2>1. ASSUME NEW i \in Anywhere PROVE {u[n][i] : n \in 1 .. N} \ {Root} \in SUBSET Instances
    <3>1. \A n \in 1 .. N : n \in 0 .. N
      BY <1>1
    <3> QED BY <1>4, <1>6, <3>1
  <2> QED BY <1>2, <2>1
<1>9. above[Root] = {}
  <2>1. \A n \in 1 .. N : u[n][Root] = Root
    BY <1>1, <1>4
  <2> QED BY <1>6, <1>7, <2>1
<1>10. ASSUME NEW i \in Instances PROVE u[N][i] = Root
  <2> SUFFICES ASSUME u[N][i] # Root PROVE FALSE
    OBVIOUS
  <2> DEFINE f == [n \in 0 .. N |-> u[n][i]]
  <2>1. ASSUME NEW n \in 0 .. N PROVE u[n][i] \in Instances
    <3>1. N - n \in 0 .. N - n /\ N - n \in 0 .. N /\ n + (N - n) = N
      BY <1>1
    <3>2. u[N][i] = u[N - n][u[n][i]]
      BY <1>5, <1>6, <3>1
    <3>3. u[n][i] # Root
      BY <1>4, <3>1, <3>2
    <3> QED BY <1>4, <1>6, <3>3
  <2>2. f \in [0 .. N -> Instances] /\ \A n \in 0 .. N : f[n] = u[n][i]
    BY <2>1
  <2> HIDE DEF f
  <2>3. IsFiniteSet(0 .. N) /\ Cardinality(0 .. N) = N + 1
    <3>1. 0 \in Int /\ N \in Int
      BY <1>1
    <3>2. IsFiniteSet(0 .. N) /\ Cardinality(0 .. N) = IF 0 > N THEN 0 ELSE N - 0 + 1
      BY <3>1, FS_Interval
    <3> QED BY <1>1, <3>2
  <2>4. Cardinality(Instances) < Cardinality(0 .. N)
    BY <1>1, <2>3 DEF N
  <2>5. PICK a, b \in 0 .. N : a # b /\ f[a] = f[b]
    <3>1. f \in [0 .. N -> Instances]
      BY <2>2
    <3> QED BY <1>1, <2>3, <2>4, <3>1, FS_PigeonHole
  <2>6. ASSUME NEW v \in 0 .. N, NEW w \in 0 .. N, v < w, f[v] = f[w] PROVE FALSE
    <3>1. w - v \in 1 .. N /\ w - v \in 0 .. N - v /\ v + (w - v) = w
      BY <1>1, <2>6
    <3>2. u[w][i] = u[w - v][u[v][i]]
      BY <1>5, <1>6, <3>1
    <3>3. u[v][i] = u[w - v][u[v][i]]
      BY <2>2, <2>6, <3>2
    <3>4. u[v][i] \in Instances /\ u[v][i] # Root
      BY <1>1, <2>1
    <3>5. u[v][i] \in above[u[v][i]]
      BY <1>6, <1>7, <3>1, <3>3, <3>4
    <3> QED BY <1>3, <3>4, <3>5
  <2>7. a < b \/ b < a
    BY <1>1, <2>5
  <2> QED BY <2>5, <2>6, <2>7
<1>11. ASSUME NEW i \in Instances, NEW x \in above[i], NEW y \in above[x] PROVE y \in above[i]
  <2>1. PICK a \in 1 .. N : x = u[a][i]
    BY <1>6, <1>7
  <2>2. x \in Instances
    BY <1>6, <1>8
  <2>3. PICK b \in 1 .. N : y = u[b][x]
    BY <1>6, <1>7, <2>2
  <2>4. y # Root
    BY <1>6, <1>7, <2>2
  <2>5. CASE a + b <= N
    <3>1. a + b \in 1 .. N /\ a \in 0 .. N /\ b \in 0 .. N - a
      BY <1>1, <2>5
    <3>2. y = u[a + b][i]
      BY <1>5, <1>6, <2>1, <2>3, <3>1
    <3> QED BY <1>6, <1>7, <2>4, <3>1, <3>2
  <2>6. CASE ~(a + b <= N)
    <3> DEFINE c == N - a
    <3>1. a \in 0 .. N /\ c \in 0 .. N - a /\ c \in 0 .. N /\ b - c \in 0 .. N - c /\ a + c = N /\ c + (b - c) = b
          /\ b - c \in 0 .. N
      BY <1>1, <2>6
    <3> HIDE DEF c
    <3>2. u[c][x] = Root
      BY <1>5, <1>6, <1>10, <2>1, <3>1
    <3>3. u[b][x] = u[b - c][u[c][x]]
      BY <1>5, <1>6, <2>2, <3>1
    <3>4. u[b - c][Root] = Root
      BY <1>4, <3>1
    <3> QED BY <2>3, <2>4, <3>2, <3>3, <3>4
  <2> QED BY <2>5, <2>6
<1>12. ASSUME NEW i \in Instances, NEW x \in {i} \cup above[i]
       PROVE  x # Root /\ \E n \in 0 .. N : x = u[n][i]
  <2>1. CASE x = i
    <3>1. 0 \in 0 .. N /\ i # Root
      BY <1>1
    <3> QED BY <1>4, <1>6, <2>1, <3>1
  <2>2. CASE x \in above[i]
    <3>1. \A n \in 1 .. N : n \in 0 .. N
      BY <1>1
    <3> QED BY <1>6, <1>7, <2>2, <3>1
  <2> QED BY <2>1, <2>2
<1>13. ASSUME NEW i \in Instances, NEW n \in 0 .. N, NEW k \in 0 .. N, n < k, u[k][i] # Root
       PROVE  u[k][i] \in above[u[n][i]]
  <2>1. k - n \in 1 .. N /\ k - n \in 0 .. N - n /\ n + (k - n) = k
    BY <1>1, <1>13
  <2>2. u[k][i] = u[k - n][u[n][i]]
    BY <1>5, <1>6, <2>1
  <2>3. u[n][i] \in Anywhere
    BY <1>4, <1>6
  <2> QED BY <1>7, <1>13, <2>1, <2>2, <2>3
<1>14. ASSUME NEW i \in Instances, NEW x \in {i} \cup above[i], NEW y \in {i} \cup above[i]
       PROVE  x = y \/ x \in above[y] \/ y \in above[x]
  <2>1. PICK a \in 0 .. N : x = u[a][i]
    BY <1>12
  <2>2. PICK b \in 0 .. N : y = u[b][i]
    BY <1>12
  <2>3. x # Root /\ y # Root
    BY <1>12
  <2>4. CASE a = b
    BY <2>1, <2>2, <2>4
  <2>5. CASE a < b
    BY <1>13, <2>1, <2>2, <2>3, <2>5
  <2>6. CASE b < a
    BY <1>13, <2>1, <2>2, <2>3, <2>6
  <2> QED BY <1>1, <2>4, <2>5, <2>6
<1>15. Hangs(above)
  BY <1>3, <1>8, <1>9, <1>11, <1>14 DEF Hangs
<1> QED BY <1>15 DEF above

-----------------------------------------------------------------------------
(* What a model is like, whatever the profile it was built of.               *)
ModelOK(m) ==
  /\ IsFiniteSet(m.dimmers) /\ m.dimmers \subseteq [inst : Anywhere, virtual : BOOLEAN]
  /\ m.cells \subseteq Instances /\ m.lit \subseteq Instances
  /\ Hangs(m.above)
  /\ \A d \in m.dimmers : d.virtual =>
       /\ d.inst \in {Root} \cup m.cells /\ PartOf(d) \notin m.master
       /\ \A e \in m.dimmers : ~e.virtual =>
            e.inst \notin Scope(m.cells, d.inst) /\ (d.inst # Root => PartOf(e) # PartOf(d))
  /\ \A s \in m.cells : PartKey(s) \notin m.master
  /\ \A s \in {Root} \cup m.cells : m.scales[s] \subseteq Scope(m.cells, s)
  /\ m.channels = {d \in m.dimmers : ~d.virtual /\ PartOf(d) \in m.master}
  /\ m.inner = Inner(m.dimmers, m.above)
  /\ m.under = {d \in m.dimmers : d.inst # Root /\ \E c \in m.channels : c.inst \in {d.inst} \cup m.above[d.inst]}
  /\ m.hasVirtualMaster => m.multiplied = Multiplied(m.dimmers, m.inner, m.master, m.under)
  /\ m.parts = {PartOf(d) : d \in m.dimmers}
  /\ \E k : m.master \subseteq {k}

LEMMA FewAreEqual ==
  ASSUME NEW S, IsFiniteSet(S), Cardinality(S) <= 1, NEW x \in S, NEW y \in S
  PROVE  x = y
<1>1. Cardinality(S) \in Nat /\ Cardinality(S) # 0
  BY FS_CardinalityType, FS_EmptySet
<1>2. Cardinality(S) = 1
  BY <1>1
<1> QED BY <1>2, FS_Singleton

LEMMA EqualAreFew ==
  ASSUME NEW S, \A x, y \in S : x = y
  PROVE  Cardinality(S) <= 1 /\ (S # {} => Cardinality(S) = 1)
<1>1. CASE S = {}
  BY <1>1, FS_EmptySet
<1>2. CASE S # {}
  <2>1. PICK x : S = {x}
    BY <1>2
  <2> QED BY <1>2, <2>1, FS_Singleton
<1> QED BY <1>1, <1>2

\* The dimmers the light of an emitter passes: where they are.
LEMMA LightPasses ==
  ASSUME NEW m, ModelOK(m), NEW i \in Instances, NEW d \in Passes(m, i)
  PROVE  /\ d \in m.dimmers /\ d.inst \in Anywhere
         /\ ~d.virtual => d.inst \in {i} \cup m.above[i] /\ d.inst \in Instances
         /\ d.virtual => IF d.inst = Root THEN i \notin m.cells ELSE d.inst = i /\ i \in m.cells
<1>1. d \in m.dimmers /\ d.inst \in Anywhere
  BY DEF Passes, ModelOK
<1>2. ASSUME ~d.virtual PROVE d.inst \in {i} \cup m.above[i] /\ d.inst \in Instances
  BY <1>2 DEF Passes, ModelOK, Hangs, Anywhere
<1>3. ASSUME d.virtual PROVE IF d.inst = Root THEN i \notin m.cells ELSE d.inst = i /\ i \in m.cells
  <2>1. i \in m.scales[d.inst] /\ d.inst \in {Root} \cup m.cells
    BY <1>3 DEF Passes, ModelOK
  <2>2. i \in Scope(m.cells, d.inst)
    BY <2>1 DEF ModelOK
  <2>3. Root \notin m.cells
    BY ModelConstants DEF ModelOK
  <2> QED BY <2>1, <2>2, <2>3 DEF Scope
<1> QED BY <1>1, <1>2, <1>3

LEMMA RealIsReal ==
  ASSUME NEW m, ModelOK(m), NEW d \in m.dimmers, NEW e \in m.dimmers, d.inst = e.inst, d.virtual = e.virtual
  PROVE  d = e
BY DEF ModelOK

\* Of one part, light passes one outermost dimmer at most.
LEMMA OutermostIsAlone ==
  ASSUME NEW m, ModelOK(m), PartsApart(m), NEW i \in m.lit,
         NEW d \in Passes(m, i) \ m.inner, NEW e \in Passes(m, i) \ m.inner, PartOf(d) = PartOf(e)
  PROVE  d = e
<1>1. i \in Instances
  BY DEF ModelOK
<1>2. /\ d \in m.dimmers /\ e \in m.dimmers
      /\ ~d.virtual => d.inst \in {i} \cup m.above[i] /\ d.inst \in Instances
      /\ ~e.virtual => e.inst \in {i} \cup m.above[i] /\ e.inst \in Instances
      /\ d.virtual => IF d.inst = Root THEN i \notin m.cells ELSE d.inst = i /\ i \in m.cells
      /\ e.virtual => IF e.inst = Root THEN i \notin m.cells ELSE e.inst = i /\ i \in m.cells
  BY <1>1, LightPasses
<1>3. d.inst \notin m.above[e.inst] /\ e.inst \notin m.above[d.inst]
  BY <1>2 DEF ModelOK, Inner
<1>4. CASE ~d.virtual /\ ~e.virtual
  <2>1. d.inst = e.inst
    BY <1>1, <1>2, <1>3, <1>4 DEF ModelOK, Hangs
  <2> QED BY <1>2, <1>4, <2>1, RealIsReal DEF ModelOK
<1>5. CASE d.virtual /\ e.virtual
  <2>1. d.inst = e.inst
    BY <1>2, <1>5
  <2> QED BY <1>2, <1>5, <2>1, RealIsReal DEF ModelOK
<1>6. ASSUME NEW v \in Passes(m, i), NEW r \in Passes(m, i), v.virtual, ~r.virtual, PartOf(v) = PartOf(r)
      PROVE  FALSE
  <2>1. /\ v \in m.dimmers /\ r \in m.dimmers /\ r.inst \in {i} \cup m.above[i] /\ r.inst \in Instances
        /\ v.inst = Root => i \notin m.cells
    BY <1>1, <1>6, LightPasses
  <2>2. r.inst \notin Scope(m.cells, v.inst) /\ v.inst = Root
    BY <1>6, <2>1 DEF ModelOK
  <2>3. r.inst \in m.cells /\ i \notin m.cells
    BY <2>1, <2>2, ModelConstants DEF Scope, ModelOK, Anywhere
  <2>4. r.inst \in m.above[i] \cap m.cells /\ i \in m.lit \ m.cells
    BY <2>1, <2>3
  <2>5. PartKey(r.inst) # RootKey
    BY <2>4 DEF PartsApart
  <2>6. PartOf(v) = RootKey /\ PartOf(r) = PartKey(r.inst)
    BY <2>2 DEF PartOf, PartKey
  <2> QED BY <1>6, <2>5, <2>6
<1>7. CASE d.virtual /\ ~e.virtual
  BY <1>6, <1>7
<1>8. CASE ~d.virtual /\ e.virtual
  BY <1>6, <1>8
<1> QED BY <1>4, <1>5, <1>7, <1>8

\* And one there is, of every part whose dimmers it passes.
LEMMA OutermostIsThere ==
  ASSUME NEW m, ModelOK(m), PartsApart(m), NEW i \in m.lit, NEW p \in Passes(m, i)
  PROVE  \E d \in Passes(m, i) \ m.inner : PartOf(d) = PartOf(p)
<1>1. i \in Instances
  BY DEF ModelOK
<1> DEFINE Q == {d \in Passes(m, i) : ~d.virtual /\ PartOf(d) = PartOf(p)}
           height(d) == Cardinality(m.above[d.inst])
           H == {height(d) : d \in Q}
<1>2. CASE Q # {}
  <2>1. ASSUME NEW x \in Instances PROVE IsFiniteSet(m.above[x]) /\ Cardinality(m.above[x]) \in Nat
    <3>1. m.above[x] \in SUBSET Instances
      BY DEF ModelOK, Hangs, Anywhere
    <3>2. IsFiniteSet(Instances)
      BY ModelConstants
    <3>3. IsFiniteSet(m.above[x])
      BY <3>1, <3>2, FS_Subset
    <3> QED BY <3>3, FS_CardinalityType
  <2>2. \A d \in Q : /\ d \in m.dimmers /\ d.inst \in Instances /\ d.inst \in {i} \cup m.above[i]
                    /\ height(d) \in Nat
    BY <1>1, <2>1, LightPasses
  <2>3. H \subseteq Nat /\ H # {}
    BY <1>2, <2>2
  <2>4. PICK h \in H : \A y \in H : h <= y
    BY <2>3, SmallestNumber
  <2>5. PICK d \in Q : \A e \in Q : height(d) <= height(e)
    BY <2>4
  <2>6. d \notin m.inner
    <3> SUFFICES ASSUME d \in m.inner PROVE FALSE
      OBVIOUS
    <3>1. PICK e \in m.dimmers : PartOf(e) = PartOf(d) /\ e.inst \in m.above[d.inst]
      BY DEF ModelOK, Inner
    <3>2. e.inst \in Instances /\ e.inst # Root
      BY <2>2, <3>1, ModelConstants DEF ModelOK, Hangs, Anywhere
    <3>3. ~e.virtual
      BY <2>2, <3>1, <3>2 DEF ModelOK
    <3>4. /\ m.above[e.inst] \subseteq m.above[d.inst] /\ e.inst \notin m.above[e.inst]
          /\ e.inst \in m.above[i]
      BY <1>1, <2>2, <3>1, <3>2 DEF ModelOK, Hangs
    <3>5. e \in Q
      BY <3>1, <3>3, <3>4 DEF Passes
    <3>6. IsFiniteSet(m.above[d.inst]) /\ m.above[e.inst] \in SUBSET m.above[d.inst]
      BY <2>1, <2>2, <3>4
    <3>7. /\ height(e) <= height(d)
          /\ height(d) = height(e) => m.above[d.inst] = m.above[e.inst]
      BY <3>6, FS_Subset
    <3>8. height(d) # height(e)
      BY <3>1, <3>4, <3>7
    <3> HIDE DEF height
    <3>9. height(d) <= height(e) /\ height(e) \in Nat /\ height(d) \in Nat
      BY <2>2, <2>5, <3>5
    <3> QED BY <3>7, <3>8, <3>9
  <2> QED BY <2>6
<1>3. CASE Q = {}
  <2>1. p.virtual
    BY <1>3
  <2>2. p \in m.dimmers /\ (p.inst # Root => p.inst = i /\ i \in m.cells)
    BY <1>1, <2>1, LightPasses
  <2>3. p \notin m.inner
    <3> SUFFICES ASSUME p \in m.inner PROVE FALSE
      OBVIOUS
    <3>1. PICK e \in m.dimmers : PartOf(e) = PartOf(p) /\ e.inst \in m.above[p.inst]
      BY DEF ModelOK, Inner
    <3>2. p.inst # Root
      BY <3>1 DEF ModelOK, Hangs
    <3>3. e.inst \in Instances /\ e.inst # Root
      BY <1>1, <2>2, <3>1, <3>2, ModelConstants DEF ModelOK, Hangs, Anywhere
    <3>4. e.virtual
      BY <2>1, <2>2, <3>1, <3>2 DEF ModelOK
    <3>5. e.inst \in m.cells
      BY <3>3, <3>4 DEF ModelOK
    <3> QED BY <2>2, <3>1, <3>2, <3>5 DEF PartsApart
  <2> QED BY <2>3
<1> QED BY <1>2, <1>3

\* A master channel that the light passes is above every dimmer it passes besides.
LEMMA MasterIsAbove ==
  ASSUME NEW m, ModelOK(m), PartsApart(m), NEW i \in m.lit,
         NEW c \in Passes(m, i) \cap m.channels, NEW d \in Passes(m, i), PartOf(d) \notin m.master
  PROVE  d \in m.under
<1>1. i \in Instances
  BY DEF ModelOK
<1>2. c \in m.dimmers /\ ~c.virtual /\ PartOf(c) \in m.master
  BY DEF ModelOK
<1>3. /\ c.inst \in {i} \cup m.above[i] /\ c.inst \in Instances
      /\ d \in m.dimmers
      /\ ~d.virtual => d.inst \in {i} \cup m.above[i] /\ d.inst \in Instances
      /\ d.virtual => IF d.inst = Root THEN i \notin m.cells ELSE d.inst = i /\ i \in m.cells
  BY <1>1, <1>2, LightPasses
<1>4. c.inst \notin m.cells
  <2>1. PartOf(c) = PartKey(c.inst)
    BY DEF PartOf
  <2> QED BY <1>2, <2>1 DEF ModelOK
<1>5. d.inst # Root /\ c.inst \in {d.inst} \cup m.above[d.inst]
  <2>1. CASE d.virtual
    <3>1. d.inst # Root
      <4> SUFFICES ASSUME d.inst = Root PROVE FALSE
        OBVIOUS
      <4>1. c.inst \notin Scope(m.cells, Root)
        BY <1>2, <1>3, <2>1 DEF ModelOK
      <4>2. Root \notin m.cells
        BY ModelConstants DEF ModelOK
      <4> QED BY <1>3, <1>4, <4>1, <4>2 DEF Scope, Anywhere
    <3> QED BY <1>3, <2>1, <3>1
  <2>2. CASE ~d.virtual
    <3>1. d.inst \in {i} \cup m.above[i] /\ d.inst \in Instances
      BY <1>3, <2>2
    <3>2. d.inst # Root
      BY <3>1, ModelConstants
    <3>3. d.inst \notin m.above[c.inst]
      BY <1>3 DEF PartsApart
    <3> QED BY <1>1, <1>3, <3>1, <3>2, <3>3 DEF ModelOK, Hangs
  <2> QED BY <2>1, <2>2
<1> QED BY <1>3, <1>5 DEF ModelOK

\* A dimmer that lies under a master channel passes the channel's light on.
LEMMA UnderIsBelow ==
  ASSUME NEW m, ModelOK(m), NEW i \in m.lit, NEW d \in Passes(m, i), d \in m.under
  PROVE  Passes(m, i) \cap m.channels # {}
<1>1. i \in Instances
  BY DEF ModelOK
<1>2. PICK c \in m.channels : d.inst # Root /\ c.inst \in {d.inst} \cup m.above[d.inst]
  BY DEF ModelOK
<1>3. c \in m.dimmers /\ ~c.virtual
  BY DEF ModelOK
<1>4. d.inst \in {i} \cup m.above[i]
  BY <1>1, <1>2, LightPasses
<1>5. c.inst \in {i} \cup m.above[i]
  BY <1>1, <1>2, <1>4 DEF ModelOK, Hangs
<1>6. c \in Passes(m, i)
  BY <1>3, <1>5 DEF Passes
<1> QED BY <1>6

LEMMA OneMasterFactor ==
  ASSUME NEW m, ModelOK(m), m.hasVirtualMaster, PartsApart(m), NEW i \in m.lit, Passes(m, i) # {}
  PROVE  MasterFactors(m, i) = 1
<1> DEFINE P == Passes(m, i)
           C == P \cap m.channels
           S == P \cap m.multiplied
           K == {PartOf(d) : d \in P} \ m.master
<1>1. i \in Instances
  BY DEF ModelOK
<1>2. P \subseteq m.dimmers /\ IsFiniteSet(P)
  <2>1. P \in SUBSET m.dimmers
    BY DEF Passes
  <2> QED BY <2>1, FS_Subset DEF ModelOK
<1>3. Cardinality(C) <= 1 /\ Cardinality(K) <= 1
  BY DEF PartsApart
<1>4. IsFiniteSet(C) /\ IsFiniteSet(K)
  <2> DEFINE f == [d \in P |-> PartOf(d)]
             R == {PartOf(d) : d \in P}
  <2>1. f \in Surjection(P, R)
    BY DEF Surjection
  <2> HIDE DEF P, f
  <2>2. IsFiniteSet(R)
    BY <1>2, <2>1, FS_Surjection
  <2>3. C \in SUBSET P /\ K \in SUBSET R
    OBVIOUS
  <2> QED BY <1>2, <2>2, <2>3, FS_Subset
<1>5. ASSUME NEW d \in S PROVE /\ d \in P \ m.inner /\ PartOf(d) \in K
                              /\ \E e \in m.dimmers : PartOf(e) = PartOf(d) /\ e \notin m.under
  <2>1. d \in P /\ d \in m.dimmers \ m.inner /\ PartOf(d) \notin Governed(m.dimmers, m.master, m.under)
    BY <1>2 DEF ModelOK, Multiplied
  <2> QED BY <1>2, <2>1 DEF Governed
<1> HIDE DEF P, K
<1>6. CASE C # {}
  <2>1. Cardinality(C) = 1
    <3>1. \A c, e \in C : c = e
      BY <1>3, <1>4, FewAreEqual
    <3> QED BY <1>6, <3>1, EqualAreFew
  <2>2. S = {}
    <3> SUFFICES ASSUME NEW d \in S PROVE FALSE
      OBVIOUS
    <3>1. PICK c : c \in C
      BY <1>6
    <3>2. PartOf(d) \notin m.master /\ d \in P
      BY <1>5 DEF K
    <3>3. d \in m.under
      BY <3>1, <3>2, MasterIsAbove DEF P
    <3>4. PICK e \in m.dimmers : PartOf(e) = PartOf(d) /\ e \notin m.under
      BY <1>5
    <3> QED BY <1>2, <3>2, <3>3, <3>4 DEF PartsApart
  <2>3. Cardinality(C) + Cardinality(S) = 1
    BY <2>1, <2>2, FS_EmptySet
  <2> QED BY <2>3 DEF MasterFactors, P
<1>7. CASE C = {}
  <2>1. PICK p : p \in P
    BY DEF P
  <2>2. \A d \in P : PartOf(d) \in K /\ d \notin m.under
    <3>1. ASSUME NEW d \in P PROVE PartOf(d) \notin m.master
      BY <1>2, <1>7 DEF ModelOK
    <3>2. ASSUME NEW d \in P PROVE d \notin m.under
      BY <1>7, UnderIsBelow DEF P
    <3> QED BY <3>1, <3>2 DEF K
  <2>3. \A d, e \in P : PartOf(d) = PartOf(e)
    BY <1>3, <1>4, <2>2, FewAreEqual
  <2>4. PICK d \in P \ m.inner : PartOf(d) = PartOf(p)
    BY <2>1, OutermostIsThere DEF P
  <2>5. d \in S
    <3>1. d \in m.dimmers \ m.inner /\ d \notin m.under /\ PartOf(d) \notin m.master
      BY <1>2, <2>2 DEF K
    <3>2. PartOf(d) \notin Governed(m.dimmers, m.master, m.under)
      BY <3>1 DEF Governed
    <3> QED BY <3>1, <3>2 DEF ModelOK, Multiplied
  <2>6. \A x, y \in S : x = y
    <3> SUFFICES ASSUME NEW x \in S, NEW y \in S PROVE x = y
      OBVIOUS
    <3>1. x \in P \ m.inner /\ y \in P \ m.inner /\ PartOf(x) = PartOf(y)
      BY <1>5, <2>3
    <3> QED BY <3>1, OutermostIsAlone DEF P
  <2>7. Cardinality(S) = 1
    BY <2>5, <2>6, EqualAreFew
  <2>8. Cardinality(C) + Cardinality(S) = 1
    BY <1>7, <2>7, FS_EmptySet
  <2> QED BY <2>8 DEF MasterFactors, P
<1> QED BY <1>6, <1>7

LEMMA OnePartFactor ==
  ASSUME NEW m, ModelOK(m), PartsApart(m), NEW i \in m.lit, NEW k
  PROVE  PartFactors(m, i, k) <= 1
<1> DEFINE S == Passes(m, i) \cap PartDimmers(m, k)
<1>1. ASSUME NEW d \in S, NEW e \in S PROVE d = e
  <2>1. d \in Passes(m, i) \ m.inner /\ e \in Passes(m, i) \ m.inner /\ PartOf(d) = PartOf(e)
    BY DEF PartDimmers
  <2> QED BY <2>1, OutermostIsAlone
<1>2. Cardinality(S) <= 1
  <2> HIDE DEF S
  <2> QED BY <1>1, EqualAreFew
<1> QED BY <1>2 DEF PartFactors

\* What a highlighted cell opens holds every real dimmer above it.
LEMMA HighlightOpens ==
  ASSUME NEW m, ModelOK(m), CellsApart(m), NEW s \in m.cells, NEW d \in AboveCell(m, s)
  PROVE  d \in CellOpens(m, s)
<1>1. /\ d \in m.dimmers /\ ~d.virtual /\ d.inst # s
      /\ d.inst \in m.above[s]
  BY DEF AboveCell, Passes
<1>2. d \in OutsideCells(m)
  BY <1>1 DEF OutsideCells, CellsApart
<1>3. ASSUME NEW A, A \subseteq OutsideCells(m), d \in A, \A x \in A : PartOf(x) = PartOf(d),
             PartOf(d) \in m.master \cup {PartKey(c) : c \in m.cells}
      PROVE  d \in OneOf(A)
  <2>1. A = {d}
    BY <1>2, <1>3 DEF CellsApart
  <2> QED BY <2>1 DEF OneOf
<1>4. CASE PartOf(d) \in m.master
  <2> DEFINE A == {x \in OutsideCells(m) : IF m.master # {} THEN PartOf(x) \in m.master
                                                          ELSE PartOf(x) = PartKey(s)}
  <2>1. A \subseteq OutsideCells(m) /\ d \in A /\ \A x \in A : PartOf(x) = PartOf(d)
    BY <1>2, <1>4 DEF ModelOK
  <2>2. d \in OneOf(A)
    <3> HIDE DEF A
    <3> QED BY <1>3, <1>4, <2>1
  <2> QED BY <2>2 DEF CellOpens, MasterFor
<1>5. CASE PartOf(d) \notin m.master
  <2>1. PartOf(d) = PartKey(s) /\ (m.master = {} \/ \A e \in m.dimmers : e.inst # s)
    BY <1>5 DEF CellsApart
  <2> DEFINE A == {x \in OutsideCells(m) : PartOf(x) = PartKey(s)}
  <2>2. A \subseteq OutsideCells(m) /\ d \in A /\ \A x \in A : PartOf(x) = PartOf(d)
    BY <1>2, <2>1
  <2>3. d \in OneOf(A)
    <3> HIDE DEF A
    <3> QED BY <1>3, <2>1, <2>2
  <2>4. CASE m.master = {}
    <3>1. MasterFor(m, s) = OneOf(A)
      BY <2>4 DEF MasterFor
    <3> QED BY <2>3, <3>1 DEF CellOpens
  <2>5. CASE \A e \in m.dimmers : e.inst # s
    <3>1. CellPartDimmer(m, s) = OneOf(A)
      BY <2>5 DEF CellPartDimmer
    <3> QED BY <2>3, <3>1 DEF CellOpens
  <2> QED BY <2>1, <2>4, <2>5
<1> QED BY <1>4, <1>5

-----------------------------------------------------------------------------
(* The model of a profile.                                                   *)
LEMMA DimmersAre ==
  ASSUME NEW q \in Profiles, NEW V, V = VirtualDimmers(q, Cells(q)), NEW D, D = AllDimmers(q, V)
  PROVE  /\ Cells(q) \subseteq Instances
         /\ IsFiniteSet(D) /\ D \subseteq [inst : Anywhere, virtual : BOOLEAN]
         /\ \A d \in D : ~d.virtual => "Dimmer" \in q.attrs[d.inst]
         /\ \A d \in D : d.virtual => d.inst \in V
<1> DEFINE J == {j \in Anywhere : "Dimmer" \in q.attrs[j]}
           R == {Real(i) : i \in J}
           S == {Virtual(s) : s \in V}
<1>1. Cells(q) \subseteq Instances
  BY DEF Cells
<1>2. V \in SUBSET Anywhere
  BY <1>1 DEF VirtualDimmers, Anywhere
<1>3. D = R \cup S
  BY DEF AllDimmers
<1>4. IsFiniteSet(Anywhere)
  BY ModelConstants, FS_AddElement DEF Anywhere
<1>5. IsFiniteSet(J) /\ IsFiniteSet(V)
  <2>1. J \in SUBSET Anywhere
    OBVIOUS
  <2> QED BY <1>2, <1>4, <2>1, FS_Subset
<1>6. IsFiniteSet(R)
  <2> DEFINE f == [i \in J |-> Real(i)]
  <2>1. f \in Surjection(J, R)
    BY DEF Surjection
  <2> HIDE DEF J, R, f
  <2> QED BY <1>5, <2>1, FS_Surjection
<1>7. IsFiniteSet(S)
  <2> DEFINE f == [s \in V |-> Virtual(s)]
  <2>1. f \in Surjection(V, S)
    BY DEF Surjection
  <2> HIDE DEF S, f
  <2> QED BY <1>5, <2>1, FS_Surjection
<1>8. IsFiniteSet(D)
  <2> HIDE DEF R, S
  <2> QED BY <1>3, <1>6, <1>7, FS_Union
<1>9. ASSUME NEW d \in R PROVE /\ d \in [inst : Anywhere, virtual : BOOLEAN]
                              /\ ~d.virtual /\ "Dimmer" \in q.attrs[d.inst]
  <2>1. PICK i \in J : d = Real(i)
    OBVIOUS
  <2> QED BY <2>1 DEF Real
<1>10. ASSUME NEW d \in S PROVE d \in [inst : Anywhere, virtual : BOOLEAN] /\ d.virtual /\ d.inst \in V
  <2>1. PICK s \in V : d = Virtual(s)
    OBVIOUS
  <2> QED BY <1>2, <2>1 DEF Virtual
<1> HIDE DEF R, S
<1> QED BY <1>1, <1>3, <1>8, <1>9, <1>10

LEMMA MasterIsAlone ==
  ASSUME NEW cells, NEW D, IsFiniteSet(D)
  PROVE  /\ \A s \in cells : PartKey(s) \notin MasterPart(cells, D)
         /\ \A d \in D : d.virtual => PartOf(d) \notin MasterPart(cells, D)
         /\ \E k : MasterPart(cells, D) \subseteq {k}
<1> DEFINE keys == {PartKey(i) : i \in cells} \cup {PartOf(d) : d \in {e \in D : e.virtual}}
           parts == {PartOf(d) : d \in D}
           candidates == parts \ keys
           body == candidates \cap BodyKeys
           f == [d \in D |-> PartOf(d)]
<1>1. MasterPart(cells, D) = IF Cardinality(candidates) = 1 THEN candidates
                            ELSE IF Cardinality(body) = 1 THEN body ELSE {}
  BY DEF MasterPart
<1>2. f \in Surjection(D, parts)
  BY DEF Surjection
<1>3. MasterPart(cells, D) \subseteq candidates
  BY <1>1
<1>4. ASSUME NEW s \in cells PROVE PartKey(s) \notin candidates
  OBVIOUS
<1>5. ASSUME NEW d \in D, d.virtual PROVE PartOf(d) \notin candidates
  BY <1>5
<1>6. candidates \in SUBSET parts /\ body \in SUBSET parts
  OBVIOUS
<1> HIDE DEF f, parts, candidates, body
<1>7. IsFiniteSet(parts)
  BY <1>2, FS_Surjection
<1>8. IsFiniteSet(candidates) /\ IsFiniteSet(body)
  BY <1>6, <1>7, FS_Subset
<1>9. \E k : MasterPart(cells, D) \subseteq {k}
  <2>1. Cardinality(candidates) = 1 => \E k : candidates = {k}
    BY <1>8, FS_Singleton
  <2>2. Cardinality(body) = 1 => \E k : body = {k}
    BY <1>8, FS_Singleton
  <2> QED BY <1>1, <2>1, <2>2
<1> QED BY <1>3, <1>4, <1>5, <1>9

LEMMA BuiltIsOK ==
  ASSUME NEW q \in Profiles, q.tree # NoTree
  PROVE  ModelOK(BuildFixtureModel(q))
<1> DEFINE cells == Cells(q)
           V == VirtualDimmers(q, cells)
           D == AllDimmers(q, V)
           master == MasterPart(cells, D)
           channels == {d \in D : ~d.virtual /\ PartOf(d) \in master}
           above == Ancestors(q.tree)
           inner == Inner(D, above)
           under == {d \in D : UnderMaster(q, channels, above, d.inst)}
           scales == [s \in {Root} \cup cells |-> {i \in Scope(cells, s) : "Colour" \in q.attrs[i]}]
           m == BuildFixtureModel(q)
<1>1. /\ m.cells = cells /\ m.dimmers = D /\ m.parts = {PartOf(d) : d \in D}
      /\ m.master = master /\ m.channels = channels
      /\ m.inner = inner /\ m.under = under
      /\ m.hasVirtualMaster => m.multiplied = Multiplied(D, inner, master, under)
      /\ m.scales = scales /\ m.above = above
      /\ m.lit = {i \in Instances : "Colour" \in q.attrs[i]}
  BY DEF BuildFixtureModel
<1>2. q.tree \in Trees
  BY DEF Profiles
<1>3. /\ cells \subseteq Instances
      /\ IsFiniteSet(D) /\ D \subseteq [inst : Anywhere, virtual : BOOLEAN]
      /\ \A d \in D : ~d.virtual => "Dimmer" \in q.attrs[d.inst]
      /\ \A d \in D : d.virtual => d.inst \in V
  BY DimmersAre
<1>4. Hangs(above)
  BY <1>2, TreesHang
<1>5. ASSUME NEW s \in V PROVE
        /\ s \in {Root} \cup cells
        /\ \A i \in Scope(cells, s) : "Dimmer" \notin q.attrs[i]
        /\ s # Root => \A i \in Anywhere : "Dimmer" \in q.attrs[i] => PartKey(i) # PartKey(s)
  BY DEF VirtualDimmers
<1> HIDE DEF V, D, cells
<1>6. /\ \A s \in cells : PartKey(s) \notin master
      /\ \A d \in D : d.virtual => PartOf(d) \notin master
      /\ \E k : master \subseteq {k}
  BY <1>3, MasterIsAlone
<1> HIDE DEF master, above
<1>7. ASSUME NEW d \in D, d.virtual
      PROVE  /\ d.inst \in {Root} \cup cells /\ PartOf(d) \notin master
             /\ \A e \in D : ~e.virtual =>
                  e.inst \notin Scope(cells, d.inst) /\ (d.inst # Root => PartOf(e) # PartOf(d))
  <2>1. d.inst \in V
    BY <1>3, <1>7
  <2>2. ASSUME NEW e \in D, ~e.virtual
        PROVE  e.inst \notin Scope(cells, d.inst) /\ (d.inst # Root => PartOf(e) # PartOf(d))
    <3>1. "Dimmer" \in q.attrs[e.inst] /\ e.inst \in Anywhere
      BY <1>3, <2>2
    <3> QED BY <1>5, <2>1, <3>1 DEF PartOf
  <2> QED BY <1>5, <1>6, <1>7, <2>1, <2>2
<1>8. \A s \in {Root} \cup cells : scales[s] \subseteq Scope(cells, s)
  OBVIOUS
<1>9. under = {d \in D : d.inst # Root /\ \E c \in channels : c.inst \in {d.inst} \cup above[d.inst]}
  BY DEF UnderMaster
<1>10. m.lit \subseteq Instances
  BY <1>1
<1> HIDE DEF m, channels, inner, under, scales
<1>11. IsFiniteSet(m.dimmers) /\ m.dimmers \subseteq [inst : Anywhere, virtual : BOOLEAN]
  BY <1>1, <1>3
<1>12. m.cells \subseteq Instances /\ m.lit \subseteq Instances /\ Hangs(m.above)
  BY <1>1, <1>3, <1>4, <1>10
<1>13. \A d \in m.dimmers : d.virtual =>
         /\ d.inst \in {Root} \cup m.cells /\ PartOf(d) \notin m.master
         /\ \A e \in m.dimmers : ~e.virtual =>
              e.inst \notin Scope(m.cells, d.inst) /\ (d.inst # Root => PartOf(e) # PartOf(d))
  BY <1>1, <1>7
<1>14. /\ \A s \in m.cells : PartKey(s) \notin m.master
       /\ \A s \in {Root} \cup m.cells : m.scales[s] \subseteq Scope(m.cells, s)
       /\ \E k : m.master \subseteq {k}
  BY <1>1, <1>6, <1>8
<1>15. m.channels = {d \in m.dimmers : ~d.virtual /\ PartOf(d) \in m.master}
  BY <1>1 DEF channels
<1>16. m.inner = Inner(m.dimmers, m.above)
  BY <1>1 DEF inner
<1>17. m.under = {d \in m.dimmers : d.inst # Root /\ \E c \in m.channels : c.inst \in {d.inst} \cup m.above[d.inst]}
  BY <1>1, <1>9
<1>18. m.hasVirtualMaster => m.multiplied = Multiplied(m.dimmers, m.inner, m.master, m.under)
  BY <1>1
<1>19. m.parts = {PartOf(d) : d \in m.dimmers}
  BY <1>1
<1>20. ModelOK(m)
  BY <1>11, <1>12, <1>13, <1>14, <1>15, <1>16, <1>17, <1>18, <1>19 DEF ModelOK
<1> QED BY <1>20 DEF m

\* The fixture's model is always the one built of its profile.
ModelIsBuilt ==
  /\ fixture.profile \in Profiles
  /\ fixture.model = BuildFixtureModel(fixture.profile)

LEMMA ModelStaysBuilt == FixtureSpec => []ModelIsBuilt
<1>1. FixtureInit => ModelIsBuilt
  BY DEF FixtureInit, ModelIsBuilt
<1>2. ModelIsBuilt /\ [FixtureNext]_fixture => ModelIsBuilt'
  <2> SUFFICES ASSUME ModelIsBuilt, [FixtureNext]_fixture PROVE ModelIsBuilt'
    OBVIOUS
  <2>1. CASE FixtureNext
    <3>1. PICK t \in Trees :
            LET q == [fixture.profile EXCEPT !.tree = t]
            IN  fixture' = [profile |-> q, model |-> BuildFixtureModel(q)]
      BY <2>1 DEF FixtureNext, Reimport
    <3> DEFINE q == [fixture.profile EXCEPT !.tree = t]
    <3>2. q \in Profiles
      BY DEF ModelIsBuilt, Profiles
    <3>3. fixture' = [profile |-> q, model |-> BuildFixtureModel(q)]
      BY <3>1
    <3> HIDE DEF q
    <3>4. fixture'.profile = q /\ fixture'.model = BuildFixtureModel(q)
      BY <3>3
    <3> QED BY <3>2, <3>4 DEF ModelIsBuilt
  <2>2. CASE UNCHANGED fixture
    BY <2>2 DEF ModelIsBuilt
  <2> QED BY <2>1, <2>2
<1> QED BY <1>1, <1>2, PTL DEF FixtureSpec

\* Whatever the geometry, where its parts are apart: the light of every emitter carries
\* the master level once, and the level of no part twice (addVirtualMaster, markInnerDimmers).
THEOREM MasterCountsOnce == FixtureSpec => []MasterTimesPart
<1>1. ModelIsBuilt => MasterTimesPart
  <2> SUFFICES ASSUME ModelIsBuilt, fixture.model.hasVirtualMaster, fixture.profile.tree # NoTree,
                      PartsApart(fixture.model), NEW i \in fixture.model.lit
               PROVE  /\ Passes(fixture.model, i) # {} => MasterFactors(fixture.model, i) = 1
                      /\ \A k \in fixture.model.parts \ fixture.model.master :
                           PartFactors(fixture.model, i, k) <= 1
    BY DEF MasterTimesPart
  <2>1. ModelOK(fixture.model)
    BY BuiltIsOK DEF ModelIsBuilt
  <2> QED BY <2>1, OneMasterFactor, OnePartFactor
<1> QED BY <1>1, ModelStaysBuilt, PTL

\* Whatever the geometry, where its cells are apart: a highlighted cell opens every real
\* dimmer its light passes (cellOpens).
THEOREM CellsAreSeen == FixtureSpec => []CellsCanBeSeen
<1>1. ModelIsBuilt => CellsCanBeSeen
  <2> SUFFICES ASSUME ModelIsBuilt, fixture.profile.tree # NoTree, CellsApart(fixture.model),
                      NEW s \in fixture.model.cells, NEW d \in AboveCell(fixture.model, s)
               PROVE  d \in CellOpens(fixture.model, s)
    BY DEF CellsCanBeSeen
  <2>1. ModelOK(fixture.model)
    BY BuiltIsOK DEF ModelIsBuilt
  <2> QED BY <2>1, HighlightOpens
<1> QED BY <1>1, ModelStaysBuilt, PTL
-----------------------------------------------------------------------------
(* The descriptors of the parameter editor.                                 *)

\* The requests that are at one place of resolveDescriptor with one parameter.
EditorsAt(ed, at, p) == {c \in Editors : ed[c].at = at /\ ed[c].pid = p}

EditorRecords ==
  [at : {"idle", "walk", "describe", "lookup", "gate", "asking", "keep"},
   for : {"introspect", "parse", "get"}, uid : Uids, pid : Pids, todo : SUBSET Pids,
   kept : BOOLEAN, asked : BOOLEAN, desc : Sources \cup {none}]
DeviceRecords == [descriptors : [Pids -> Sources \cup {none}], unsupported : BOOLEAN]

EditorTypes ==
  /\ descCache \in [Pids -> Sources \cup {none}]
  /\ learnt \in [Uids -> DeviceRecords]
  /\ editor \in [Editors -> EditorRecords]
  /\ asks \in [ManufacturerPids -> Nat]

\* Until the manufacturer's descriptor is known, every question is still out; once it is,
\* only the requests that had already looked for it may ask again.
Shared(p, cached, ed, n) ==
  IF cached = none THEN n <= Cardinality(EditorsAt(ed, "asking", p))
  ELSE n + Cardinality(EditorsAt(ed, "gate", p)) <= Cardinality(Editors)

EditorInv ==
  /\ EditorTypes /\ EditorTypeOK /\ AsksOwnOnly
  /\ \A p \in ManufacturerPids : Shared(p, descCache[p], editor, asks[p])

LEMMA EditorsCount ==
  ASSUME NEW ed, NEW p
  PROVE  /\ IsFiniteSet(EditorsAt(ed, "gate", p)) /\ IsFiniteSet(EditorsAt(ed, "asking", p))
         /\ Cardinality(EditorsAt(ed, "gate", p)) \in Nat
         /\ Cardinality(EditorsAt(ed, "asking", p)) \in Nat
         /\ Cardinality(Editors) \in Nat
         /\ Cardinality(EditorsAt(ed, "gate", p)) + Cardinality(EditorsAt(ed, "asking", p))
              <= Cardinality(Editors)
<1> DEFINE G == EditorsAt(ed, "gate", p)
           A == EditorsAt(ed, "asking", p)
<1>1. IsFiniteSet(Editors) /\ Cardinality(Editors) \in Nat
  BY EditorAssumption, FS_CardinalityType
<1>2. G \subseteq Editors /\ A \subseteq Editors /\ G \cap A = {} /\ G \cup A \subseteq Editors
  BY DEF EditorsAt
<1> HIDE DEF G, A
<1>3. IsFiniteSet(G) /\ IsFiniteSet(A)
  BY <1>1, <1>2, FS_Subset
<1>4. Cardinality(G) \in Nat /\ Cardinality(A) \in Nat
  BY <1>3, FS_CardinalityType
<1>5. Cardinality(G \cup A) = Cardinality(G) + Cardinality(A) - Cardinality({})
  BY <1>2, <1>3, FS_Union
<1>6. Cardinality({}) = 0
  BY FS_EmptySet
<1>7. Cardinality(G \cup A) <= Cardinality(Editors)
  BY <1>1, <1>2, FS_Subset
<1>8. Cardinality(G) + Cardinality(A) <= Cardinality(Editors)
  BY <1>4, <1>5, <1>6, <1>7
<1> QED BY <1>1, <1>3, <1>4, <1>8 DEF G, A

\* One request has left the place it was at.
LEMMA OneLess ==
  ASSUME NEW S, IsFiniteSet(S), NEW c \in S
  PROVE  /\ Cardinality(S \ {c}) = Cardinality(S) - 1
         /\ Cardinality(S) \in Nat /\ Cardinality(S \ {c}) \in Nat
<1>1. Cardinality(S \ {c}) = Cardinality(S) - 1 /\ IsFiniteSet(S \ {c})
  BY FS_RemoveElement
<1> QED BY <1>1, FS_CardinalityType

LEMMA OneMore ==
  ASSUME NEW S, IsFiniteSet(S), NEW c, c \notin S
  PROVE  Cardinality(S \cup {c}) = Cardinality(S) + 1 /\ Cardinality(S) \in Nat
BY FS_AddElement, FS_CardinalityType

LEMMA EditorsInit == EditorInit => EditorInv
<1> SUFFICES ASSUME EditorInit PROVE EditorInv
  OBVIOUS
<1>1. (CHOOSE u \in Uids : TRUE) \in Uids /\ (CHOOSE p \in ManufacturerPids : TRUE) \in Pids
  BY EditorAssumption DEF Pids
<1>2. AtRest \in EditorRecords
  BY <1>1 DEF AtRest, EditorRecords
<1>3. EditorTypes
  BY <1>2 DEF EditorInit, EditorTypes, Blank, DeviceRecords
<1>4. EditorTypeOK
  BY DEF EditorInit, EditorTypeOK, Blank, AtRest
<1>5. AsksOwnOnly
  BY DEF EditorInit, AsksOwnOnly, AtRest
<1>6. ASSUME NEW p \in ManufacturerPids PROVE Shared(p, descCache[p], editor, asks[p])
  <2>1. descCache[p] = none /\ asks[p] = 0
    BY DEF EditorInit, Pids
  <2>2. Cardinality(EditorsAt(editor, "asking", p)) \in Nat
    BY EditorsCount
  <2>3. 0 <= Cardinality(EditorsAt(editor, "asking", p))
    BY <2>2
  <2> QED BY <2>1, <2>3 DEF Shared
<1> QED BY <1>3, <1>4, <1>5, <1>6 DEF EditorInv

\* The parameters and their sources.
LEMMA SourcesAre ==
  /\ none \notin Sources /\ \A p : SourceOf(p) \subseteq Sources
  /\ \A p \in ManufacturerPids : /\ p \in Pids /\ p \notin SpecKnownPids /\ IsDescribable(p)
                                 /\ SourceOf(p) = {"described", "opaque"}
  /\ \A p \in Pids : p \notin SpecKnownPids /\ ~IsDescribable(p) => SourceOf(p) = {"opaque"}
  /\ \A p \in SpecKnownPids : SourceOf(p) = {"standard"}
BY EditorAssumption DEF Sources, SourceOf, Pids, IsDescribable

\* What a request may turn into without asking anything and without having asked.
Quiet(R) == R.at \notin {"gate", "asking"}
TurnFits(R) ==
  /\ R \in EditorRecords
  /\ R.at = "keep" => R.desc \in SourceOf(R.pid)
  /\ R.at \in {"gate", "asking"} => R.pid \in ManufacturerPids

\* The records and the cache keep their types in a turn of one request.
LEMMA TurnKeeps ==
  ASSUME EditorInv, NEW c \in Editors, NEW R, TurnFits(R), Turns(c, R),
         descCache' \in [Pids -> Sources \cup {none}], learnt' \in [Uids -> DeviceRecords],
         asks' \in [ManufacturerPids -> Nat],
         \A p \in Pids : descCache'[p] \in SourceOf(p) \cup {none},
         \A u \in Uids, p \in Pids : learnt'[u].descriptors[p] \in SourceOf(p) \cup {none},
         \A p \in ManufacturerPids : Shared(p, descCache'[p], editor', asks'[p])
  PROVE  EditorInv'
<1>1. editor' \in [Editors -> EditorRecords] /\ editor' = [editor EXCEPT ![c] = R]
  BY DEF EditorInv, EditorTypes, Turns, TurnFits
<1>2. \A d \in Editors : editor'[d] = IF d = c THEN R ELSE editor[d]
  BY <1>1 DEF EditorInv, EditorTypes
<1>3. EditorTypes'
  BY <1>1 DEF EditorTypes
<1>4. \A d \in Editors : editor'[d].at = "keep" => editor'[d].desc \in SourceOf(editor'[d].pid)
  BY <1>2 DEF EditorInv, EditorTypeOK, TurnFits
<1>5. \A u \in Uids : learnt'[u].unsupported \in BOOLEAN
  BY DEF DeviceRecords
<1>6. EditorTypeOK'
  BY <1>4, <1>5 DEF EditorTypeOK
<1>7. AsksOwnOnly'
  BY <1>2 DEF EditorInv, AsksOwnOnly, TurnFits
<1> QED BY <1>3, <1>6, <1>7 DEF EditorInv

\* A request that is neither at the gate nor asking becomes another such.
LEMMA QuietCounts ==
  ASSUME EditorInv, NEW c \in Editors, NEW R, Turns(c, R), Quiet(editor[c]), Quiet(R), NEW p, NEW at \in {"gate", "asking"}
  PROVE  EditorsAt(editor', at, p) = EditorsAt(editor, at, p)
<1>1. \A d \in Editors : editor'[d] = IF d = c THEN R ELSE editor[d]
  BY DEF EditorInv, EditorTypes, Turns
<1> QED BY <1>1 DEF EditorsAt, Quiet

LEMMA QuietKeeps ==
  ASSUME EditorInv, NEW c \in Editors, NEW R, TurnFits(R), Turns(c, R), Quiet(editor[c]), Quiet(R),
         UNCHANGED asks,
         learnt' \in [Uids -> DeviceRecords],
         \A u \in Uids, p \in Pids : learnt'[u].descriptors[p] \in SourceOf(p) \cup {none},
         \/ UNCHANGED descCache
         \/ \E q \in Pids, s \in Sources :
              /\ DescCacheSet(q, s) /\ s \in SourceOf(q)
              /\ q \in ManufacturerPids => descCache[q] # none
  PROVE  EditorInv'
<1>1. /\ descCache \in [Pids -> Sources \cup {none}] /\ asks \in [ManufacturerPids -> Nat]
      /\ \A p \in Pids : descCache[p] \in SourceOf(p) \cup {none}
      /\ \A p \in ManufacturerPids : Shared(p, descCache[p], editor, asks[p])
  BY DEF EditorInv, EditorTypes, EditorTypeOK
<1>2. /\ descCache' \in [Pids -> Sources \cup {none}]
      /\ \A p \in Pids : descCache'[p] \in SourceOf(p) \cup {none}
      /\ \A p \in ManufacturerPids : (descCache'[p] = none) <=> (descCache[p] = none)
  <2>1. CASE UNCHANGED descCache
    BY <1>1, <2>1
  <2>2. CASE \E q \in Pids, s \in Sources :
              /\ DescCacheSet(q, s) /\ s \in SourceOf(q)
              /\ q \in ManufacturerPids => descCache[q] # none
    <3>1. PICK q \in Pids, s \in Sources :
              /\ DescCacheSet(q, s) /\ s \in SourceOf(q)
              /\ q \in ManufacturerPids => descCache[q] # none
      BY <2>2
    <3>2. \A p \in Pids : descCache'[p] = IF p = q THEN s ELSE descCache[p]
      BY <1>1, <3>1 DEF DescCacheSet
    <3>3. descCache' \in [Pids -> Sources \cup {none}]
      BY <1>1, <3>1 DEF DescCacheSet
    <3>4. \A p \in ManufacturerPids : p \in Pids
      BY SourcesAre
    <3> QED BY <1>1, <3>1, <3>2, <3>3, <3>4, SourcesAre
  <2> QED BY <2>1, <2>2
<1>3. ASSUME NEW p \in ManufacturerPids PROVE Shared(p, descCache'[p], editor', asks'[p])
  <2>1. /\ EditorsAt(editor', "gate", p) = EditorsAt(editor, "gate", p)
        /\ EditorsAt(editor', "asking", p) = EditorsAt(editor, "asking", p)
    BY QuietCounts
  <2> QED BY <1>1, <1>2, <2>1 DEF Shared
<1>4. asks' \in [ManufacturerPids -> Nat]
  BY <1>1
<1> QED BY <1>2, <1>3, <1>4, TurnKeeps

\* What a request turns into, by name.
LEMMA TurnsFit ==
  ASSUME NEW R \in EditorRecords
  PROVE  /\ TurnFits(AtRest) /\ Quiet(AtRest)
         /\ TurnFits(WithDescriptor(R)) /\ Quiet(WithDescriptor(R))
         /\ \A u \in Uids, p \in Pids, w \in {"introspect", "parse", "get"}, ps \in SUBSET Pids :
              /\ TurnFits([AtRest EXCEPT !.at = "walk", !.for = "introspect", !.uid = u, !.todo = ps])
              /\ TurnFits([AtRest EXCEPT !.at = "describe", !.for = w, !.uid = u, !.pid = p])
         /\ \A p \in R.todo : TurnFits([R EXCEPT !.at = "lookup", !.pid = p, !.todo = @ \ {p}])
         /\ TurnFits([R EXCEPT !.at = "lookup"])
         /\ \A s \in SourceOf(R.pid) : TurnFits([R EXCEPT !.at = "keep", !.desc = s])
         /\ R.pid \in ManufacturerPids =>
              /\ TurnFits([R EXCEPT !.at = "gate"]) /\ TurnFits([R EXCEPT !.at = "asking", !.asked = TRUE])
<1>1. (CHOOSE u \in Uids : TRUE) \in Uids /\ (CHOOSE p \in ManufacturerPids : TRUE) \in Pids
  BY EditorAssumption DEF Pids
<1>2. AtRest \in EditorRecords /\ AtRest.at = "idle"
  BY <1>1 DEF AtRest, EditorRecords
<1>3. TurnFits(AtRest) /\ Quiet(AtRest)
  BY <1>2 DEF TurnFits, Quiet
<1>4. ASSUME NEW u \in Uids, NEW p \in Pids, NEW w \in {"introspect", "parse", "get"}, NEW ps \in SUBSET Pids
      PROVE  /\ TurnFits([AtRest EXCEPT !.at = "walk", !.for = "introspect", !.uid = u, !.todo = ps])
             /\ TurnFits([AtRest EXCEPT !.at = "describe", !.for = w, !.uid = u, !.pid = p])
  BY <1>2 DEF TurnFits, EditorRecords
<1>5. TurnFits(WithDescriptor(R)) /\ Quiet(WithDescriptor(R))
  <2>1. CASE R.for = "introspect"
    <3>1. WithDescriptor(R) = [R EXCEPT !.at = "walk", !.desc = none, !.asked = TRUE]
      BY <2>1 DEF WithDescriptor
    <3> QED BY <3>1 DEF TurnFits, Quiet, EditorRecords
  <2>2. CASE R.for = "parse"
    <3>1. WithDescriptor(R) = [AtRest EXCEPT !.at = "describe", !.uid = R.uid, !.pid = R.pid]
      BY <2>2 DEF WithDescriptor
    <3>2. R.uid \in Uids /\ R.pid \in Pids
      BY DEF EditorRecords
    <3> QED BY <1>2, <3>1, <3>2 DEF TurnFits, Quiet, EditorRecords
  <2>3. CASE R.for = "get"
    BY <1>3, <2>3 DEF WithDescriptor
  <2> QED BY <2>1, <2>2, <2>3 DEF EditorRecords
<1>6. ASSUME NEW p \in R.todo PROVE TurnFits([R EXCEPT !.at = "lookup", !.pid = p, !.todo = @ \ {p}])
  <2>1. p \in Pids /\ R.todo \ {p} \in SUBSET Pids
    BY DEF EditorRecords
  <2> QED BY <2>1 DEF TurnFits, EditorRecords
<1>7. TurnFits([R EXCEPT !.at = "lookup"])
  BY DEF TurnFits, EditorRecords
<1>8. ASSUME NEW s \in SourceOf(R.pid) PROVE TurnFits([R EXCEPT !.at = "keep", !.desc = s])
  BY SourcesAre DEF TurnFits, EditorRecords
<1>9. ASSUME R.pid \in ManufacturerPids
      PROVE  TurnFits([R EXCEPT !.at = "gate"]) /\ TurnFits([R EXCEPT !.at = "asking", !.asked = TRUE])
  BY <1>9 DEF TurnFits, EditorRecords
<1> QED BY <1>3, <1>4, <1>5, <1>6, <1>7, <1>8, <1>9

\* The steps that ask nothing: whatever is kept is what its source may say.
LEMMA QuietSteps ==
  ASSUME EditorInv, NEW c \in Editors,
         \/ Introspect(c) \/ WalksOn(c) \/ GetParam(c) \/ HandleSetDeviceParam(c)
         \/ DescribeParam(c) \/ Keeps(c)
  PROVE  EditorInv'
<1> DEFINE R == editor[c]
<1>t. /\ R \in EditorRecords /\ learnt \in [Uids -> DeviceRecords]
      /\ \A u \in Uids, p \in Pids : learnt[u].descriptors[p] \in SourceOf(p) \cup {none}
  BY DEF EditorInv, EditorTypes, EditorTypeOK
<1>u. /\ R.at = "keep" => R.desc \in SourceOf(R.pid)
  BY DEF EditorInv, EditorTypeOK
<1>1. ASSUME NEW x, TurnFits(x), Turns(c, x), Quiet(R), Quiet(x), UNCHANGED <<descCache, learnt, asks>>
      PROVE  EditorInv'
  <2>1. learnt' = learnt /\ asks' = asks /\ descCache' = descCache
    BY <1>1
  <2> QED BY <1>1, <1>t, <2>1, QuietKeeps
<1>2. CASE Introspect(c)
  <2>1. PICK u \in Uids, listed \in SUBSET Pids :
          Turns(c, [AtRest EXCEPT !.at = "walk", !.for = "introspect", !.uid = u,
                                  !.todo = {p \in listed : IsEditorTarget(p)}])
    BY <1>2 DEF Introspect
  <2> DEFINE ps == {p \in listed : IsEditorTarget(p)}
             x == [AtRest EXCEPT !.at = "walk", !.for = "introspect", !.uid = u, !.todo = ps]
  <2>2. ps \in SUBSET Pids
    OBVIOUS
  <2>3. Turns(c, x)
    BY <2>1
  <2> HIDE DEF ps
  <2>4. \E p \in Pids : TRUE
    BY EditorAssumption DEF Pids
  <2>5. TurnFits(x)
    BY <1>t, <2>2, <2>4, TurnsFit
  <2>6. x.at = "walk" /\ R.at = "idle" /\ UNCHANGED <<descCache, learnt, asks>>
    BY <1>2 DEF Introspect, AtRest
  <2> HIDE DEF x
  <2> QED BY <1>1, <2>3, <2>5, <2>6 DEF Quiet
<1>3. CASE WalksOn(c)
  <2>1. R.at = "walk" /\ UNCHANGED <<descCache, learnt, asks>>
    BY <1>3 DEF WalksOn
  <2>2. CASE Turns(c, AtRest)
    BY <1>1, <1>t, <2>1, <2>2, TurnsFit DEF Quiet
  <2>3. CASE \E p \in R.todo : Turns(c, [R EXCEPT !.at = "lookup", !.pid = p, !.todo = @ \ {p}])
    <3>1. PICK p \in R.todo : Turns(c, [R EXCEPT !.at = "lookup", !.pid = p, !.todo = @ \ {p}])
      BY <2>3
    <3> DEFINE x == [R EXCEPT !.at = "lookup", !.pid = p, !.todo = @ \ {p}]
    <3>2. TurnFits(x)
      BY <1>t, TurnsFit
    <3>3. x.at = "lookup"
      BY <1>t DEF EditorRecords
    <3>4. Turns(c, x)
      BY <3>1
    <3> HIDE DEF x
    <3> QED BY <1>1, <2>1, <3>2, <3>3, <3>4 DEF Quiet
  <2> QED BY <1>3, <2>2, <2>3 DEF WalksOn
<1>4. ASSUME NEW w \in {"introspect", "parse", "get"}, Opens(c, w) PROVE EditorInv'
  <2>1. PICK u \in Uids, p \in Pids :
          Turns(c, [AtRest EXCEPT !.at = "describe", !.for = w, !.uid = u, !.pid = p])
    BY <1>4 DEF Opens
  <2> DEFINE x == [AtRest EXCEPT !.at = "describe", !.for = w, !.uid = u, !.pid = p]
  <2>2. TurnFits(x)
    BY <1>t, TurnsFit
  <2>3. x.at = "describe" /\ R.at = "idle" /\ UNCHANGED <<descCache, learnt, asks>>
    BY <1>4 DEF Opens, AtRest
  <2>4. Turns(c, x)
    BY <2>1
  <2> HIDE DEF x
  <2> QED BY <1>1, <2>2, <2>3, <2>4 DEF Quiet
<1>5. CASE DescribeParam(c)
  <2>1. R.at = "describe" /\ UNCHANGED <<descCache, learnt, asks>>
    BY <1>5 DEF DescribeParam
  <2>2. CASE Turns(c, WithDescriptor(R))
    BY <1>1, <1>t, <2>1, <2>2, TurnsFit DEF Quiet
  <2>3. CASE Turns(c, [R EXCEPT !.at = "lookup"])
    <3>1. TurnFits([R EXCEPT !.at = "lookup"]) /\ [R EXCEPT !.at = "lookup"].at = "lookup"
      BY <1>t, TurnsFit DEF EditorRecords
    <3> QED BY <1>1, <2>1, <2>3, <3>1 DEF Quiet
  <2> QED BY <1>5, <2>2, <2>3 DEF DescribeParam
<1>6. CASE Keeps(c)
  <2>1. /\ R.at = "keep" /\ UNCHANGED <<descCache, asks>> /\ Turns(c, WithDescriptor(R))
        /\ learnt' = IF R.kept THEN [learnt EXCEPT ![R.uid].descriptors[R.pid] = R.desc] ELSE learnt
    BY <1>6 DEF Keeps
  <2>2. R.uid \in Uids /\ R.pid \in Pids /\ R.desc \in SourceOf(R.pid) /\ R.desc \in Sources
    BY <1>t, <1>u, <2>1, SourcesAre DEF EditorRecords
  <2>3. learnt[R.uid] \in DeviceRecords
    BY <1>t, <2>2
  <2> DEFINE y == [learnt[R.uid] EXCEPT !.descriptors = [learnt[R.uid].descriptors EXCEPT ![R.pid] = R.desc]]
  <2>4. learnt' = IF R.kept THEN [learnt EXCEPT ![R.uid] = y] ELSE learnt
    BY <2>1, <2>2, <1>t
  <2>5. /\ y \in DeviceRecords
        /\ \A p \in Pids : y.descriptors[p] = IF p = R.pid THEN R.desc ELSE learnt[R.uid].descriptors[p]
    BY <2>2, <2>3 DEF DeviceRecords
  <2> HIDE DEF y
  <2>6. \A p \in Pids : y.descriptors[p] \in SourceOf(p) \cup {none}
    BY <1>t, <2>2, <2>5
  <2> HIDE DEF R
  <2>7. learnt' \in [Uids -> DeviceRecords]
    BY <1>t, <2>2, <2>4, <2>5
  <2>8. \A u \in Uids, p \in Pids : learnt'[u].descriptors[p] \in SourceOf(p) \cup {none}
    BY <1>t, <2>2, <2>4, <2>6
  <2>9. TurnFits(WithDescriptor(R)) /\ Quiet(WithDescriptor(R)) /\ Quiet(R)
    BY <1>t, <2>1, TurnsFit DEF Quiet
  <2>10. UNCHANGED asks /\ UNCHANGED descCache
    BY <2>1
  <2> USE DEF R
  <2> QED BY <2>1, <2>7, <2>8, <2>9, <2>10, QuietKeeps
<1> QED BY <1>2, <1>3, <1>4, <1>5, <1>6 DEF GetParam, HandleSetDeviceParam

LEMMA LookUpKeeps == ASSUME EditorInv, NEW c \in Editors, LooksUp(c) PROVE EditorInv'
<1> DEFINE R == editor[c]
           s == WithoutAsking(R.pid)
<1>t. /\ R \in EditorRecords /\ R.pid \in Pids /\ learnt \in [Uids -> DeviceRecords]
      /\ \A u \in Uids, p \in Pids : learnt[u].descriptors[p] \in SourceOf(p) \cup {none}
      /\ descCache \in [Pids -> Sources \cup {none}] /\ asks \in [ManufacturerPids -> Nat]
      /\ \A p \in Pids : descCache[p] \in SourceOf(p) \cup {none}
      /\ \A p \in ManufacturerPids : Shared(p, descCache[p], editor, asks[p])
  BY DEF EditorInv, EditorTypes, EditorTypeOK, EditorRecords
<1>1. R.at = "lookup" /\ learnt' = learnt /\ asks' = asks
  BY DEF LooksUp
<1>2. CASE s = none
  <2>1. Turns(c, [R EXCEPT !.at = "gate"]) /\ descCache' = descCache
    BY <1>2 DEF LooksUp
  <2>2. descCache[R.pid] = none /\ R.pid \in ManufacturerPids
    BY <1>2, <1>t, EditorAssumption DEF WithoutAsking, IsDescribable
  <2> DEFINE x == [R EXCEPT !.at = "gate"]
  <2>3. TurnFits(x)
    BY <1>t, <2>2, TurnsFit
  <2>4. x.at = "gate" /\ x.pid = R.pid /\ Turns(c, x)
    BY <1>t, <2>1 DEF EditorRecords
  <2> HIDE DEF x
  <2>5. \A d \in Editors : editor'[d] = IF d = c THEN x ELSE editor[d]
    BY <2>4 DEF EditorInv, EditorTypes, Turns
  <2>6. \A p : EditorsAt(editor', "asking", p) = EditorsAt(editor, "asking", p)
    BY <1>1, <2>4, <2>5 DEF EditorsAt
  <2>7. \A p \in ManufacturerPids : p # R.pid => EditorsAt(editor', "gate", p) = EditorsAt(editor, "gate", p)
    BY <1>1, <2>4, <2>5 DEF EditorsAt
  <2>8. ASSUME NEW p \in ManufacturerPids PROVE Shared(p, descCache'[p], editor', asks'[p])
    <3>1. CASE descCache[p] = none
      BY <1>1, <1>t, <2>1, <2>6, <3>1 DEF Shared
    <3>2. CASE descCache[p] # none
      <4>1. p # R.pid
        BY <2>2, <3>2
      <4>2. EditorsAt(editor', "gate", p) = EditorsAt(editor, "gate", p)
        BY <2>7, <4>1
      <4> QED BY <1>1, <1>t, <2>1, <3>2, <4>2 DEF Shared
    <3> QED BY <3>1, <3>2
  <2> HIDE DEF R
  <2> QED BY <1>1, <1>t, <2>1, <2>3, <2>4, <2>8, TurnKeeps
<1>3. CASE s # none
  <2>1. Turns(c, [R EXCEPT !.at = "keep", !.desc = s]) /\ DescCacheSet(R.pid, s)
    BY <1>3 DEF LooksUp, Resolved
  <2>2. s \in SourceOf(R.pid) /\ s \in Sources /\ (R.pid \in ManufacturerPids => descCache[R.pid] # none)
    <3>1. CASE descCache[R.pid] # none
      <4>1. s = descCache[R.pid]
        BY <3>1 DEF WithoutAsking
      <4> QED BY <1>t, <1>3, <3>1, <4>1, SourcesAre
    <3>2. CASE descCache[R.pid] = none /\ R.pid \in SpecKnownPids
      <4>1. s = "standard"
        BY <3>2 DEF WithoutAsking
      <4> QED BY <3>2, <4>1, SourcesAre
    <3>3. CASE descCache[R.pid] = none /\ R.pid \notin SpecKnownPids
      <4>1. ~IsDescribable(R.pid) /\ s = "opaque"
        BY <1>3, <3>3 DEF WithoutAsking
      <4> QED BY <1>t, <3>3, <4>1, SourcesAre
    <3> QED BY <3>1, <3>2, <3>3
  <2> DEFINE x == [R EXCEPT !.at = "keep", !.desc = s]
  <2> HIDE DEF s
  <2>3. TurnFits(x)
    BY <1>t, <2>2, TurnsFit
  <2>4. x.at = "keep" /\ Turns(c, x)
    BY <1>t, <2>1 DEF EditorRecords
  <2> HIDE DEF x
  <2>5. Quiet(R) /\ Quiet(x)
    BY <1>1, <2>4 DEF Quiet
  <2> QED BY <1>1, <1>t, <2>1, <2>2, <2>3, <2>4, <2>5, QuietKeeps
<1> QED BY <1>2, <1>3

\* A request leaves the gate, or the device, with the parameter it is about: the counts of
\* the other parameters stay.
LEMMA OthersCount ==
  ASSUME EditorInv, NEW c \in Editors, NEW R, Turns(c, R), R.pid = editor[c].pid, NEW p, p # R.pid, NEW at
  PROVE  EditorsAt(editor', at, p) = EditorsAt(editor, at, p)
<1>1. \A d \in Editors : editor'[d] = IF d = c THEN R ELSE editor[d]
  BY DEF EditorInv, EditorTypes, Turns
<1> QED BY <1>1 DEF EditorsAt

\* One leaves "from": it is the only one that does, and it may have gone to "to".
LEMMA OneLeaves ==
  ASSUME EditorInv, NEW c \in Editors, NEW R, Turns(c, R), R.pid = editor[c].pid, NEW to, R.at = to,
         to # editor[c].at
  PROVE  /\ EditorsAt(editor', editor[c].at, R.pid) = EditorsAt(editor, editor[c].at, R.pid) \ {c}
         /\ c \in EditorsAt(editor, editor[c].at, R.pid)
         /\ EditorsAt(editor', to, R.pid) = EditorsAt(editor, to, R.pid) \cup {c}
         /\ c \notin EditorsAt(editor, to, R.pid)
         /\ \A at : at # to /\ at # editor[c].at =>
              EditorsAt(editor', at, R.pid) = EditorsAt(editor, at, R.pid)
<1>1. \A d \in Editors : editor'[d] = IF d = c THEN R ELSE editor[d]
  BY DEF EditorInv, EditorTypes, Turns
<1> QED BY <1>1 DEF EditorsAt

LEMMA AskKeeps == ASSUME EditorInv, NEW c \in Editors, Asks(c) \/ Hears(c) PROVE EditorInv'
<1> DEFINE R == editor[c]
           q == editor[c].pid
           AtGate(ed, p) == Cardinality(EditorsAt(ed, "gate", p))
           Out(ed, p) == Cardinality(EditorsAt(ed, "asking", p))
           All == Cardinality(Editors)
<1>t. /\ R \in EditorRecords /\ R.uid \in Uids /\ R.pid \in Pids /\ learnt \in [Uids -> DeviceRecords]
      /\ \A u \in Uids, p \in Pids : learnt[u].descriptors[p] \in SourceOf(p) \cup {none}
      /\ descCache \in [Pids -> Sources \cup {none}] /\ asks \in [ManufacturerPids -> Nat]
      /\ \A p \in Pids : descCache[p] \in SourceOf(p) \cup {none}
      /\ \A p \in ManufacturerPids : Shared(p, descCache[p], editor, asks[p])
  BY DEF EditorInv, EditorTypes, EditorTypeOK, EditorRecords
<1>c. \A ed, p : AtGate(ed, p) \in Nat /\ Out(ed, p) \in Nat /\ All \in Nat /\ AtGate(ed, p) + Out(ed, p) <= All
  BY EditorsCount
<1>f. \A p : IsFiniteSet(EditorsAt(editor, "gate", p)) /\ IsFiniteSet(EditorsAt(editor, "asking", p))
  BY EditorsCount
<1>s. \A p \in ManufacturerPids : \A cached, ed, n :
        Shared(p, cached, ed, n) <=> IF cached = none THEN n <= Out(ed, p) ELSE n + AtGate(ed, p) <= All
  BY DEF Shared
<1>q. q \in ManufacturerPids
  BY DEF EditorInv, AsksOwnOnly, Asks, Hears
<1>b. asks[q] \in Nat /\ (descCache[q] = none => asks[q] <= Out(editor, q))
        /\ (descCache[q] # none => asks[q] + AtGate(editor, q) <= All)
  BY <1>t, <1>s, <1>q
<1>o. SourceOf(q) = {"described", "opaque"} /\ q \in Pids /\ "described" \in Sources /\ "opaque" \in Sources
        /\ none \notin Sources
  BY <1>q, SourcesAre DEF Sources
<1> HIDE DEF AtGate, Out, All
\* The parameter's descriptor is known from here on.
<1>1. ASSUME NEW s \in {"described", "opaque"}, Resolved(c, s), DescCacheSet(q, s), UNCHANGED asks,
             R.at \in {"gate", "asking"},
             learnt' \in [Uids -> DeviceRecords],
             \A u \in Uids, p \in Pids : learnt'[u].descriptors[p] \in SourceOf(p) \cup {none}
      PROVE  EditorInv'
  <2> DEFINE x == [R EXCEPT !.at = "keep", !.desc = s]
  <2>1. Turns(c, x)
    BY <1>1 DEF Resolved
  <2>2. TurnFits(x)
    BY <1>t, <1>o, <1>1, TurnsFit
  <2>3. x.at = "keep" /\ x.pid = q
    BY <1>t DEF EditorRecords
  <2> HIDE DEF x
  <2>4. /\ descCache' \in [Pids -> Sources \cup {none}]
        /\ \A p \in Pids : descCache'[p] = IF p = q THEN s ELSE descCache[p]
    BY <1>t, <1>o, <1>1 DEF DescCacheSet
  <2>5. \A p \in Pids : descCache'[p] \in SourceOf(p) \cup {none}
    BY <1>t, <1>o, <1>1, <2>4
  <2>6. asks' \in [ManufacturerPids -> Nat] /\ asks' = asks
    BY <1>t, <1>1
  <2>7. ASSUME NEW p \in ManufacturerPids, p # q PROVE Shared(p, descCache'[p], editor', asks'[p])
    <3>1. AtGate(editor', p) = AtGate(editor, p) /\ Out(editor', p) = Out(editor, p)
      BY <2>1, <2>3, <2>7, OthersCount DEF AtGate, Out
    <3>2. descCache'[p] = descCache[p] /\ p \in Pids
      BY <2>4, <2>7, SourcesAre
    <3> QED BY <1>t, <1>s, <2>6, <3>1, <3>2
  <2>8. asks[q] + AtGate(editor', q) <= All
    <3>1. CASE R.at = "gate"
      <4>1. /\ EditorsAt(editor', "gate", q) = EditorsAt(editor, "gate", q) \ {c}
            /\ c \in EditorsAt(editor, "gate", q)
        BY <2>1, <2>3, <3>1, OneLeaves
      <4>2. AtGate(editor', q) = AtGate(editor, q) - 1
        BY <1>f, <4>1, OneLess DEF AtGate
      <4>3. AtGate(editor, q) \in Nat /\ Out(editor, q) \in Nat /\ All \in Nat
              /\ AtGate(editor, q) + Out(editor, q) <= All
        BY <1>c
      <4>4. asks[q] <= Out(editor, q) \/ asks[q] + AtGate(editor, q) <= All
        BY <1>b
      <4> QED BY <1>b, <4>2, <4>3, <4>4
    <3>2. CASE R.at = "asking"
      <4>1. EditorsAt(editor', "gate", q) = EditorsAt(editor, "gate", q)
        BY <2>1, <2>3, <3>2, OneLeaves
      <4>2. AtGate(editor', q) = AtGate(editor, q)
        BY <4>1 DEF AtGate
      <4>3. AtGate(editor, q) \in Nat /\ Out(editor, q) \in Nat /\ All \in Nat
              /\ AtGate(editor, q) + Out(editor, q) <= All
        BY <1>c
      <4>4. asks[q] <= Out(editor, q) \/ asks[q] + AtGate(editor, q) <= All
        BY <1>b
      <4> QED BY <1>b, <4>2, <4>3, <4>4
    <3> QED BY <1>1, <3>1, <3>2
  <2>9. descCache'[q] # none
    BY <1>o, <1>1, <2>4
  <2>10. Shared(q, descCache'[q], editor', asks'[q])
    BY <1>s, <1>q, <2>6, <2>8, <2>9
  <2>11. \A p \in ManufacturerPids : Shared(p, descCache'[p], editor', asks'[p])
    BY <2>7, <2>10
  <2> HIDE DEF R, q
  <2> QED BY <1>1, <2>1, <2>2, <2>4, <2>5, <2>6, <2>11, TurnKeeps
\* A question goes out.
<1>2. ASSUME R.at = "gate", Turns(c, [R EXCEPT !.at = "asking", !.asked = TRUE]), Sends(q),
             UNCHANGED descCache, UNCHANGED learnt
      PROVE  EditorInv'
  <2> DEFINE x == [R EXCEPT !.at = "asking", !.asked = TRUE]
  <2>1. Turns(c, x) /\ TurnFits(x)
    BY <1>t, <1>q, <1>2, TurnsFit
  <2>2. x.at = "asking" /\ x.pid = q
    BY <1>t DEF EditorRecords
  <2> HIDE DEF x
  <2>3. asks' = [asks EXCEPT ![q] = IF asks[q] > All THEN asks[q] ELSE asks[q] + 1]
    BY <1>2 DEF Sends, All
  <2>4. /\ asks' \in [ManufacturerPids -> Nat]
        /\ \A p \in ManufacturerPids : p # q => asks'[p] = asks[p]
        /\ asks'[q] \in Nat /\ asks'[q] <= asks[q] + 1
    <3>1. (IF asks[q] > All THEN asks[q] ELSE asks[q] + 1) \in Nat
            /\ (IF asks[q] > All THEN asks[q] ELSE asks[q] + 1) <= asks[q] + 1
      BY <1>b, <1>c
    <3> QED BY <1>t, <1>q, <2>3, <3>1
  <2>5. /\ EditorsAt(editor', "gate", q) = EditorsAt(editor, "gate", q) \ {c}
        /\ c \in EditorsAt(editor, "gate", q)
        /\ EditorsAt(editor', "asking", q) = EditorsAt(editor, "asking", q) \cup {c}
        /\ c \notin EditorsAt(editor, "asking", q)
    BY <1>2, <2>1, <2>2, OneLeaves
  <2>6. AtGate(editor', q) = AtGate(editor, q) - 1 /\ Out(editor', q) = Out(editor, q) + 1
    BY <1>f, <2>5, OneLess, OneMore DEF AtGate, Out
  <2>7. AtGate(editor, q) \in Nat /\ Out(editor, q) \in Nat /\ All \in Nat
    BY <1>c
  <2>8. Shared(q, descCache'[q], editor', asks'[q])
    <3>1. CASE descCache[q] = none
      <4>1. asks'[q] <= Out(editor', q)
        BY <1>b, <2>4, <2>6, <2>7, <3>1
      <4> QED BY <1>s, <1>q, <1>2, <3>1, <4>1
    <3>2. CASE descCache[q] # none
      <4>1. asks'[q] + AtGate(editor', q) <= All
        BY <1>b, <2>4, <2>6, <2>7, <3>2
      <4> QED BY <1>s, <1>q, <1>2, <3>2, <4>1
    <3> QED BY <3>1, <3>2
  <2>9. ASSUME NEW p \in ManufacturerPids, p # q PROVE Shared(p, descCache'[p], editor', asks'[p])
    <3>1. AtGate(editor', p) = AtGate(editor, p) /\ Out(editor', p) = Out(editor, p)
      BY <2>1, <2>2, <2>9, OthersCount DEF AtGate, Out
    <3>2. descCache' = descCache /\ asks'[p] = asks[p]
      BY <1>2, <2>4, <2>9
    <3> QED BY <1>t, <1>s, <3>1, <3>2
  <2>10. \A p \in ManufacturerPids : Shared(p, descCache'[p], editor', asks'[p])
    BY <2>8, <2>9
  <2>11. descCache' = descCache /\ learnt' = learnt
    BY <1>2
  <2> HIDE DEF R, q
  <2> QED BY <1>t, <2>1, <2>4, <2>10, <2>11, TurnKeeps
<1>3. CASE Asks(c)
  <2>1. R.at = "gate" /\ learnt' = learnt
    BY <1>3 DEF Asks
  <2>2. CASE Resolved(c, "opaque") /\ DescCacheSet(q, "opaque") /\ UNCHANGED asks
    BY <1>1, <1>t, <2>1, <2>2
  <2>3. CASE Turns(c, [R EXCEPT !.at = "asking", !.asked = TRUE]) /\ Sends(q) /\ UNCHANGED descCache
    BY <1>2, <2>1, <2>3
  <2> QED BY <1>3, <2>2, <2>3 DEF Asks
<1>4. CASE Hears(c)
  <2>1. PICK answer \in {"description", "unknown PID", "no description"} :
          LET source == IF answer = "description" THEN "described" ELSE "opaque"
          IN /\ Resolved(c, source)
             /\ DescCacheSet(q, source)
             /\ learnt' = IF answer = "unknown PID" /\ R.asked
                          THEN [learnt EXCEPT ![R.uid].unsupported = TRUE] ELSE learnt
    BY <1>4 DEF Hears
  <2>2. R.at = "asking" /\ asks' = asks
    BY <1>4 DEF Hears
  <2>3. \E source \in {"described", "opaque"} : Resolved(c, source) /\ DescCacheSet(q, source)
    BY <2>1
  <2>4. CASE learnt' = learnt
    BY <1>1, <1>t, <2>2, <2>3, <2>4
  <2>5. CASE learnt' = [learnt EXCEPT ![R.uid].unsupported = TRUE]
    <3> DEFINE y == [learnt[R.uid] EXCEPT !.unsupported = TRUE]
    <3>1. learnt[R.uid] \in DeviceRecords
      BY <1>t
    <3>2. y \in DeviceRecords /\ y.descriptors = learnt[R.uid].descriptors
      BY <3>1 DEF DeviceRecords
    <3>3. learnt' = [learnt EXCEPT ![R.uid] = y]
      BY <1>t, <2>5
    <3> HIDE DEF y
    <3>4. learnt' \in [Uids -> DeviceRecords]
      BY <1>t, <3>2, <3>3
    <3>5. \A u \in Uids : learnt'[u].descriptors = learnt[u].descriptors
      BY <1>t, <3>2, <3>3
    <3> QED BY <1>1, <1>t, <2>2, <2>3, <3>4, <3>5
  <2> QED BY <2>1, <2>4, <2>5
<1> QED BY <1>3, <1>4

LEMMA ForgetRecordsKeeps == ASSUME EditorInv, NEW us, ForgetRecords(us) PROVE EditorInv'
<1>t. /\ learnt \in [Uids -> DeviceRecords] /\ editor \in [Editors -> EditorRecords]
      /\ \A u \in Uids, p \in Pids : learnt[u].descriptors[p] \in SourceOf(p) \cup {none}
      /\ asks' = asks /\ descCache' = descCache
  BY DEF EditorInv, EditorTypes, EditorTypeOK, ForgetRecords
<1>1. Blank \in DeviceRecords /\ \A p \in Pids : Blank.descriptors[p] = none
  BY DEF Blank, DeviceRecords
<1>2. /\ learnt' \in [Uids -> DeviceRecords]
      /\ \A u \in Uids, p \in Pids : learnt'[u].descriptors[p] \in SourceOf(p) \cup {none}
      /\ \A u \in Uids : learnt'[u].unsupported \in BOOLEAN
  <2>1. learnt' = [u \in Uids |-> IF u \in us THEN Blank ELSE learnt[u]]
    BY DEF ForgetRecords
  <2>2. learnt' \in [Uids -> DeviceRecords]
    BY <1>t, <1>1, <2>1
  <2>3. \A u \in Uids, p \in Pids : learnt'[u].descriptors[p] \in SourceOf(p) \cup {none}
    BY <1>t, <1>1, <2>1
  <2> QED BY <2>2, <2>3 DEF DeviceRecords
<1>3. ASSUME NEW R \in EditorRecords
      PROVE  /\ Dropped(R) \in EditorRecords /\ Dropped(R).at = R.at /\ Dropped(R).pid = R.pid
             /\ Dropped(R).desc = R.desc
  BY DEF Dropped, EditorRecords
<1>4. \A d \in Editors : /\ editor'[d] \in EditorRecords /\ editor'[d].at = editor[d].at
                         /\ editor'[d].pid = editor[d].pid /\ editor'[d].desc = editor[d].desc
  BY <1>t, <1>3 DEF ForgetRecords
<1>5. editor' \in [Editors -> EditorRecords]
  BY <1>4 DEF ForgetRecords
<1>6. \A p, at : EditorsAt(editor', at, p) = EditorsAt(editor, at, p)
  BY <1>4 DEF EditorsAt
<1>7. EditorTypes'
  BY <1>t, <1>2, <1>5 DEF EditorTypes, EditorInv
<1>8. EditorTypeOK'
  BY <1>t, <1>2, <1>4 DEF EditorTypeOK, EditorInv
<1>9. AsksOwnOnly'
  BY <1>4 DEF AsksOwnOnly, EditorInv
<1>10. \A p \in ManufacturerPids : Shared(p, descCache'[p], editor', asks'[p])
  BY <1>t, <1>6 DEF Shared, EditorInv
<1> QED BY <1>7, <1>8, <1>9, <1>10 DEF EditorInv

LEMMA ClearKeeps == ASSUME EditorInv, ClearDescriptorCache PROVE EditorInv'
<1>1. /\ descCache' = [p \in Pids |-> none] /\ asks' = [p \in ManufacturerPids |-> 0]
      /\ editor' = editor /\ learnt' = learnt
  BY DEF ClearDescriptorCache
<1>2. EditorTypes' /\ EditorTypeOK' /\ AsksOwnOnly'
  BY <1>1 DEF EditorInv, EditorTypes, EditorTypeOK, AsksOwnOnly
<1>3. ASSUME NEW p \in ManufacturerPids PROVE Shared(p, descCache'[p], editor', asks'[p])
  <2>1. descCache'[p] = none /\ asks'[p] = 0
    BY <1>1 DEF Pids
  <2>2. Cardinality(EditorsAt(editor, "asking", p)) \in Nat
    BY EditorsCount
  <2>3. 0 <= Cardinality(EditorsAt(editor, "asking", p))
    BY <2>2
  <2> QED BY <1>1, <2>1, <2>3 DEF Shared
<1> QED BY <1>2, <1>3 DEF EditorInv

LEMMA EditorStepKeeps == ASSUME EditorInv, [EditorNext]_editorVars PROVE EditorInv'
<1>1. ASSUME NEW c \in Editors, EditorStep(c) PROVE EditorInv'
  BY <1>1, QuietSteps, LookUpKeeps, AskKeeps DEF EditorStep
<1>2. CASE ForgetDescriptors
  BY <1>2, ForgetRecordsKeeps DEF ForgetDescriptors
<1>3. CASE ClearDescriptorCache
  BY <1>3, ClearKeeps
<1>4. CASE UNCHANGED editorVars
  BY <1>4 DEF editorVars, EditorInv, EditorTypes, EditorTypeOK, AsksOwnOnly, Shared, EditorsAt
<1> QED BY <1>1, <1>2, <1>3, <1>4 DEF EditorNext

\* However many devices a manufacturer has, whatever they answer and however requests and
\* resets cross: a parameter is asked of all of them together no more often than there are
\* requests at one time, of the manufacturer's parameters only, and no layout is taken for
\* that of a parameter it is not of (resolveDescriptor, descriptorCache).
THEOREM DescriptorsAreShared == EditorSpec => []EditorInvariant
<1>1. EditorInv => EditorInvariant
  <2> SUFFICES ASSUME EditorInv, NEW p \in ManufacturerPids PROVE asks[p] <= Cardinality(Editors)
    BY DEF EditorInv, EditorInvariant, AsksAreShared
  <2>1. /\ Cardinality(EditorsAt(editor, "gate", p)) \in Nat
        /\ Cardinality(EditorsAt(editor, "asking", p)) \in Nat
        /\ Cardinality(Editors) \in Nat
        /\ Cardinality(EditorsAt(editor, "gate", p)) + Cardinality(EditorsAt(editor, "asking", p))
             <= Cardinality(Editors)
    BY EditorsCount
  <2>2. asks[p] \in Nat /\ Shared(p, descCache[p], editor, asks[p])
    BY DEF EditorInv, EditorTypes
  <2>3. \/ asks[p] <= Cardinality(EditorsAt(editor, "asking", p))
        \/ asks[p] + Cardinality(EditorsAt(editor, "gate", p)) <= Cardinality(Editors)
    BY <2>2 DEF Shared
  <2> QED BY <2>1, <2>2, <2>3
<1>2. EditorInit => EditorInv
  BY EditorsInit
<1>3. EditorInv /\ [EditorNext]_editorVars => EditorInv'
  BY EditorStepKeeps
<1> QED BY <1>1, <1>2, <1>3, PTL DEF EditorSpec
-----------------------------------------------------------------------------
(* The values of the parameter editor.                                      *)

\* The number a signed value goes out as, and what is left of it.
LEMMA ModuloIs ==
  ASSUME NEW S \in Nat \ {0}, NEW n \in Int, 0 - S =< n, n < S
  PROVE  n % S = IF n >= 0 THEN n ELSE n + S
<1> DEFINE q == n \div S
           r == n % S
<1>1. q \in Int /\ r \in 0 .. S - 1 /\ n = S * q + r
  OBVIOUS
<1> HIDE DEF q, r
<1>2. CASE q >= 1
  <2>1. S * q >= S
    BY <1>1, <1>2
  <2> QED BY <1>1, <2>1
<1>3. CASE q =< -2
  <2>1. S * q =< S * (-2)
    BY <1>1, <1>3
  <2> QED BY <1>1, <2>1
<1>4. CASE q = 0
  <2>1. S * q = 0
    BY <1>4
  <2>2. n = r
    BY <1>1, <2>1
  <2> QED BY <1>1, <2>2 DEF r
<1>5. CASE q = -1
  <2>1. S * q = 0 - S
    BY <1>5
  <2>2. r = n + S
    BY <1>1, <2>1
  <2> QED BY <1>1, <2>2 DEF r
<1> QED BY <1>1, <1>2, <1>3, <1>4, <1>5

\* A product of two numbers of which the first is even.
LEMMA EvenProduct ==
  ASSUME NEW x \in Nat \ {0}, NEW y \in Nat \ {0}, x = 2 * (x \div 2)
  PROVE  x * y \in Nat \ {0} /\ x * y = 2 * ((x * y) \div 2)
<1> DEFINE h == x \div 2
           k == h * y
<1>1. h \in Int /\ x = 2 * h
  OBVIOUS
<1> HIDE DEF h
<1>2. k \in Int /\ x * y = 2 * k
  BY <1>1
<1>3. x * y \in Nat \ {0}
  OBVIOUS
<1> DEFINE p == x * y
<1> HIDE DEF k
<1>4. p \in Nat /\ p = 2 * k
  BY <1>2, <1>3
<1> HIDE DEF p
<1>5. p \div 2 = k
  BY <1>2, <1>4
<1>6. p = 2 * (p \div 2)
  BY <1>4, <1>5
<1> QED BY <1>3, <1>6 DEF p

LEMMA SpansAre ==
  ASSUME NEW type \in Numeric
  PROVE  /\ Span(type) \in Nat \ {0} /\ Span(type) = 2 * (Span(type) \div 2)
         /\ TypeWidth[type] \in Nat
<1> DEFINE B == ByteSize
           W == B * B
<1>1. B \in Nat \ {0} /\ B = 2 * (B \div 2)
  BY EditorAssumption
<1>2. W \in Nat \ {0} /\ W = 2 * (W \div 2)
  BY <1>1, EvenProduct
<1>3. W * W \in Nat \ {0} /\ W * W = 2 * ((W * W) \div 2)
  <2> HIDE DEF W
  <2> QED BY <1>2, EvenProduct
<1>4. Span(type) \in {B, W, W * W} /\ TypeWidth[type] \in Nat
  BY DEF Span, Numeric, TypeWidth
<1> HIDE DEF W, B
<1> QED BY <1>1, <1>2, <1>3, <1>4

\* What was typed, the two descriptors, and what is missing of the answer.
ExchangeTypes ==
  /\ exchange.typed \in Inputs
  /\ exchange.read \in Descriptors \cup FirstSeen /\ exchange.sent \in Descriptors \cup FirstSeen
  /\ exchange.lost \in Nat
  /\ exchange = [typed |-> exchange.typed, read |-> exchange.read, sent |-> exchange.sent,
                 lost |-> exchange.lost]

LEMMA ExchangeTyped == ExchangeSpec => []ExchangeTypes
<1>1. ExchangeInit => ExchangeTypes
  BY DEF ExchangeInit, ExchangeTypes
<1>2. ExchangeTypes /\ [ExchangeNext]_exchange => ExchangeTypes'
  <2> SUFFICES ASSUME ExchangeTypes, [ExchangeNext]_exchange PROVE ExchangeTypes'
    OBVIOUS
  <2>1. CASE DescribedAnew
    <3>1. PICK d \in Descriptors : exchange' = [exchange EXCEPT !.sent = d]
      BY <2>1 DEF DescribedAnew
    <3> QED BY <3>1 DEF ExchangeTypes
  <2>2. CASE AnswerShortened
    <3>1. exchange' = [exchange EXCEPT !.lost = exchange.lost + 1]
      BY <2>2 DEF AnswerShortened
    <3> QED BY <3>1 DEF ExchangeTypes
  <2>3. CASE UNCHANGED exchange
    BY <2>3 DEF ExchangeTypes
  <2> QED BY <2>1, <2>2, <2>3 DEF ExchangeNext
<1> QED BY <1>1, <1>2, PTL DEF ExchangeSpec

\* A number is what was typed, whichever descriptor it was typed under.
LEMMA NumbersAreTyped ==
  ASSUME NEW t \in Inputs, NEW d
  PROVE  /\ DecodeSetValue(t, d).kind = "number" => DecodeSetValue(t, d).n = t.n
         /\ DecodeSetValue(t, d).kind = "text" => DecodeSetValue(t, d).n = t.n /\ t.n \in Nat
<1>1. t.form = "text" => t.n \in Nat
  BY ExchangeAssumption
<1>2. Nothing.kind # "number" /\ Nothing.kind # "text"
  BY DEF Nothing
<1>3. \A k, n : Value(k, n).kind = k /\ Value(k, n).n = n
  BY DEF Value
<1>4. \/ DecodeSetValue(t, d) = Value("text", t.n) /\ t.form = "text"
      \/ DecodeSetValue(t, d) = Value("number", t.n)
      \/ DecodeSetValue(t, d) = Nothing
      \/ \E n : DecodeSetValue(t, d) = Value("bytes", n)
  BY DEF DecodeSetValue
<1> QED BY <1>1, <1>2, <1>3, <1>4

\* What a type can hold is read back from the whole answer.
LEMMA TypeHolds ==
  ASSUME NEW d, Takes(d) = "number", NEW n \in Int, Lowest(d.type) =< n, n =< Highest(d.type),
         NEW w, w = TypeWidth[d.type]
  PROVE  DecodeByDataType([length |-> w, number |-> n % Span(d.type)], d) = Value("number", n)
<1> DEFINE S == Span(d.type)
           data == [length |-> w, number |-> n % S]
<1>1. d.type \in Numeric
  BY DEF Takes
<1>2. S \in Nat \ {0} /\ S = 2 * (S \div 2) /\ w \in Nat
  BY <1>1, SpansAre
<1>3. S >= 2
  BY <1>2
<1>4. data.length = w /\ data.number = n % S
  OBVIOUS
<1>5. DecodeByDataType(data, d) =
        IF d.type = "Boolean" THEN Value("number", IF n % S = 0 THEN 0 ELSE 1)
        ELSE IF d.type \in Signed /\ 2 * (n % S) >= S THEN Value("number", (n % S) - S)
        ELSE Value("number", n % S)
  BY <1>2, <1>4 DEF DecodeByDataType
<1>6. CASE d.type = "Boolean"
  <2>0. Lowest(d.type) = 0 /\ Highest(d.type) = 1
    BY <1>6 DEF Lowest, Highest, Signed
  <2>1. n = 0 \/ n = 1
    BY <2>0
  <2>2. 0 - S =< n /\ n < S
    BY <1>2, <1>3, <2>1
  <2> HIDE DEF S
  <2>3. n % S = n
    BY <1>2, <2>1, <2>2, ModuloIs
  <2> HIDE DEF data
  <2> QED BY <1>5, <1>6, <2>1, <2>3 DEF S, data
<1>7. CASE d.type \in Signed
  <2>1. 0 - (S \div 2) =< n /\ n =< (S \div 2) - 1 /\ d.type # "Boolean"
    BY <1>7 DEF Lowest, Highest, Signed
  <2> HIDE DEF S
  <2> DEFINE h == S \div 2
  <2>2. h \in Int /\ S = 2 * h
    BY <1>2
  <2>3. 0 - h =< n /\ n =< h - 1
    BY <2>1
  <2> HIDE DEF h
  <2>4. 0 - S =< n /\ n < S
    BY <1>2, <2>2, <2>3
  <2>5. n % S = IF n >= 0 THEN n ELSE n + S
    BY <1>2, <2>4, ModuloIs
  <2>6. CASE n >= 0
    <3>1. n % S = n /\ ~(2 * (n % S) >= S)
      BY <1>2, <2>2, <2>3, <2>5, <2>6
    <3> QED BY <1>5, <2>1, <3>1 DEF S
  <2>7. CASE n < 0
    <3>1. n % S = n + S /\ 2 * (n % S) >= S /\ (n % S) - S = n
      BY <1>2, <2>2, <2>3, <2>5, <2>7
    <3> QED BY <1>5, <1>7, <2>1, <3>1 DEF S
  <2> QED BY <2>6, <2>7
<1>8. CASE d.type # "Boolean" /\ d.type \notin Signed
  <2>1. 0 =< n /\ n =< S - 1
    BY <1>8 DEF Lowest, Highest
  <2> HIDE DEF S
  <2>3. S \in Nat \ {0} /\ 0 - S =< n /\ n < S /\ n >= 0
    BY <1>2, <2>1
  <2>4. n % S = IF n >= 0 THEN n ELSE n + S
    BY <2>3, ModuloIs
  <2>2. n % S = n
    BY <2>3, <2>4
  <2> QED BY <1>5, <1>8, <2>2 DEF S
<1> QED BY <1>6, <1>7, <1>8

LEMMA NumbersReadBack == ExchangeTypes => SetReadsBack
<1> DEFINE v == DecodeSetValue(exchange.typed, exchange.read)
           d == exchange.sent
           data == [length |-> Transmitted(exchange).length - exchange.lost, number |-> Transmitted(exchange).number]
<1> SUFFICES ASSUME ExchangeTypes, IsSent(exchange), Takes(d) = "number"
             PROVE  IF exchange.lost > 0 THEN Answered(exchange) = Nothing
                    ELSE Bounded(d) => Answered(exchange) = Value("number", exchange.typed.n)
  BY DEF SetReadsBack
<1>1. /\ d \in Descriptors \cup FirstSeen /\ exchange.typed \in Inputs /\ exchange.lost \in Nat
      /\ d.min \in Int /\ d.max \in Int /\ exchange.typed.n \in Int
  BY ExchangeAssumption DEF ExchangeTypes
<1>2. d.typed /\ d.type \in Numeric
  BY DEF Takes
<1>3. v.kind = "number" /\ ValidateRange(v.n, d)
  BY <1>2 DEF IsSent, SetParam
<1>4. v.n = exchange.typed.n
  BY <1>1, <1>3, NumbersAreTyped
<1>5. Transmitted(exchange) = [length |-> TypeWidth[d.type], number |-> v.n % Span(d.type)]
  BY DEF Transmitted, EncodeByDataType
<1>6. TypeWidth[d.type] \in Nat
  BY <1>2, SpansAre
<1>7. data = [length |-> TypeWidth[d.type] - exchange.lost, number |-> v.n % Span(d.type)]
  BY <1>5
<1>8. Answered(exchange) = DecodeByDataType(data, d)
  BY DEF Answered
<1> HIDE DEF v, data
<1>9. CASE exchange.lost > 0
  <2>1. data.length < TypeWidth[d.type]
    BY <1>1, <1>6, <1>7, <1>9
  <2>2. DecodeByDataType(data, d) = Nothing
    BY <2>1 DEF DecodeByDataType
  <2> QED BY <1>8, <1>9, <2>2
<1>10. CASE ~(exchange.lost > 0)
  <2>1. exchange.lost = 0
    BY <1>1, <1>10
  <2>2. data = [length |-> TypeWidth[d.type], number |-> exchange.typed.n % Span(d.type)]
    BY <1>4, <1>6, <1>7, <2>1
  <2>3. ASSUME Bounded(d) PROVE Answered(exchange) = Value("number", exchange.typed.n)
    <3>1. d.min =< v.n /\ v.n =< d.max
      BY <1>3, <2>3 DEF Bounded, ValidateRange
    <3>2. Lowest(d.type) =< d.min /\ d.max =< Highest(d.type)
      BY <2>3 DEF Bounded
    <3>3. Lowest(d.type) \in Int /\ Highest(d.type) \in Int
      <4>1. Span(d.type) \in Nat
        BY <1>2, SpansAre
      <4> QED BY <4>1 DEF Lowest, Highest
    <3>4. Lowest(d.type) =< exchange.typed.n /\ exchange.typed.n =< Highest(d.type)
      BY <1>1, <1>4, <3>1, <3>2, <3>3
    <3> HIDE DEF d
    <3>5. DecodeByDataType([length |-> TypeWidth[d.type], number |-> exchange.typed.n % Span(d.type)], d)
            = Value("number", exchange.typed.n)
      BY <1>1, <3>4, TypeHolds
    <3> QED BY <1>8, <2>2, <3>5
  <2> QED BY <1>10, <2>3
<1> QED BY <1>9, <1>10

LEMMA TextsFit == ExchangeTypes => TextFits
<1> DEFINE v == DecodeSetValue(exchange.typed, exchange.read)
           d == exchange.sent
<1> SUFFICES ASSUME ExchangeTypes, IsSent(exchange), Takes(d) = "text"
             PROVE  /\ Transmitted(exchange).length =< exchange.typed.n
                    /\ d.pdl > 0 => Transmitted(exchange).length =< d.pdl
  BY DEF TextFits
<1>1. exchange.typed \in Inputs /\ d.pdl \in Nat
  BY ExchangeAssumption DEF ExchangeTypes
<1>2. v.kind = "text"
  BY DEF IsSent, SetParam
<1>3. v.n = exchange.typed.n /\ v.n \in Nat
  BY <1>1, <1>2, NumbersAreTyped
<1>4. Transmitted(exchange).length =
        IF d.pdl > 0 /\ v.n > d.pdl THEN d.pdl ELSE IF v.n > MaxText THEN MaxText ELSE v.n
  BY DEF Transmitted, EncodeByDataType
<1> HIDE DEF v, d
<1> QED BY <1>1, <1>3, <1>4 DEF MaxText

\* Whatever was typed, under whichever descriptor: what a parameter's range and type allow
\* is read back as it was typed, an answer cut short is an error, and a text is never
\* longer than the parameter (SetParam, encodeByDataType, decodeByDataType).
THEOREM ValuesReadBack == ExchangeSpec => []ExchangeInvariant
<1>1. ExchangeTypes => ExchangeInvariant
  BY NumbersReadBack, TextsFit DEF ExchangeInvariant
<1> QED BY <1>1, ExchangeTyped, PTL
=============================================================================
