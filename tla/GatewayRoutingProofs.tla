------------------------ MODULE GatewayRoutingProofs ------------------------
(***************************************************************************)
(* Theorems about the routing table, for any number of masters and ranges  *)
(* and any width of the unit id.                                           *)
(***************************************************************************)
EXTENDS GatewayRouting, TLAPS, SequenceTheorems

USE RoutingAssumption DEF RoutingAssumption, Units, Table, Ids, DefaultId

UnitRanges == [begin : Units, end : Units]

(* A range as the extraction leaves it, *)
Accepted == {r \in UnitRanges : r.begin <= r.end /\ r.end <= UnitIdMax}

(* the unit ids it stands for, and those of the i-th master of the file.   *)
Within(r, u) == r.begin <= u /\ u <= r.end
Covers(i, u) == \E k \in 1..Len(unitIdSet[i]) : Within(unitIdSet[i][k], u)
-----------------------------------------------------------------------------
(***************************************************************************)
(* The extraction and the validation.                                      *)
(***************************************************************************)
ConfigInv ==
  /\ unitIdSet \in Seq(Seq(Accepted))
  /\ Len(unitIdSet) <= MaxMasters
  /\ given \in Seq(GivenSets)
  /\ Len(given) <= MaxMasters
  /\ stage # "refused" =>
       /\ Len(given) = Len(unitIdSet)
       /\ \A i \in 1..Len(given) :
            /\ given[i] = <<>> <=> unitIdSet[i] = <<>>
            /\ \A u \in Nat : Lists(i, u) <=> Covers(i, u)
  /\ stage \notin {"extract", "refused"} => given # <<>>
  /\ stage \notin {"extract", "validate", "refused"} =>
       \A i, j \in 1..Len(unitIdSet) :
         i # j => unitIdSet[i] # <<>> \/ unitIdSet[j] # <<>>

(* An accepted range, normalized, stands for the same unit ids.            *)
LEMMA NormalizeAccepted ==
  ASSUME NEW r \in Given, UnitIdAccepted(r.begin), UnitIdAccepted(r.end)
  PROVE  /\ Normalize(r) \in Accepted
         /\ \A u \in Nat :
              Within(Normalize(r), u) <=> \/ r.begin <= u /\ u <= r.end
                                          \/ r.end <= u /\ u <= r.begin
BY DEF Normalize, UnitIdAccepted, Accepted, UnitRanges, Given, Within

LEMMA GivenType ==
  ASSUME NEW s \in GivenSets, s # <<>>
  PROVE  s = <<s[1]>> /\ s[1] \in Seq(Given)
<1>1. PICK t \in UNION {[1..n -> Given] : n \in 0..MaxRanges} : s = <<t>>
  BY DEF GivenSets
<1>2. PICK n \in 0..MaxRanges : t \in [1..n -> Given]
  BY <1>1
<1>3. t \in Seq(Given)
  BY <1>2
<1> QED BY <1>1, <1>3

LEMMA SetType ==
  ASSUME NEW s \in Seq(Given), SetAccepted(s)
  PROVE  LET set == [i \in DOMAIN s |-> Normalize(s[i])]
         IN  /\ set \in Seq(Accepted) /\ Len(set) = Len(s) /\ set # <<>>
             /\ \A i \in 1..Len(s) : set[i] = Normalize(s[i])
             /\ \A i \in 1..Len(s) : s[i] \in Given /\ set[i] \in Accepted
<1> DEFINE set == [i \in DOMAIN s |-> Normalize(s[i])]
<1>1. Len(s) \in Nat /\ DOMAIN s = 1..Len(s) /\ \A i \in 1..Len(s) : s[i] \in Given
  BY LenProperties, ElementOfSeq
<1>2. \A i \in 1..Len(s) : set[i] = Normalize(s[i]) /\ set[i] \in Accepted
  BY <1>1, NormalizeAccepted DEF SetAccepted
<1>3. set \in [1..Len(s) -> Accepted]
  BY <1>1, <1>2
<1>4. set \in Seq(Accepted) /\ Len(set) = Len(s)
  BY <1>1, <1>3
<1>5. Len(s) # 0
  BY <1>1 DEF SetAccepted
<1> QED BY <1>1, <1>2, <1>4, <1>5

LEMMA ConfigStart == Init => ConfigInv
<1> SUFFICES ASSUME Init PROVE ConfigInv
  OBVIOUS
<1>1. unitIdSet \in Seq(Seq(Accepted)) /\ given \in Seq(GivenSets)
      /\ Len(unitIdSet) = 0 /\ Len(given) = 0
  BY DEF Init
<1> QED BY <1>1 DEF Init, ConfigInv

(* What was extracted before does not change.                              *)
LEMMA ExtractedBefore ==
  ASSUME ConfigInv, stage = "extract", NEW s, NEW set,
         given' = Append(given, s), unitIdSet' = Append(unitIdSet, set),
         s \in GivenSets, set \in Seq(Accepted), Len(given) < MaxMasters,
         UNCHANGED stage, s = <<>> <=> set = <<>>,
         \A u \in Nat :
           (s # <<>> /\ \E k \in 1..Len(s[1]) :
                          \/ s[1][k].begin <= u /\ u <= s[1][k].end
                          \/ s[1][k].end <= u /\ u <= s[1][k].begin)
           <=> \E k \in 1..Len(set) : Within(set[k], u)
  PROVE  ConfigInv'
<1>1. /\ unitIdSet \in Seq(Seq(Accepted)) /\ given \in Seq(GivenSets)
      /\ Len(given) = Len(unitIdSet) /\ Len(given) \in Nat
  BY LenProperties DEF ConfigInv
<1> DEFINE n == Len(given) + 1
<1>2. /\ given' \in Seq(GivenSets) /\ Len(given') = n /\ given'[n] = s
      /\ \A i \in 1..Len(given) : given'[i] = given[i]
  BY <1>1
<1>3. /\ unitIdSet' \in Seq(Seq(Accepted)) /\ Len(unitIdSet') = n /\ unitIdSet'[n] = set
      /\ \A i \in 1..Len(given) : unitIdSet'[i] = unitIdSet[i]
  BY <1>1
<1>4. n <= MaxMasters /\ \A i \in 1..n : i \in 1..Len(given) \/ i = n
  BY <1>1
<1> HIDE DEF n
<1>5. \A i \in 1..n : given'[i] = <<>> <=> unitIdSet'[i] = <<>>
  BY <1>2, <1>3, <1>4 DEF ConfigInv
<1>6. ASSUME NEW i \in 1..n, NEW u \in Nat
      PROVE  (/\ given'[i] # <<>>
              /\ \E k \in 1..Len(given'[i][1]) :
                   LET r == given'[i][1][k]
                   IN  (r.begin <= u /\ u <= r.end) \/ (r.end <= u /\ u <= r.begin))
             <=> \E k \in 1..Len(unitIdSet'[i]) : Within(unitIdSet'[i][k], u)
  <2>1. CASE i = n
    BY <1>2, <1>3, <2>1
  <2>2. CASE i \in 1..Len(given)
    <3>1. Lists(i, u) <=> Covers(i, u)
      BY <2>2 DEF ConfigInv
    <3>2. given'[i] = given[i] /\ unitIdSet'[i] = unitIdSet[i]
      BY <1>2, <1>3, <2>2
    <3> QED BY <3>1, <3>2 DEF Lists, Covers
  <2> QED BY <1>4, <2>1, <2>2
<1>7. \A i \in 1..n : \A u \in Nat : Lists(i, u)' <=> Covers(i, u)'
  BY <1>6 DEF Lists, Covers
<1>8. stage' = "extract" /\ Len(given') <= MaxMasters /\ Len(unitIdSet') <= MaxMasters
  BY <1>2, <1>3, <1>4
<1> QED BY <1>2, <1>3, <1>5, <1>7, <1>8 DEF ConfigInv

(* One master more, or an exception.                                       *)
LEMMA ExtractMasterKeepsConfig ==
  ASSUME ConfigInv, NEW s \in GivenSets, ExtractMaster(s)
  PROVE  ConfigInv'
<1>1. /\ stage = "extract" /\ Len(given) < MaxMasters
      /\ given' = Append(given, s) /\ given \in Seq(GivenSets)
  BY DEF ExtractMaster, ConfigInv
<1>2. CASE s = <<>> /\ unitIdSet' = Append(unitIdSet, <<>>) /\ UNCHANGED stage
  <2> DEFINE set == <<>>
  <2>1. set \in Seq(Accepted) /\ Len(set) = 0 /\ set = <<>>
    OBVIOUS
  <2>2. unitIdSet' = Append(unitIdSet, set)
    BY <1>2
  <2> HIDE DEF set
  <2>3. \A u : ~\E k \in 1..Len(set) : Within(set[k], u)
    BY <2>1
  <2> QED BY <1>1, <1>2, <2>1, <2>2, <2>3, ExtractedBefore
<1>3. CASE /\ s # <<>> /\ SetAccepted(s[1]) /\ UNCHANGED stage
           /\ unitIdSet' = Append(unitIdSet, [i \in DOMAIN s[1] |-> Normalize(s[1][i])])
  <2> DEFINE set == [i \in DOMAIN s[1] |-> Normalize(s[1][i])]
  <2>1. s[1] \in Seq(Given)
    BY <1>3, GivenType
  <2>2. /\ set \in Seq(Accepted) /\ Len(set) = Len(s[1]) /\ set # <<>>
        /\ \A i \in 1..Len(s[1]) : set[i] = Normalize(s[1][i]) /\ s[1][i] \in Given
    BY <1>3, <2>1, SetType
  <2>3. \A i \in 1..Len(s[1]) : UnitIdAccepted(s[1][i].begin) /\ UnitIdAccepted(s[1][i].end)
    BY <1>3 DEF SetAccepted
  <2>4. unitIdSet' = Append(unitIdSet, set)
    BY <1>3
  <2> HIDE DEF set
  <2>5. ASSUME NEW i \in 1..Len(s[1]), NEW u \in Nat
        PROVE  Within(set[i], u) <=> \/ s[1][i].begin <= u /\ u <= s[1][i].end
                                     \/ s[1][i].end <= u /\ u <= s[1][i].begin
    BY <2>2, <2>3, NormalizeAccepted
  <2> QED BY <1>1, <1>3, <2>2, <2>4, <2>5, ExtractedBefore
<1>4. CASE stage' = "refused" /\ UNCHANGED unitIdSet
  <2>1. given' \in Seq(GivenSets) /\ Len(given') <= MaxMasters
    BY <1>1, LenProperties
  <2> QED BY <1>4, <2>1 DEF ConfigInv
<1> QED BY <1>2, <1>3, <1>4 DEF ExtractMaster

LEMMA ConfigStep ==
  ASSUME ConfigInv, [Next]_vars
  PROVE  ConfigInv'
<1>1. CASE \E s \in GivenSets : ExtractMaster(s)
  BY <1>1, ExtractMasterKeepsConfig
<1>2. ASSUME UNCHANGED <<given, unitIdSet>>
      PROVE  /\ \A i, u : (Lists(i, u)' <=> Lists(i, u)) /\ (Covers(i, u)' <=> Covers(i, u))
  BY <1>2 DEF Lists, Covers
<1>3. CASE ExtractMasters
  <2>1. UNCHANGED <<given, unitIdSet>> /\ stage = "extract"
        /\ stage' = IF given = <<>> THEN "refused" ELSE "validate"
    BY <1>3 DEF ExtractMasters
  <2> QED BY <1>2, <2>1 DEF ConfigInv
<1>4. CASE Validate
  <2>1. /\ UNCHANGED <<given, unitIdSet>> /\ stage = "validate"
        /\ stage' \in {"refused", "masters"}
        /\ stage' = "masters" => \A i, j \in 1..Len(unitIdSet) :
             i # j => unitIdSet[i] # <<>> \/ unitIdSet[j] # <<>>
    BY <1>4 DEF Validate
  <2> QED BY <1>2, <2>1 DEF ConfigInv
<1>5. ASSUME \/ MakeMasters \/ MakeRouter \/ EnterRange \/ SetRoute
             \/ LeaveRange \/ LeaveMaster \/ RouterMade \/ UNCHANGED vars
      PROVE  ConfigInv'
  <2>1. UNCHANGED <<given, unitIdSet>>
    BY <1>5 DEF MakeMasters, MakeRouter, EnterRange, SetRoute,
                LeaveRange, LeaveMaster, RouterMade, vars
  <2>2. \/ UNCHANGED stage
        \/ /\ stage \notin {"extract", "validate", "refused"}
           /\ stage' \notin {"extract", "validate", "refused"}
    BY <1>5 DEF MakeMasters, MakeRouter, EnterRange, SetRoute, LeaveRange,
                LeaveMaster, RouterMade, vars, AtRange, AtMaster
  <2> QED BY <1>2, <2>1, <2>2 DEF ConfigInv
<1> QED BY <1>1, <1>3, <1>4, <1>5 DEF Next, Startup
-----------------------------------------------------------------------------
(***************************************************************************)
(* The masters: those with unit ids in the order of the file, behind the   *)
(* one without.                                                            *)
(***************************************************************************)
MasterInv ==
  /\ stage \in {"extract", "validate", "refused"} => masters = <<>>
  /\ masters \in Seq(1..Len(unitIdSet))
  /\ Len(masters) <= Len(unitIdSet)
  /\ \A k \in 1..Len(masters) : masters[k] \in 1..Len(masters)
  /\ \A m \in 1..Len(masters) : \E k \in 1..Len(masters) : masters[k] = m
  /\ \A k \in 2..Len(masters) : unitIdSet[masters[k]] # <<>>
  /\ \A j, k \in 1..Len(masters) :
       j < k /\ unitIdSet[masters[j]] # <<>> => masters[j] < masters[k]
  /\ stage \in {"router", "routes", "serving"} => Len(masters) = Len(unitIdSet)

LEMMA MastersStart == Init => MasterInv
<1> SUFFICES ASSUME Init PROVE MasterInv
  OBVIOUS
<1>1. masters = <<>> /\ unitIdSet = <<>> /\ stage = "extract" /\ Len(masters) = 0
      /\ Len(unitIdSet) = 0 /\ masters \in Seq(1..Len(unitIdSet))
  BY DEF Init
<1> QED BY <1>1 DEF MasterInv

LEMMA Prepended ==
  ASSUME NEW S, NEW q \in Seq(S), NEW e \in S, NEW n \in Nat, n = Len(q)
  PROVE  /\ <<e>> \o q \in Seq(S)
         /\ Len(<<e>> \o q) = n + 1
         /\ (<<e>> \o q)[1] = e
         /\ \A k \in 2..(n + 1) : (<<e>> \o q)[k] = q[k - 1] /\ k - 1 \in 1..n
OBVIOUS

LEMMA Appended ==
  ASSUME NEW S, NEW q \in Seq(S), NEW e \in S, NEW n \in Nat, n = Len(q)
  PROVE  /\ Append(q, e) \in Seq(S)
         /\ Len(Append(q, e)) = n + 1
         /\ Append(q, e)[n + 1] = e
         /\ \A k \in 1..n : Append(q, e)[k] = q[k]
OBVIOUS

(* A new master goes to the end, or to the front if it is the default.     *)
LEMMA PlacedKeepsMasters ==
  ASSUME ConfigInv, MasterInv, stage = "masters", Len(masters) < Len(unitIdSet),
         masters' = Placed(Len(masters) + 1), UNCHANGED <<stage, unitIdSet>>
  PROVE  MasterInv'
<1>1. /\ unitIdSet \in Seq(Seq(Accepted)) /\ masters \in Seq(1..Len(unitIdSet))
  BY DEF ConfigInv, MasterInv
<1>2. PICK n \in Nat, m \in Nat : n = Len(masters) /\ m = Len(unitIdSet)
  BY <1>1, LenProperties
<1>3. PICK i \in Nat : i = n + 1
  OBVIOUS
<1>4. i \in 1..m /\ (\A k \in 1..i : k = i \/ k \in 1..n) /\ i \notin 1..n
      /\ \A k \in 1..n : k \in 1..i
  BY <1>2, <1>3
<1>5. masters \in Seq(1..m) /\ \A k \in 1..n : masters[k] \in 1..m
  BY <1>1, <1>2, ElementOfSeq
<1>6. /\ \A k \in 1..n : masters[k] \in 1..n
      /\ \A h \in 1..n : \E k \in 1..n : masters[k] = h
      /\ \A k \in 2..n : unitIdSet[masters[k]] # <<>>
      /\ \A j, k \in 1..n : j < k /\ unitIdSet[masters[j]] # <<>> => masters[j] < masters[k]
  BY <1>2 DEF MasterInv
<1>7. masters' = Placed(i) /\ UNCHANGED unitIdSet /\ stage' = "masters"
  BY <1>2, <1>3
<1>8. SUFFICES ASSUME masters' \in Seq(1..m) /\ Len(masters') = i
               PROVE  /\ \A k \in 1..i : masters'[k] \in 1..i
                      /\ \A h \in 1..i : \E k \in 1..i : masters'[k] = h
                      /\ \A k \in 2..i : unitIdSet[masters'[k]] # <<>>
                      /\ \A j, k \in 1..i :
                           j < k /\ unitIdSet[masters'[j]] # <<>> => masters'[j] < masters'[k]
  <2>1. masters' \in Seq(1..m) /\ Len(masters') = i
    <3>1. CASE unitIdSet[i] = <<>>
      <4>1. masters' = <<i>> \o masters
        BY <1>7, <3>1 DEF Placed
      <4>2. <<i>> \o masters \in Seq(1..m) /\ Len(<<i>> \o masters) = n + 1
        <5> DEFINE S == 1..m
        <5>1. masters \in Seq(S) /\ i \in S /\ n = Len(masters)
          BY <1>2, <1>4, <1>5
        <5> HIDE DEF S
        <5>2. <<i>> \o masters \in Seq(S) /\ Len(<<i>> \o masters) = n + 1
          BY <5>1, Prepended
        <5> QED BY <5>2 DEF S
      <4> QED BY <1>3, <4>1, <4>2
    <3>2. CASE unitIdSet[i] # <<>>
      <4>1. masters' = Append(masters, i)
        BY <1>7, <3>2 DEF Placed
      <4>2. Append(masters, i) \in Seq(1..m) /\ Len(Append(masters, i)) = n + 1
        <5> DEFINE S == 1..m
        <5>1. masters \in Seq(S) /\ i \in S /\ n = Len(masters)
          BY <1>2, <1>4, <1>5
        <5> HIDE DEF S
        <5>2. Append(masters, i) \in Seq(S) /\ Len(Append(masters, i)) = n + 1
          BY <5>1, Appended
        <5> QED BY <5>2 DEF S
      <4> QED BY <1>3, <4>1, <4>2
    <3> QED BY <3>1, <3>2
  <2>2. i <= m
    BY <1>4
  <2> QED BY <1>2, <1>7, <2>1, <2>2 DEF MasterInv
<1>9. CASE unitIdSet[i] = <<>>
  <2>1. /\ masters'[1] = i
        /\ \A k \in 2..i : masters'[k] = masters[k - 1] /\ k - 1 \in 1..n
    BY <1>2, <1>3, <1>4, <1>5, <1>7, <1>9, Prepended DEF Placed
  <2>2. \A k \in 1..n : unitIdSet[masters[k]] # <<>>
    <3>1. \A a, b \in 1..m : a # b => unitIdSet[a] # <<>> \/ unitIdSet[b] # <<>>
      BY <1>2 DEF ConfigInv
    <3>2. \A k \in 1..n : masters[k] \in 1..m /\ masters[k] # i
      BY <1>4, <1>5, <1>6
    <3> QED BY <1>4, <1>9, <3>1, <3>2
  <2>3. \A k \in 1..i : k = 1 \/ k \in 2..i
    BY <1>4
  <2>4. \A k \in 1..i : masters'[k] \in 1..i
    <3> TAKE k \in 1..i
    <3>1. CASE k = 1
      BY <1>3, <2>1, <3>1
    <3>2. CASE k \in 2..i
      <4>1. masters'[k] \in 1..n
        BY <1>6, <2>1, <3>2
      <4> QED BY <1>4, <4>1
    <3> QED BY <2>3, <3>1, <3>2
  <2>5. ASSUME NEW h \in 1..i
        PROVE  \E k \in 1..i : masters'[k] = h
    <3>1. CASE h = i
      BY <1>3, <2>1, <3>1
    <3>2. CASE h \in 1..n
      <4>1. PICK k \in 1..n : masters[k] = h
        BY <1>6, <3>2
      <4>2. k + 1 \in 2..i /\ k + 1 \in 1..i /\ (k + 1) - 1 = k
        BY <1>3
      <4>3. masters'[k + 1] = h
        BY <2>1, <4>1, <4>2
      <4> QED BY <4>2, <4>3
    <3> QED BY <1>4, <3>1, <3>2
  <2>6. \A k \in 2..i : unitIdSet[masters'[k]] # <<>>
    BY <2>1, <2>2
  <2>7. ASSUME NEW j \in 1..i, NEW k \in 1..i, j < k, unitIdSet[masters'[j]] # <<>>
        PROVE  masters'[j] < masters'[k]
    <3>1. j # 1
      BY <1>9, <2>1, <2>7
    <3>2. j \in 2..i /\ k \in 2..i /\ j - 1 < k - 1
      BY <2>3, <2>7, <3>1
    <3>3. /\ masters'[j] = masters[j - 1] /\ j - 1 \in 1..n
          /\ masters'[k] = masters[k - 1] /\ k - 1 \in 1..n
      BY <2>1, <3>2
    <3>4. unitIdSet[masters[j - 1]] # <<>>
      BY <2>7, <3>3
    <3>5. masters[j - 1] < masters[k - 1]
      BY <1>6, <3>2, <3>3, <3>4
    <3> QED BY <3>3, <3>5
  <2> QED BY <2>4, <2>5, <2>6, <2>7
<1>10. CASE unitIdSet[i] # <<>>
  <2>1. masters'[i] = i /\ \A k \in 1..n : masters'[k] = masters[k]
    BY <1>2, <1>3, <1>4, <1>5, <1>7, <1>10, Appended DEF Placed
  <2>2. \A k \in 1..i : masters'[k] \in 1..i
    BY <1>4, <1>6, <2>1, ZenonT(40)
  <2>3. \A h \in 1..i : \E k \in 1..i : masters'[k] = h
    BY <1>4, <1>6, <2>1
  <2>4. ASSUME NEW k \in 2..i
        PROVE  unitIdSet[masters'[k]] # <<>>
    <3>1. k = i \/ (k \in 2..n /\ k \in 1..n)
      BY <1>3
    <3> QED BY <1>6, <1>10, <2>1, <3>1
  <2>5. ASSUME NEW j \in 1..i, NEW k \in 1..i, j < k, unitIdSet[masters'[j]] # <<>>
        PROVE  masters'[j] < masters'[k]
    <3>1. j \in 1..n
      BY <1>3, <2>5
    <3>2. CASE k \in 1..n
      BY <1>6, <2>1, <2>5, <3>1, <3>2
    <3>3. CASE k = i
      <4>1. masters[j] \in 1..n
        BY <1>6, <3>1
      <4> QED BY <1>3, <2>1, <3>1, <3>3, <4>1
    <3> QED BY <1>4, <3>2, <3>3
  <2> QED BY <2>2, <2>3, <2>4, <2>5
<1> QED BY <1>9, <1>10

LEMMA MastersStep ==
  ASSUME ConfigInv, MasterInv, [Next]_vars
  PROVE  MasterInv'
<1>1. CASE MakeMasters
  <2>1. CASE Len(masters) < Len(unitIdSet) /\ masters' = Placed(Len(masters) + 1) /\ UNCHANGED stage
    BY <1>1, <2>1, PlacedKeepsMasters DEF MakeMasters
  <2>2. CASE Len(masters) = Len(unitIdSet) /\ stage' = "router" /\ UNCHANGED masters
    BY <1>1, <2>2 DEF MakeMasters, MasterInv
  <2> QED BY <1>1, <2>1, <2>2 DEF MakeMasters
<1>2. ASSUME NEW s \in GivenSets, ExtractMaster(s)
      PROVE  MasterInv'
  <2>1. masters' = <<>> /\ Len(masters') = 0 /\ stage' \in {"extract", "refused"}
    BY <1>2 DEF ExtractMaster, MasterInv
  <2>2. unitIdSet' \in Seq(Seq(Accepted)) /\ masters' \in Seq(1..Len(unitIdSet'))
    <3>1. ConfigInv'
      BY <1>2, ExtractMasterKeepsConfig
    <3>2. \A S : <<>> \in Seq(S)
      OBVIOUS
    <3> QED BY <2>1, <3>1, <3>2 DEF ConfigInv
  <2>3. Len(unitIdSet') \in Nat
    BY <2>2, LenProperties
  <2> QED BY <2>1, <2>2, <2>3 DEF MasterInv
<1>3. ASSUME ExtractMasters \/ Validate
      PROVE  MasterInv'
  BY <1>3 DEF ExtractMasters, Validate, MasterInv
<1>4. ASSUME \/ MakeRouter \/ EnterRange \/ SetRoute
             \/ LeaveRange \/ LeaveMaster \/ RouterMade \/ UNCHANGED vars
      PROVE  MasterInv'
  <2>1. UNCHANGED <<masters, unitIdSet>>
    BY <1>4 DEF MakeRouter, EnterRange, SetRoute, LeaveRange, LeaveMaster, RouterMade, vars
  <2>2. \/ UNCHANGED stage
        \/ /\ stage \in {"router", "routes", "serving"}
           /\ stage' \in {"router", "routes", "serving"}
    BY <1>4 DEF MakeRouter, EnterRange, SetRoute, LeaveRange, LeaveMaster, RouterMade,
                vars, AtRange, AtMaster
  <2> QED BY <2>1, <2>2 DEF MasterInv
<1> QED BY <1>1, <1>2, <1>3, <1>4 DEF Next, Startup
-----------------------------------------------------------------------------
(***************************************************************************)
(* The loops of MakeRouter.                                                *)
(***************************************************************************)
Stages == {"extract", "validate", "masters", "router", "routes", "serving", "refused"}

LoopInv ==
  /\ stage \in Stages
  /\ routeMap \in [Table -> Ids]
  /\ master \in 1..(Len(masters) + 1)
  /\ range \in Nat \ {0}
  /\ unitId \in Units
  /\ stage \in {"extract", "validate", "masters", "router", "refused"} =>
       master = 1 /\ range = 1 /\ routeMap = [u \in Table |-> DefaultId]
  /\ stage = "serving" => master = Len(masters) + 1

FlagInv ==
  /\ inRange \in BOOLEAN
  /\ inRange => AtRange

Inv == ConfigInv /\ MasterInv /\ LoopInv /\ FlagInv

(* What the steps of the loops may use.                                    *)
LEMMA InvFacts ==
  ASSUME Inv
  PROVE  /\ unitIdSet \in Seq(Seq(Accepted)) /\ Len(unitIdSet) \in Nat
         /\ Len(unitIdSet) <= MaxMasters
         /\ Len(masters) \in Nat
         /\ \A k \in 1..Len(masters) : masters[k] \in 1..Len(unitIdSet)
         /\ stage \in {"router", "routes", "serving"} => masters[1] \in 1..Len(unitIdSet) /\ Len(masters) >= 1
         /\ \A i \in 1..Len(unitIdSet) : unitIdSet[i] \in Seq(Accepted)
<1>1. /\ unitIdSet \in Seq(Seq(Accepted)) /\ masters \in Seq(1..Len(unitIdSet))
      /\ Len(unitIdSet) <= MaxMasters
  BY DEF Inv, ConfigInv, MasterInv
<1>2. Len(unitIdSet) \in Nat /\ Len(masters) \in Nat
      /\ \A k \in 1..Len(masters) : masters[k] \in 1..Len(unitIdSet)
  BY <1>1, LenProperties, ElementOfSeq
<1>3. \A i \in 1..Len(unitIdSet) : unitIdSet[i] \in Seq(Accepted)
  BY <1>1, ElementOfSeq
<1>4. ASSUME stage \in {"router", "routes", "serving"}
      PROVE  Len(masters) >= 1
  <2>1. Len(masters) = Len(given) /\ given # <<>> /\ given \in Seq(GivenSets)
    BY <1>4 DEF Inv, ConfigInv, MasterInv
  <2>2. Len(given) # 0
    BY <2>1
  <2> QED BY <1>2, <2>1, <2>2
<1> QED BY <1>1, <1>2, <1>3, <1>4

(* The range that the loop is at.                                          *)
LEMMA RangeFacts ==
  ASSUME Inv, AtRange
  PROVE  /\ master \in 1..Len(masters) /\ masters[master] \in 1..Len(unitIdSet)
         /\ Ranges \in Seq(Accepted) /\ range \in 1..Len(Ranges)
         /\ Ranges[range] \in Accepted
<1>1. master \in 1..Len(masters) /\ range >= 1 /\ range \in Nat /\ range <= Len(Ranges)
  BY InvFacts DEF Inv, LoopInv, AtRange, AtMaster
<1>2. masters[master] \in 1..Len(unitIdSet)
  BY <1>1, InvFacts
<1>3. Ranges \in Seq(Accepted)
  BY <1>2, InvFacts DEF Ranges
<1>4. range \in 1..Len(Ranges)
  BY <1>1, <1>3, LenProperties
<1> QED BY <1>1, <1>2, <1>3, <1>4, ElementOfSeq

LEMMA InvStart == Init => Inv
<1> SUFFICES ASSUME Init PROVE Inv
  OBVIOUS
<1>1. LoopInv
  <2>1. Len(masters) = 0 /\ routeMap \in [Table -> Ids] /\ unitId \in Units
    BY DEF Init
  <2> QED BY <2>1 DEF Init, LoopInv, Stages
<1>2. FlagInv
  <2>1. inRange = FALSE
    BY DEF Init
  <2> QED BY <2>1, Zenon DEF FlagInv
<1> QED BY <1>1, <1>2, ConfigStart, MastersStart DEF Inv

(* What each step does to the loop, besides the flag.                      *)
LEMMA LoopStep ==
  ASSUME Inv, [Next]_vars
  PROVE  LoopInv'
<1>1. ConfigInv' /\ MasterInv'
  BY ConfigStep, MastersStep DEF Inv
<1>2. LoopInv
  BY DEF Inv
<1>3. ASSUME NEW s \in GivenSets, ExtractMaster(s)
      PROVE  LoopInv'
  <2>1. /\ stage = "extract" /\ stage' \in {"extract", "refused"}
        /\ UNCHANGED <<masters, routeMap, master, range, unitId>>
    BY <1>3 DEF ExtractMaster, loop
  <2> QED BY <1>2, <2>1 DEF LoopInv, Stages
<1>4. ASSUME ExtractMasters \/ Validate
      PROVE  LoopInv'
  <2>1. /\ stage \in {"extract", "validate"} /\ stage' \in {"validate", "refused", "masters"}
        /\ UNCHANGED <<masters, routeMap, master, range, unitId>>
    BY <1>4 DEF ExtractMasters, Validate, loop
  <2> QED BY <1>2, <2>1 DEF LoopInv, Stages
<1>5. CASE MakeMasters
  <2>1. /\ stage = "masters" /\ stage' \in {"masters", "router"}
        /\ UNCHANGED <<routeMap, master, range, unitId>>
    BY <1>5 DEF MakeMasters, loop
  <2>2. Len(masters') \in Nat
    BY <1>1, LenProperties DEF MasterInv
  <2> QED BY <1>2, <2>1, <2>2 DEF LoopInv, Stages
<1>6. CASE MakeRouter
  <2>1. /\ stage = "router" /\ stage' = "routes" /\ UNCHANGED <<masters, range, unitId>>
    BY <1>6 DEF MakeRouter
  <2>2. Len(masters) \in Nat /\ Len(masters) >= 1 /\ masters[1] \in Ids
    BY <2>1, InvFacts
  <2>3. \/ UNCHANGED <<routeMap, master>>
        \/ routeMap' = [u \in Table |-> Head(masters)] /\ master' = 2
    BY <1>6 DEF MakeRouter
  <2>4. Head(masters) = masters[1]
    OBVIOUS
  <2>5. routeMap' \in [Table -> Ids] /\ master' \in 1..(Len(masters) + 1)
    BY <1>2, <2>2, <2>3, <2>4 DEF LoopInv
  <2> QED BY <1>2, <2>1, <2>5 DEF LoopInv, Stages
<1>7. CASE EnterRange
  <2>1. /\ AtRange /\ stage = "routes" /\ unitId' = Ranges[range].begin
        /\ UNCHANGED <<stage, masters, routeMap, master, range>>
    BY <1>7 DEF EnterRange, AtRange, AtMaster
  <2>2. unitId' \in Units
    BY <2>1, RangeFacts DEF Accepted, UnitRanges
  <2> QED BY <1>2, <2>1, <2>2 DEF LoopInv, Stages
<1>8. CASE SetRoute
  <2>1. /\ AtRange /\ stage = "routes" /\ unitId' = (unitId + 1) % UnitMod
        /\ routeMap' = [u \in Table |-> IF u = unitId THEN masters[master] ELSE routeMap[u]]
        /\ UNCHANGED <<stage, masters, master, range>>
    BY <1>8 DEF SetRoute, AtRange, AtMaster
  <2>2. unitId' \in Units
    <3>1. unitId \in Nat /\ UnitMod \in Nat \ {0}
      BY <1>2 DEF LoopInv
    <3>2. (unitId + 1) % UnitMod \in 0..(UnitMod - 1)
      BY <3>1
    <3> QED BY <2>1, <3>2
  <2>3. masters[master] \in Ids
    BY <2>1, RangeFacts, InvFacts, SMTT(40)
  <2>4. routeMap' \in [Table -> Ids]
    BY <1>2, <2>1, <2>3 DEF LoopInv
  <2> QED BY <1>2, <2>1, <2>2, <2>4 DEF LoopInv, Stages
<1>9. CASE LeaveRange
  <2>1. /\ stage = "routes" /\ range' = range + 1 /\ unitId' = 0
        /\ UNCHANGED <<stage, masters, routeMap, master>>
    BY <1>9 DEF LeaveRange, AtRange, AtMaster
  <2> QED BY <1>2, <2>1 DEF LoopInv, Stages
<1>10. CASE LeaveMaster
  <2>1. /\ stage = "routes" /\ master <= Len(masters) /\ master' = master + 1 /\ range' = 1
        /\ UNCHANGED <<stage, masters, routeMap, unitId>>
    BY <1>10 DEF LeaveMaster, AtMaster
  <2> QED BY <1>2, <2>1, InvFacts DEF LoopInv, Stages
<1>11. CASE RouterMade
  <2>1. /\ stage = "routes" /\ master > Len(masters) /\ stage' = "serving"
        /\ UNCHANGED <<masters, routeMap, master, range, unitId>>
    BY <1>11 DEF RouterMade, loop
  <2>2. master = Len(masters) + 1
    BY <1>2, <2>1, InvFacts DEF LoopInv
  <2> QED BY <1>2, <2>1, <2>2 DEF LoopInv, Stages
<1>12. CASE UNCHANGED vars
  <2>1. UNCHANGED <<stage, masters, routeMap, master, range, unitId>>
    BY <1>12 DEF vars
  <2> QED BY <1>2, <2>1 DEF LoopInv
<1> QED BY <1>3, <1>4, <1>5, <1>6, <1>7, <1>8, <1>9, <1>10, <1>11, <1>12 DEF Next, Startup

(* The loop over a range is entered only at a range, and left only with it. *)
LEMMA FlagStep ==
  ASSUME Inv, [Next]_vars
  PROVE  FlagInv'
<1>1. FlagInv
  BY DEF Inv
<1>2. CASE EnterRange
  <2>1. AtRange /\ UNCHANGED <<stage, unitIdSet, masters, master, range>>
    BY <1>2 DEF EnterRange
  <2>2. AtRange'
    BY <2>1 DEF AtRange, AtMaster, Ranges
  <2>3. inRange' = TRUE
    BY <1>2 DEF EnterRange
  <2> QED BY <2>2, <2>3, Zenon DEF FlagInv
<1>3. CASE SetRoute
  <2>1. AtRange /\ UNCHANGED <<stage, unitIdSet, masters, master, range>>
    BY <1>3 DEF SetRoute
  <2>2. AtRange'
    BY <2>1 DEF AtRange, AtMaster, Ranges
  <2>3. inRange' = inRange
    BY <1>3 DEF SetRoute
  <2> QED BY <1>1, <2>2, <2>3, Zenon DEF FlagInv
<1>4. CASE UNCHANGED vars
  <2>1. AtRange' <=> AtRange
    BY <1>4 DEF vars, AtRange, AtMaster, Ranges
  <2>2. inRange' = inRange
    BY <1>4 DEF vars
  <2> QED BY <1>1, <2>1, <2>2, Zenon DEF FlagInv
<1>5. CASE LeaveRange
  <2>1. inRange' = FALSE
    BY <1>5 DEF LeaveRange
  <2> QED BY <2>1, Zenon DEF FlagInv
<1>6. ASSUME ~AtRange, UNCHANGED inRange
      PROVE  FlagInv'
  BY <1>1, <1>6, Zenon DEF FlagInv
<1>7. CASE LeaveMaster
  <2>1. master \in 1..Len(masters)
    BY <1>7, InvFacts DEF LeaveMaster, AtMaster, Inv, LoopInv
  <2>2. Len(Ranges) \in Nat
    BY <2>1, InvFacts, LenProperties DEF Ranges
  <2>3. range > Len(Ranges) /\ range \in Nat
    BY <1>7 DEF LeaveMaster, Inv, LoopInv
  <2>4. ~AtRange
    BY <2>2, <2>3 DEF AtRange
  <2> QED BY <1>6, <1>7, <2>4 DEF LeaveMaster
<1>8. CASE RouterMade
  <2>1. ~AtRange
    BY <1>8, InvFacts DEF RouterMade, AtRange, AtMaster, Inv, LoopInv
  <2> QED BY <1>6, <1>8, <2>1 DEF RouterMade, loop
<1>9. ASSUME stage # "routes", UNCHANGED inRange
      PROVE  FlagInv'
  BY <1>6, <1>9 DEF AtRange, AtMaster
<1>10. ASSUME NEW s \in GivenSets, ExtractMaster(s)
       PROVE  FlagInv'
  BY <1>9, <1>10 DEF ExtractMaster, loop
<1>11. ASSUME ExtractMasters \/ Validate \/ MakeMasters \/ MakeRouter
       PROVE  FlagInv'
  BY <1>9, <1>11 DEF ExtractMasters, Validate, MakeMasters, MakeRouter, loop
<1> QED BY <1>2, <1>3, <1>4, <1>5, <1>7, <1>8, <1>10, <1>11 DEF Next, Startup

LEMMA InvStep ==
  ASSUME Inv, [Next]_vars
  PROVE  Inv'
BY ConfigStep, MastersStep, LoopStep, FlagStep DEF Inv

LEMMA InvAlways == Spec => []Inv
<1> QED BY InvStart, InvStep, PTL DEF Spec

(* What start-up keeps of the configuration has the types of the members   *)
(* it fills, whatever the file says: theorem of TypeOK.                    *)
THEOREM TypeCorrect == Spec => []TypeOK
<1>1. Inv => TypeOK
  <2> SUFFICES ASSUME Inv PROVE TypeOK
    OBVIOUS
  <2>1. Accepted \subseteq UnitRanges
    BY DEF Accepted
  <2>2. unitIdSet \in Seq(Seq([begin : Units, end : Units]))
    <3>1. \A q \in Seq(Accepted) : q \in Seq(UnitRanges)
      BY <2>1, SeqMonotonic
    <3>2. Seq(Accepted) \subseteq Seq(UnitRanges)
      BY <3>1
    <3>3. unitIdSet \in Seq(Seq(Accepted))
      BY DEF Inv, ConfigInv
    <3>4. unitIdSet \in Seq(Seq(UnitRanges))
      BY <3>2, <3>3, SeqMonotonic
    <3> QED BY <3>4 DEF UnitRanges
  <2>3. /\ stage \in Stages /\ given \in Seq(GivenSets) /\ masters \in Seq(1..Len(unitIdSet))
        /\ routeMap \in [Table -> Ids] /\ master \in 1..(Len(masters) + 1) /\ range \in Nat
        /\ unitId \in Units
    BY DEF Inv, ConfigInv, MasterInv, LoopInv
  <2>4. inRange \in BOOLEAN
    BY Zenon DEF Inv, FlagInv
  <2> QED BY <2>2, <2>3, <2>4, Zenon DEF TypeOK, Stages
<1> QED BY <1>1, InvAlways, PTL

(* What MakeRouter assumes of the list that MakeMasters returns, in its    *)
(* comment at modbus_gateway.cpp:104: only the first may have no unit ids.  *)
THEOREM DefaultMasterFirst == Spec => []DefaultIsFirst
<1>1. Inv => DefaultIsFirst
  BY DEF Inv, MasterInv, DefaultIsFirst
<1> QED BY <1>1, InvAlways, PTL
-----------------------------------------------------------------------------
(***************************************************************************)
(* The table.  The limit of the library is below the greatest unit id, so  *)
(* that the counter of the loop does not wrap.                             *)
(***************************************************************************)
NoWrap == UnitIdMax < UnitMod - 1

(* The j-th master has claimed u so far.                                   *)
Routed(j, u) ==
  \/ j < master /\ Covers(masters[j], u)
  \/ /\ j = master
     /\ \E k \in 1..Len(Ranges) :
          \/ k < range /\ Within(Ranges[k], u)
          \/ k = range /\ inRange /\ Ranges[k].begin <= u /\ u < unitId

CountInv ==
  inRange => Ranges[range].begin <= unitId /\ unitId <= Ranges[range].end + 1

(* An entry is that of the last master to claim it, or the default.        *)
RouteInv ==
  stage \in {"routes", "serving"} =>
    \A u \in Table :
      \/ \E j \in 1..Len(masters) :
           /\ routeMap[u] = masters[j]
           /\ Routed(j, u)
           /\ \A i \in 1..Len(masters) : i > j => ~Routed(i, u)
      \/ /\ \A j \in 1..Len(masters) : ~Routed(j, u)
         /\ routeMap[u] = IF unitIdSet[masters[1]] = <<>> THEN masters[1] ELSE DefaultId

LEMMA CountStart == Init => CountInv
BY Zenon DEF Init, CountInv

LEMMA CountStep ==
  ASSUME NoWrap, Inv, CountInv, [Next]_vars
  PROVE  CountInv'
<1>1. CASE EnterRange
  <2>1. AtRange /\ unitId' = Ranges[range].begin /\ UNCHANGED <<unitIdSet, masters, master, range>>
    BY <1>1 DEF EnterRange
  <2>2. Ranges[range] \in Accepted /\ Ranges' = Ranges /\ range' = range
    BY <2>1, RangeFacts DEF Ranges
  <2>3. Ranges[range].begin <= unitId' /\ unitId' <= Ranges[range].end + 1
    BY <2>1, <2>2 DEF Accepted, UnitRanges
  <2> QED BY <2>2, <2>3 DEF CountInv
<1>2. CASE SetRoute
  <2>1. /\ AtRange /\ inRange /\ unitId <= Ranges[range].end
        /\ unitId' = (unitId + 1) % UnitMod /\ UNCHANGED <<unitIdSet, masters, master, range>>
    BY <1>2 DEF SetRoute
  <2>2. Ranges[range] \in Accepted /\ Ranges' = Ranges /\ range' = range /\ unitId \in Units
    BY <2>1, RangeFacts DEF Ranges, Inv, LoopInv
  <2>3. Ranges[range].begin <= unitId
    BY <2>1 DEF CountInv
  <2>4. unitId' = unitId + 1
    BY <2>1, <2>2 DEF Accepted, UnitRanges, NoWrap
  <2>5. Ranges[range].begin <= unitId' /\ unitId' <= Ranges[range].end + 1
    BY <2>1, <2>2, <2>3, <2>4 DEF Accepted, UnitRanges
  <2> QED BY <2>2, <2>5 DEF CountInv
<1>3. CASE LeaveRange
  BY <1>3, Zenon DEF LeaveRange, CountInv
<1>4. ASSUME UNCHANGED <<unitIdSet, masters, master, range, inRange, unitId>>
      PROVE  CountInv'
  BY <1>4 DEF CountInv, Ranges
<1>5. ASSUME ~AtRange, UNCHANGED inRange
      PROVE  CountInv'
  <2>1. ~inRange
    BY <1>5, Zenon DEF Inv, FlagInv
  <2> QED BY <1>5, <2>1, Zenon DEF CountInv
<1>6. ASSUME stage # "routes", UNCHANGED inRange
      PROVE  CountInv'
  BY <1>5, <1>6 DEF AtRange, AtMaster
<1>7. CASE LeaveMaster
  <2>1. master \in 1..Len(masters)
    BY <1>7, InvFacts DEF LeaveMaster, AtMaster, Inv, LoopInv
  <2>2. Len(Ranges) \in Nat
    BY <2>1, InvFacts, LenProperties DEF Ranges
  <2>3. range > Len(Ranges) /\ range \in Nat
    BY <1>7 DEF LeaveMaster, Inv, LoopInv
  <2> QED BY <1>5, <1>7, <2>2, <2>3 DEF LeaveMaster, AtRange
<1>8. CASE RouterMade \/ UNCHANGED vars
  BY <1>4, <1>8 DEF RouterMade, vars, loop
<1>9. ASSUME NEW s \in GivenSets, ExtractMaster(s)
      PROVE  CountInv'
  BY <1>6, <1>9 DEF ExtractMaster, loop
<1>10. ASSUME ExtractMasters \/ Validate \/ MakeMasters \/ MakeRouter
       PROVE  CountInv'
  BY <1>6, <1>10 DEF ExtractMasters, Validate, MakeMasters, MakeRouter, loop
<1> QED BY <1>1, <1>2, <1>3, <1>7, <1>8, <1>9, <1>10 DEF Next, Startup

(* With unit ids below the greatest, MakeRouter writes no entry that the   *)
(* table has not: theorem of SetInBounds.                                  *)
THEOREM WritesInBounds == NoWrap => (Spec => []SetInBounds)
<1> SUFFICES ASSUME NoWrap
             PROVE  Spec => []SetInBounds
  OBVIOUS
<1>1. Inv /\ CountInv => SetInBounds
  <2> SUFFICES ASSUME Inv, AtRange, inRange, unitId <= Ranges[range].end
               PROVE  unitId \in Table
    BY DEF SetInBounds
  <2>1. Ranges[range] \in Accepted /\ unitId \in Units
    BY RangeFacts DEF Inv, LoopInv
  <2> QED BY <2>1 DEF Accepted, UnitRanges, NoWrap
<1>2. Inv /\ CountInv /\ [Next]_vars => CountInv'
  BY CountStep
<1> QED BY <1>1, <1>2, CountStart, InvAlways, PTL DEF Spec

(* One step of the loops.  The table, and what a master has claimed of it, *)
(* change together.                                                        *)
LEMMA RouteStep ==
  ASSUME NoWrap, Inv, CountInv, RouteInv, [Next]_vars
  PROVE  RouteInv'
<1> DEFINE First == IF unitIdSet[masters[1]] = <<>> THEN masters[1] ELSE DefaultId
<1>1. ASSUME stage' \in {"routes", "serving"}, stage \in {"routes", "serving"},
             UNCHANGED <<unitIdSet, masters, routeMap>>,
             \A j \in 1..Len(masters) : \A u \in Table : Routed(j, u)' <=> Routed(j, u)
      PROVE  RouteInv'
  <2> SUFFICES ASSUME NEW u \in Table
               PROVE  \/ \E j \in 1..Len(masters) :
                           /\ routeMap[u] = masters[j]
                           /\ Routed(j, u)'
                           /\ \A i \in 1..Len(masters) : i > j => ~Routed(i, u)'
                      \/ /\ \A j \in 1..Len(masters) : ~Routed(j, u)'
                         /\ routeMap[u] = First
    BY <1>1 DEF RouteInv
  <2>1. \/ \E j \in 1..Len(masters) :
             /\ routeMap[u] = masters[j]
             /\ Routed(j, u)
             /\ \A i \in 1..Len(masters) : i > j => ~Routed(i, u)
        \/ /\ \A j \in 1..Len(masters) : ~Routed(j, u)
           /\ routeMap[u] = First
    BY <1>1 DEF RouteInv
  <2> HIDE DEF First
  <2> QED BY <1>1, <2>1
<1>2. CASE stage' \notin {"routes", "serving"}
  BY <1>2 DEF RouteInv
<1> HIDE DEF First
<1>3. CASE MakeRouter
  <2>1. /\ stage = "router" /\ stage' = "routes" /\ master = 1 /\ range = 1
        /\ UNCHANGED <<unitIdSet, masters, range>> /\ inRange' = inRange
        /\ routeMap = [u \in Table |-> DefaultId]
    BY <1>3 DEF MakeRouter, Inv, LoopInv
  <2>2. ~inRange'
    <3>1. ~inRange
      BY <2>1, Zenon DEF Inv, FlagInv, AtRange, AtMaster
    <3> QED BY <2>1, <3>1, Zenon
  <2>3. Len(masters) \in Nat /\ Len(masters) >= 1 /\ Head(masters) = masters[1]
    BY <2>1, InvFacts
  <2>4. CASE unitIdSet[masters[1]] = <<>>
    <3>1. master' = 2 /\ routeMap' = [u \in Table |-> masters[1]]
      BY <1>3, <2>3, <2>4 DEF MakeRouter
    <3>2. \A u : ~Covers(masters[1], u)'
      <4>1. Len(unitIdSet[masters[1]]) = 0
        BY <2>4
      <4> QED BY <2>1, <4>1 DEF Covers
    <3>3. \A j \in 1..Len(masters) : \A u \in Table : ~Routed(j, u)'
      <4>1. ASSUME NEW j \in 1..Len(masters), NEW u \in Table, Routed(j, u)'
            PROVE  FALSE
        <5>1. j = 1 \/ j > 1
          BY <2>3
        <5>2. CASE j < 2 /\ Covers(masters[j], u)'
          BY <2>1, <2>3, <3>2, <5>1, <5>2
        <5>3. CASE \E k \in 1..Len(Ranges') : k < 1
          BY <5>3
        <5> QED BY <2>1, <2>2, <3>1, <4>1, <5>2, <5>3 DEF Routed
      <4> QED BY <4>1
    <3>4. \A u \in Table : routeMap'[u] = First'
      BY <2>1, <2>4, <3>1 DEF First
    <3> QED BY <2>1, <3>3, <3>4 DEF RouteInv, First
  <2>5. CASE unitIdSet[masters[1]] # <<>>
    <3>1. UNCHANGED <<master, routeMap>>
      BY <1>3, <2>3, <2>5 DEF MakeRouter
    <3>2. \A j \in 1..Len(masters) : \A u \in Table : ~Routed(j, u)'
      <4>1. ASSUME NEW j \in 1..Len(masters), NEW u \in Table, Routed(j, u)'
            PROVE  FALSE
        <5>1. CASE j < 1
          BY <2>3, <5>1
        <5>2. CASE \E k \in 1..Len(Ranges') : k < 1
          BY <5>2
        <5> QED BY <2>1, <2>2, <3>1, <4>1, <5>1, <5>2 DEF Routed
      <4> QED BY <4>1
    <3>3. \A u \in Table : routeMap'[u] = First'
      BY <2>1, <2>5, <3>1 DEF First
    <3> QED BY <2>1, <3>2, <3>3 DEF RouteInv, First
  <2> QED BY <2>4, <2>5
<1>4. CASE EnterRange
  <2>1. /\ AtRange /\ stage = "routes" /\ ~inRange /\ unitId' = Ranges[range].begin
        /\ UNCHANGED <<stage, unitIdSet, masters, routeMap, master, range>>
    BY <1>4 DEF EnterRange, AtRange, AtMaster
  <2>2. Ranges' = Ranges /\ Ranges[range].begin \in Int
    BY <2>1, RangeFacts DEF Ranges, Accepted, UnitRanges
  <2>3. ASSUME NEW j \in 1..Len(masters), NEW u \in Table
        PROVE  Routed(j, u)' <=> Routed(j, u)
    <3>1. ~(unitId' <= u /\ u < unitId')
      BY <2>1, <2>2
    <3>2. Covers(masters[j], u)' <=> Covers(masters[j], u)
      BY <2>1 DEF Covers
    <3> QED BY <2>1, <2>2, <3>1, <3>2 DEF Routed
  <2> QED BY <1>1, <2>1, <2>3
<1>5. CASE SetRoute
  <2>1. /\ AtRange /\ stage = "routes" /\ inRange /\ unitId <= Ranges[range].end
        /\ routeMap' = [u \in Table |-> IF u = unitId THEN masters[master] ELSE routeMap[u]]
        /\ unitId' = (unitId + 1) % UnitMod
        /\ UNCHANGED <<stage, unitIdSet, masters, master, range>> /\ inRange' = inRange
    BY <1>5 DEF SetRoute, AtRange, AtMaster
  <2>2. /\ Ranges' = Ranges /\ Ranges[range] \in Accepted /\ unitId \in Units
        /\ master \in 1..Len(masters) /\ range \in 1..Len(Ranges) /\ Len(masters) \in Nat
    BY <2>1, RangeFacts, InvFacts DEF Ranges, Inv, LoopInv
  <2>3. unitId' = unitId + 1 /\ Ranges[range].begin <= unitId
    <3>1. Ranges[range].begin <= unitId
      BY <2>1 DEF CountInv
    <3>2. unitId' = unitId + 1
      <4>1. unitId' = (unitId + 1) % UnitMod /\ unitId <= Ranges[range].end
        BY <2>1
      <4>2. Ranges[range] \in Accepted /\ unitId \in Units
        BY <2>2
      <4> QED BY <4>1, <4>2 DEF Accepted, UnitRanges, NoWrap
    <3> QED BY <3>1, <3>2
  <2>4. inRange'
    BY <2>1, Zenon
  <2>5. Ranges[range].begin \in Int /\ Ranges[range].end \in Int
    BY <2>2 DEF Accepted, UnitRanges
  <2>6. ASSUME NEW j \in 1..Len(masters), NEW u \in Table
        PROVE  Routed(j, u)' <=> Routed(j, u) \/ (j = master /\ u = unitId)
    <3>1. Covers(masters[j], u)' <=> Covers(masters[j], u)
      BY <2>1 DEF Covers
    <3>2. u < unitId' <=> u < unitId \/ u = unitId
      BY <2>2, <2>3
    <3>3. ASSUME NEW k \in 1..Len(Ranges)
          PROVE  (k = range /\ Ranges[k].begin <= u /\ u < unitId')
                 <=> \/ k = range /\ Ranges[k].begin <= u /\ u < unitId
                     \/ k = range /\ u = unitId
      BY <2>3, <3>2
    <3> QED BY <2>1, <2>2, <2>4, <3>1, <3>3 DEF Routed
  <2>7. ASSUME NEW i \in 1..Len(masters), NEW u, i > master
        PROVE  ~Routed(i, u)
    BY <2>2, <2>7 DEF Routed
  <2>8. ASSUME NEW u \in Table
        PROVE  \/ \E j \in 1..Len(masters) :
                    /\ routeMap'[u] = masters[j]
                    /\ Routed(j, u)'
                    /\ \A i \in 1..Len(masters) : i > j => ~Routed(i, u)'
               \/ /\ \A j \in 1..Len(masters) : ~Routed(j, u)'
                  /\ routeMap'[u] = First
    <3>1. CASE u = unitId
      <4>1. PICK j \in 1..Len(masters) : j = master
        BY <2>2
      <4>2. routeMap'[u] = masters[j] /\ Routed(j, u)'
        BY <2>1, <2>6, <3>1, <4>1
      <4>3. \A i \in 1..Len(masters) : i > j => ~Routed(i, u)'
        BY <2>2, <2>6, <2>7, <4>1
      <4> QED BY <4>2, <4>3
    <3>2. CASE u # unitId
      <4>1. routeMap'[u] = routeMap[u] /\ \A j \in 1..Len(masters) : Routed(j, u)' <=> Routed(j, u)
        BY <2>1, <2>6, <3>2
      <4>2. \/ \E j \in 1..Len(masters) :
                 /\ routeMap[u] = masters[j]
                 /\ Routed(j, u)
                 /\ \A i \in 1..Len(masters) : i > j => ~Routed(i, u)
            \/ /\ \A j \in 1..Len(masters) : ~Routed(j, u)
               /\ routeMap[u] = First
        BY <2>1 DEF RouteInv, First
      <4> QED BY <4>1, <4>2
    <3> QED BY <3>1, <3>2
  <2> QED BY <2>1, <2>8 DEF RouteInv, First
<1>6. CASE LeaveRange
  <2>1. /\ AtRange /\ stage = "routes" /\ inRange /\ unitId > Ranges[range].end
        /\ range' = range + 1
        /\ UNCHANGED <<stage, unitIdSet, masters, routeMap, master>> /\ inRange' = FALSE
    BY <1>6 DEF LeaveRange, AtRange, AtMaster
  <2>2. /\ Ranges' = Ranges /\ Ranges[range] \in Accepted /\ unitId \in Units
        /\ range \in 1..Len(Ranges) /\ range \in Nat /\ Len(Ranges) \in Nat
    BY <2>1, RangeFacts, LenProperties DEF Ranges, Inv, LoopInv
  <2>3. /\ Ranges[range].begin \in Int /\ Ranges[range].end \in Int
        /\ unitId = Ranges[range].end + 1
    BY <2>1, <2>2 DEF Accepted, UnitRanges, CountInv
  <2>4. ~inRange'
    BY <2>1, Zenon
  <2>5. ASSUME NEW j \in 1..Len(masters), NEW u \in Table
        PROVE  Routed(j, u)' <=> Routed(j, u)
    <3>1. Covers(masters[j], u)' <=> Covers(masters[j], u)
      BY <2>1 DEF Covers
    <3>2. u < unitId <=> u <= Ranges[range].end
      BY <2>3
    <3>3. ASSUME NEW k \in 1..Len(Ranges)
          PROVE  (k < range' /\ Within(Ranges[k], u))
                 <=> \/ k < range /\ Within(Ranges[k], u)
                     \/ k = range /\ Ranges[k].begin <= u /\ u < unitId
      BY <2>1, <2>2, <3>2 DEF Within
    <3> QED BY <2>1, <2>2, <2>4, <3>1, <3>3 DEF Routed, Within
  <2> QED BY <1>1, <2>1, <2>5
<1>7. CASE LeaveMaster
  <2>1. /\ stage = "routes" /\ master <= Len(masters) /\ range > Len(Ranges)
        /\ master' = master + 1 /\ range' = 1
        /\ UNCHANGED <<stage, unitIdSet, masters, routeMap>> /\ inRange' = inRange
    BY <1>7 DEF LeaveMaster, AtMaster
  <2>2. master \in 1..Len(masters) /\ Len(masters) \in Nat /\ range \in Nat
    BY <2>1, InvFacts DEF Inv, LoopInv
  <2>3. Len(Ranges) \in Nat
    BY <2>2, InvFacts, LenProperties DEF Ranges
  <2>4. ~inRange /\ ~inRange'
    <3>1. ~AtRange
      BY <2>1, <2>2, <2>3 DEF AtRange
    <3> QED BY <2>1, <3>1, Zenon DEF Inv, FlagInv
  <2>5. ASSUME NEW j \in 1..Len(masters), NEW u \in Table
        PROVE  Routed(j, u)' <=> Routed(j, u)
    <3>1. Covers(masters[j], u)' <=> Covers(masters[j], u)
      BY <2>1 DEF Covers
    <3>2. Routed(j, u)' <=> j < master + 1 /\ Covers(masters[j], u)
      <4>1. \A k \in 1..Len(Ranges') : ~(k < 1)
        OBVIOUS
      <4> QED BY <2>1, <2>4, <3>1, <4>1 DEF Routed
    <3>3. ASSUME j = master
          PROVE  Covers(masters[j], u) <=> \E k \in 1..Len(Ranges) : k < range /\ Within(Ranges[k], u)
      BY <2>1, <2>2, <2>3, <3>3, SMTT(40) DEF Covers, Ranges
    <3>4. Routed(j, u) <=> \/ j < master /\ Covers(masters[j], u)
                           \/ j = master /\ \E k \in 1..Len(Ranges) : k < range /\ Within(Ranges[k], u)
      BY <2>4 DEF Routed
    <3> QED BY <2>2, <3>2, <3>3, <3>4
  <2> QED BY <1>1, <2>1, <2>5
<1>8. CASE RouterMade
  <2>1. /\ stage = "routes" /\ stage' = "serving"
        /\ UNCHANGED <<unitIdSet, masters, routeMap, master, range, unitId>> /\ inRange' = inRange
    BY <1>8 DEF RouterMade, loop
  <2>2. ASSUME NEW j \in 1..Len(masters), NEW u \in Table
        PROVE  Routed(j, u)' <=> Routed(j, u)
    BY <2>1 DEF Routed, Covers, Ranges
  <2> QED BY <1>1, <2>1, <2>2
<1>9. CASE UNCHANGED vars
  <2>1. UNCHANGED <<stage, unitIdSet, masters, routeMap, master, range, unitId>> /\ inRange' = inRange
    BY <1>9 DEF vars
  <2>2. CASE stage \in {"routes", "serving"}
    <3>1. ASSUME NEW j \in 1..Len(masters), NEW u \in Table
          PROVE  Routed(j, u)' <=> Routed(j, u)
      BY <2>1 DEF Routed, Covers, Ranges
    <3> QED BY <1>1, <2>1, <2>2, <3>1
  <2> QED BY <1>2, <2>1, <2>2
<1>10. ASSUME \/ ExtractMasters \/ Validate \/ MakeMasters
              \/ \E s \in GivenSets : ExtractMaster(s)
       PROVE  RouteInv'
  <2>1. stage' \notin {"routes", "serving"}
    BY <1>10 DEF ExtractMasters, Validate, MakeMasters, ExtractMaster
  <2> QED BY <1>2, <2>1
<1> QED BY <1>3, <1>4, <1>5, <1>6, <1>7, <1>8, <1>9, <1>10 DEF Next, Startup

(* The table sends every unit id to the last master of the file that lists *)
(* it, and the others to the default: theorem of RouteAsConfigured.        *)
THEOREM RoutedAsConfigured == NoWrap => (Spec => []RouteAsConfigured)
<1> SUFFICES ASSUME NoWrap
             PROVE  Spec => []RouteAsConfigured
  OBVIOUS
<1>1. Init => RouteInv
  BY DEF Init, RouteInv
<1>2. Inv /\ RouteInv => RouteAsConfigured
  <2> SUFFICES ASSUME Inv, RouteInv, stage = "serving", NEW u \in Table
               PROVE  \/ /\ routeMap[u] # DefaultId
                         /\ Lists(routeMap[u], u)
                         /\ \A i \in (routeMap[u] + 1)..Len(given) : ~Lists(i, u)
                      \/ /\ \A i \in 1..Len(given) : ~Lists(i, u)
                         /\ IF \E i \in 1..Len(given) : given[i] = <<>>
                            THEN routeMap[u] # DefaultId /\ given[routeMap[u]] = <<>>
                            ELSE routeMap[u] = DefaultId
    BY DEF RouteAsConfigured
  <2> DEFINE n == Len(masters)
  <2>1. /\ n \in Nat /\ n >= 1 /\ n = Len(given) /\ n = Len(unitIdSet) /\ u \in Nat
        /\ \A k \in 1..n : masters[k] \in 1..n
        /\ \A m \in 1..n : \E k \in 1..n : masters[k] = m
        /\ \A k \in 2..n : unitIdSet[masters[k]] # <<>>
        /\ \A j, k \in 1..n : j < k /\ unitIdSet[masters[j]] # <<>> => masters[j] < masters[k]
        /\ master = n + 1
        /\ \A i \in 1..n : given[i] = <<>> <=> unitIdSet[i] = <<>>
        /\ \A i \in 1..n : Lists(i, u) <=> Covers(i, u)
    <3>1. n \in Nat /\ n >= 1 /\ u \in Nat
      BY InvFacts
    <3>2. /\ n = Len(unitIdSet)
          /\ \A k \in 1..n : masters[k] \in 1..n
          /\ \A m \in 1..n : \E k \in 1..n : masters[k] = m
          /\ \A k \in 2..n : unitIdSet[masters[k]] # <<>>
          /\ \A j, k \in 1..n : j < k /\ unitIdSet[masters[j]] # <<>> => masters[j] < masters[k]
      BY DEF Inv, MasterInv
    <3>3. master = n + 1
      BY DEF Inv, LoopInv
    <3>4. /\ n = Len(given)
          /\ \A i \in 1..n : given[i] = <<>> <=> unitIdSet[i] = <<>>
          /\ \A i \in 1..n : \A v \in Nat : Lists(i, v) <=> Covers(i, v)
      BY <3>2 DEF Inv, ConfigInv
    <3> QED BY <3>1, <3>2, <3>3, <3>4
  <2> HIDE DEF n
  <2>2. ASSUME NEW j \in 1..n
        PROVE  Routed(j, u) <=> Lists(masters[j], u)
    <3>1. j < master /\ j # master
      BY <2>1
    <3>2. Routed(j, u) <=> Covers(masters[j], u)
      BY <3>1 DEF Routed
    <3> QED BY <2>1, <3>2
  <2>3. \A i \in 1..n : Lists(i, u) => unitIdSet[i] # <<>>
    BY <2>1 DEF Lists
  <2>4. \/ \E j \in 1..n :
             /\ routeMap[u] = masters[j]
             /\ Routed(j, u)
             /\ \A i \in 1..n : i > j => ~Routed(i, u)
        \/ /\ \A j \in 1..n : ~Routed(j, u)
           /\ routeMap[u] = IF unitIdSet[masters[1]] = <<>> THEN masters[1] ELSE DefaultId
    BY DEF RouteInv, n
  <2>5. ASSUME NEW j \in 1..n, routeMap[u] = masters[j], Routed(j, u),
               \A i \in 1..n : i > j => ~Routed(i, u)
        PROVE  /\ routeMap[u] # DefaultId
               /\ Lists(routeMap[u], u)
               /\ \A i \in (routeMap[u] + 1)..n : ~Lists(i, u)
    <3>1. masters[j] \in 1..n /\ Lists(masters[j], u)
      BY <2>1, <2>2, <2>5
    <3>2. ASSUME NEW i \in (masters[j] + 1)..n, Lists(i, u)
          PROVE  FALSE
      <4>1. i \in 1..n /\ i > masters[j]
        <5>1. masters[j] \in Nat
          BY <3>1
        <5> QED BY <5>1
      <4>2. PICK k \in 1..n : masters[k] = i
        BY <2>1, <4>1
      <4>3. ~(k > j)
        BY <2>2, <2>5, <3>2, <4>2
      <4>4. unitIdSet[masters[k]] # <<>>
        BY <2>3, <3>2, <4>1, <4>2
      <4>5. k = j \/ k < j
        BY <4>3
      <4>6. CASE k = j
        BY <3>1, <4>1, <4>2, <4>6
      <4>7. CASE k < j
        <5>1. masters[k] < masters[j]
          BY <2>1, <4>4, <4>7
        <5> QED BY <3>1, <4>1, <4>2, <5>1
      <4> QED BY <4>5, <4>6, <4>7
    <3> QED BY <2>5, <3>1, <3>2
  <2>6. ASSUME \A j \in 1..n : ~Routed(j, u),
               routeMap[u] = IF unitIdSet[masters[1]] = <<>> THEN masters[1] ELSE DefaultId
        PROVE  /\ \A i \in 1..n : ~Lists(i, u)
               /\ IF \E i \in 1..n : given[i] = <<>>
                  THEN routeMap[u] # DefaultId /\ given[routeMap[u]] = <<>>
                  ELSE routeMap[u] = DefaultId
    <3>1. ASSUME NEW i \in 1..n
          PROVE  ~Lists(i, u)
      <4>1. PICK k \in 1..n : masters[k] = i
        BY <2>1
      <4> QED BY <2>2, <2>6, <4>1
    <3>2. 1 \in 1..n /\ masters[1] \in 1..n
      BY <2>1
    <3>3. CASE unitIdSet[masters[1]] = <<>>
      <4>1. given[masters[1]] = <<>>
        BY <2>1, <3>2, <3>3
      <4> QED BY <2>6, <3>1, <3>2, <3>3, <4>1
    <3>4. CASE unitIdSet[masters[1]] # <<>>
      <4>1. \A k \in 1..n : unitIdSet[masters[k]] # <<>>
        BY <2>1, <3>4
      <4>2. \A i \in 1..n : given[i] # <<>>
        BY <2>1, <4>1
      <4> QED BY <2>6, <3>1, <3>4, <4>2
    <3> QED BY <3>3, <3>4
  <2> QED BY <2>1, <2>4, <2>5, <2>6
<1>3. Inv /\ CountInv /\ [Next]_vars => CountInv'
  BY CountStep
<1>4. Inv /\ CountInv /\ RouteInv /\ [Next]_vars => RouteInv'
  BY RouteStep
<1> QED BY <1>1, <1>2, <1>3, <1>4, CountStart, InvAlways, PTL DEF Spec
=============================================================================
