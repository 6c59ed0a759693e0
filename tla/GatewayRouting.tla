--------------------------- MODULE GatewayRouting --------------------------
(***************************************************************************)
(* How the configuration of the masters becomes the routing table that     *)
(* every slave consults: the extraction of the unit id sets (config/), the *)
(* validation (config/config.cpp), MakeMasters and MakeRouter              *)
(* (modbus_gateway.cpp) and the table itself (transport/router.cpp).       *)
(*                                                                         *)
(* It runs once, in one thread, before the first request is read.  Unit    *)
(* ids keep their width: the loop over a range counts in a modbus::UnitId, *)
(* and the table has one entry less than there are unit ids.  An exception *)
(* anywhere ends the program and is the stage "refused".                   *)
(***************************************************************************)
EXTENDS Naturals, Sequences, SequencesExt

CONSTANTS
  UnitMod,      \* size of modbus::UnitId; 2^8 in the code
  UnitIdMin,    \* modbus::unitIdMin and
  UnitIdMax,    \* modbus::unitIdMax, of the modbus library
  MaxMasters,   \* masters in a configuration
  MaxRanges,    \* ranges in the unit_id of a master
  MaxTotal      \* ranges in a configuration

ASSUME RoutingAssumption ==
  /\ UnitMod \in Nat \ {0}
  /\ UnitIdMin \in 0..(UnitMod - 1)
  /\ UnitIdMax \in UnitIdMin..(UnitMod - 1)
  /\ MaxMasters \in Nat \ {0}
  /\ MaxRanges \in Nat \ {0}
  /\ MaxTotal \in Nat \ {0}

VARIABLES
  stage,       \* what the program does next
  given,       \* history: the unit_id of each master read, as in the file
  unitIdSet,   \* the same after extraction: the unitIdSet of each MasterConfig
  masters,     \* result of MakeMasters, each by its place in the file
  routeMap,    \* routeMap_ of the Router
  master,      \* MakeRouter: the master of masters it is at,
  range,       \*   the range of its unitIdSet,
  inRange,     \*   whether it is in the loop over that range,
  unitId       \*   and the counter of that loop

vars == <<stage, given, unitIdSet, masters, routeMap, master, range,
          inRange, unitId>>

loop == <<master, range, inRange, unitId>>

Units   == 0..(UnitMod - 1)
Table   == 0..(UnitMod - 2)       \* the indexes of routeMap_

(* Actor ids: MakeMasters adds the masters to an empty exchange, and the   *)
(* id of a master is represented by its place in the file.                 *)
DefaultId == 0
Ids       == 0..MaxMasters

(* A range as the file gives it; a number may be out of every range.       *)
Given == [begin : 0..UnitMod, end : 0..UnitMod]

(* A unit_id: absent, or an array of ranges. *)
GivenSets == {<<>>} \cup {<<s>> : s \in UNION {[1..n -> Given] : n \in 0..MaxRanges}}

TypeOK ==
  /\ stage \in {"extract", "validate", "masters", "router", "routes", "serving", "refused"}
  /\ given \in Seq(GivenSets)
  /\ unitIdSet \in Seq(Seq([begin : Units, end : Units]))
  /\ masters \in Seq(1..Len(unitIdSet))
  /\ routeMap \in [Table -> Ids]
  /\ master \in 1..(Len(masters) + 1)
  /\ range \in Nat
  /\ inRange \in BOOLEAN
  /\ unitId \in Units

Init ==
  /\ stage = "extract"
  /\ given = <<>>
  /\ unitIdSet = <<>>
  /\ masters = <<>>
  /\ routeMap = [u \in Table |-> DefaultId]
  /\ master = 1
  /\ range = 1
  /\ inRange = FALSE
  /\ unitId = 0
-----------------------------------------------------------------------------
(***************************************************************************)
(* Extraction.                                                             *)
(***************************************************************************)

(* Variant: only the width of the number is checked. *)
UnitIdAcceptedByWidth(n) == n \in Units

(* Variant: nothing is checked. *)
UnitIdAcceptedAlways(n) == TRUE

(* ExtractModbusUnitId does not throw. *)
UnitIdAccepted(n) == n \in UnitIdMin..UnitIdMax

(* Variant: the ends of a range are taken as they are. *)
NormalizeNothing(r) == r

Normalize(r) == IF r.begin > r.end THEN [begin |-> r.end, end |-> r.begin] ELSE r

(* ExtractUnitIdRangeSet does not throw on s: the array is not empty and   *)
(* both ends of each range are unit ids.                                   *)
SetAccepted(s) ==
  /\ s # <<>>
  /\ \A i \in 1..Len(s) : UnitIdAccepted(s[i].begin) /\ UnitIdAccepted(s[i].end)

(* One iteration of ExtractMasters.  The set is empty when unit_id is      *)
(* absent.                                                                 *)
ExtractMaster(s) ==
  /\ stage = "extract"
  /\ Len(given) < MaxMasters
  /\ Len(FlattenSeq(unitIdSet \o s)) <= MaxTotal
  /\ given' = Append(given, s)
  /\ \/ /\ s = <<>>
        /\ unitIdSet' = Append(unitIdSet, <<>>)
        /\ UNCHANGED stage
     \/ /\ s # <<>>
        /\ SetAccepted(s[1])
        /\ unitIdSet' = Append(unitIdSet, [i \in DOMAIN s[1] |-> Normalize(s[1][i])])
        /\ UNCHANGED stage
     \/ /\ s # <<>>
        /\ ~SetAccepted(s[1])
        /\ stage' = "refused"
        /\ UNCHANGED unitIdSet
  /\ UNCHANGED <<masters, routeMap, loop>>

(* The end of ExtractMasters; an empty array of masters is refused. *)
ExtractMasters ==
  /\ stage = "extract"
  /\ stage' = IF given = <<>> THEN "refused" ELSE "validate"
  /\ UNCHANGED <<given, unitIdSet, masters, routeMap, loop>>

(* Variant: nothing is validated. *)
ValidateNothing ==
  /\ stage = "validate"
  /\ stage' = "masters"
  /\ UNCHANGED <<given, unitIdSet, masters, routeMap, loop>>

(* Config::Validate: two masters without unit ids are refused. *)
Validate ==
  /\ stage = "validate"
  /\ stage' = IF \E i, j \in 1..Len(unitIdSet) : i # j /\ unitIdSet[i] = <<>> /\ unitIdSet[j] = <<>>
              THEN "refused" ELSE "masters"
  /\ UNCHANGED <<given, unitIdSet, masters, routeMap, loop>>
-----------------------------------------------------------------------------
(***************************************************************************)
(* MakeMasters and MakeRouter.                                             *)
(***************************************************************************)

(* Variant: a master without unit ids is not moved to the front. *)
PlacedLast(i) == Append(masters, i)

(* A master without unit ids is inserted at the front. *)
Placed(i) == IF unitIdSet[i] = <<>> THEN <<i>> \o masters ELSE Append(masters, i)

(* One iteration of MakeMasters, and its end. *)
MakeMasters ==
  /\ stage = "masters"
  /\ \/ /\ Len(masters) < Len(unitIdSet)
        /\ masters' = Placed(Len(masters) + 1)
        /\ UNCHANGED stage
     \/ /\ Len(masters) = Len(unitIdSet)
        /\ stage' = "router"
        /\ UNCHANGED masters
  /\ UNCHANGED <<given, unitIdSet, routeMap, loop>>

(* The first block of MakeRouter: the constructor of Router fills the      *)
(* table with the default master, or with defaultId.                       *)
MakeRouter ==
  /\ stage = "router"
  /\ stage' = "routes"
  /\ IF unitIdSet[Head(masters)] = <<>>
     THEN /\ routeMap' = [u \in Table |-> Head(masters)]
          /\ master' = 2
     ELSE UNCHANGED <<routeMap, master>>
  /\ UNCHANGED <<given, unitIdSet, masters, range, inRange, unitId>>

Ranges   == unitIdSet[masters[master]]
AtMaster == stage = "routes" /\ master <= Len(masters)
AtRange  == AtMaster /\ range <= Len(Ranges)

(* The loop over the unit ids of a range enters it; *)
EnterRange ==
  /\ AtRange
  /\ ~inRange
  /\ inRange' = TRUE
  /\ unitId' = Ranges[range].begin
  /\ UNCHANGED <<stage, given, unitIdSet, masters, routeMap, master, range>>

(* Router::Set for one unit id, and ++unitId, which wraps;                 *)
SetRoute ==
  /\ AtRange
  /\ inRange
  /\ unitId <= Ranges[range].end
  /\ routeMap' = [u \in Table |-> IF u = unitId THEN masters[master] ELSE routeMap[u]]
  /\ unitId' = (unitId + 1) % UnitMod
  /\ UNCHANGED <<stage, given, unitIdSet, masters, master, range, inRange>>

(* the range is done; *)
LeaveRange ==
  /\ AtRange
  /\ inRange
  /\ unitId > Ranges[range].end
  /\ range' = range + 1
  /\ inRange' = FALSE
  /\ unitId' = 0
  /\ UNCHANGED <<stage, given, unitIdSet, masters, routeMap, master>>

(* the master is done; *)
LeaveMaster ==
  /\ AtMaster
  /\ range > Len(Ranges)
  /\ master' = master + 1
  /\ range' = 1
  /\ UNCHANGED <<stage, given, unitIdSet, masters, routeMap, inRange, unitId>>

(* all are done, and the slaves start.                                     *)
RouterMade ==
  /\ stage = "routes"
  /\ master > Len(masters)
  /\ stage' = "serving"
  /\ UNCHANGED <<given, unitIdSet, masters, routeMap, loop>>
-----------------------------------------------------------------------------
Startup ==
  \/ ExtractMasters \/ Validate
  \/ MakeMasters \/ MakeRouter
  \/ EnterRange \/ SetRoute \/ LeaveRange \/ LeaveMaster \/ RouterMade

Next == Startup \/ \E s \in GivenSets : ExtractMaster(s)

Spec == Init /\ [][Next]_vars

(* The program runs on. *)
FairSpec == Spec /\ WF_vars(Next)
-----------------------------------------------------------------------------
(***************************************************************************)
(* Properties.                                                             *)
(***************************************************************************)

(* The first master is the one without unit ids, if there is one: what the *)
(* comment of MakeRouter says it knows of the result of MakeMasters.       *)
DefaultIsFirst ==
  stage \in {"router", "routes", "serving"} =>
    \A k \in 2..Len(masters) : unitIdSet[masters[k]] # <<>>

(* The table sends a unit id to the last master in the file that lists it, *)
(* whichever end of its range is written first; any other unit id to the   *)
(* master that lists none, or nowhere.                                     *)
Lists(i, u) ==
  /\ given[i] # <<>>
  /\ \E k \in 1..Len(given[i][1]) :
       LET r == given[i][1][k]
       IN  (r.begin <= u /\ u <= r.end) \/ (r.end <= u /\ u <= r.begin)

RouteAsConfigured ==
  stage = "serving" =>
    \A u \in Table :
      \/ /\ routeMap[u] # DefaultId
         /\ Lists(routeMap[u], u)
         /\ \A i \in (routeMap[u] + 1)..Len(given) : ~Lists(i, u)
      \/ /\ \A i \in 1..Len(given) : ~Lists(i, u)
         /\ IF \E i \in 1..Len(given) : given[i] = <<>>
            THEN routeMap[u] # DefaultId /\ given[routeMap[u]] = <<>>
            ELSE routeMap[u] = DefaultId

(* MakeRouter never writes beyond the table, which has no entry for the    *)
(* greatest unit id.                                                       *)
SetInBounds == AtRange /\ inRange /\ unitId <= Ranges[range].end => unitId \in Table

(* The gateway serves or says why not: the loop over a range ends.         *)
StartupEnds == <>(stage \in {"serving", "refused"})
=============================================================================
