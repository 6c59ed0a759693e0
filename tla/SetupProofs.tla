---------------------------- MODULE SetupProofs ----------------------------
(***************************************************************************)
(* Theorems about what is read and made before the first request: the      *)
(* configuration, for any numbers, arrays and ranges; the serial line of a *)
(* master, for any flags, delays and values; its queue, for any limit and  *)
(* any number of elements.                                                 *)
(***************************************************************************)
EXTENDS ConfigExtraction, TLAPS, SequenceTheorems

CONSTANTS Flags, Delays, MaxDelay, Values                       \* of SerialPortOptions
VARIABLES kind, options, rs485, was, device, line, lineSet, config, pc  \* of SerialPortOptions

Line == INSTANCE SerialPortOptions

CONSTANTS MaxSize, Pushes          \* of LimitQueue
VARIABLES queue, pushed, popped    \* of LimitQueue

Queue == INSTANCE LimitQueue
-----------------------------------------------------------------------------
(***************************************************************************)
(* The numbers of the configuration: extractor.h.                          *)
(***************************************************************************)
LEMMA WordRemainder ==
  ASSUME NEW x \in Int
  PROVE  /\ 0 <= x /\ x < WordMod => x % WordMod = x
         /\ -WordMod <= x /\ x < 0 => x % WordMod = x + WordMod
BY ExtractionAssumption DEF ExtractionAssumption

(* A number in a range is neither cut nor wrapped.                         *)
LEMMA UnsignedInRange ==
  ASSUME NEW h \in FileNumbers, NEW m \in Nat, 2 * m < WordMod, Unsigned(h) <= m
  PROVE  Unsigned(h) = h \div 2
<1> USE ExtractionAssumption DEF ExtractionAssumption
<1>1. CASE h \in Halves
  <2>1. h \in Nat /\ h \div 2 \in Nat /\ h \div 2 < WordMod
    BY <1>1
  <2> QED BY <2>1, WordRemainder DEF Unsigned
<1>2. ASSUME NEW n \in Negatives, h = -2 * n
      PROVE  Unsigned(h) = h \div 2
  <2>1. n \in Nat /\ h \div 2 = -n /\ 2 * n <= WordMod
    BY <1>2
  <2>2. CASE n = 0
    BY <2>1, <2>2, WordRemainder DEF Unsigned
  <2>3. CASE n # 0
    <3>1. -n \in Int /\ -WordMod <= -n /\ -n < 0
      BY <2>1, <2>3
    <3>2. Unsigned(h) = WordMod - n
      BY <2>1, <3>1, WordRemainder DEF Unsigned
    <3> QED BY <2>1, <3>2
  <2> QED BY <2>2, <2>3
<1> QED BY <1>1, <1>2 DEF FileNumbers

LEMMA AcceptedKept ==
  ASSUME NEW k, NEW h \in FileNumbers, NumberAccepted(k, h)
  PROVE  /\ k = "ip_port" => NumberValue(k, h) = h \div 2 /\ NumberValue(k, h) # 0
         /\ k \in {"begin", "end", "value"} =>
              NumberValue(k, h) = h \div 2 /\ NumberValue(k, h) \in UnitIdMin..UnitIdMax
<1> USE ExtractionAssumption DEF ExtractionAssumption
<1>1. CASE k = "ip_port"
  <2>1. Unsigned(h) \in 1..PortMax
    BY <1>1 DEF NumberAccepted
  <2>2. Unsigned(h) = h \div 2
    BY <2>1, UnsignedInRange
  <2>3. NumberValue(k, h) = Unsigned(h)
    <3>1. \A x \in 1..PortMax : x % (PortMax + 1) = x
      OBVIOUS
    <3> QED BY <1>1, <2>1, <3>1 DEF NumberValue
  <2> QED BY <1>1, <2>1, <2>2, <2>3
<1>2. CASE k \in {"begin", "end", "value"}
  <2>1. Unsigned(h) \in UnitIdMin..UnitIdMax
    BY <1>2 DEF NumberAccepted
  <2>2. Unsigned(h) = h \div 2
    BY <2>1, UnsignedInRange
  <2>3. NumberValue(k, h) = Unsigned(h)
    BY <1>2 DEF NumberValue
  <2> QED BY <1>2, <2>1, <2>2, <2>3
<1> QED BY <1>1, <1>2

LEMMA NumbersKept ==
  ASSUME RangedNumberKept, [Next]_vars
  PROVE  RangedNumberKept'
<1>1. ASSUME ReadNumber PROVE RangedNumberKept'
  <2>1. PICK h \in FileNumbers :
          \/ /\ NumberAccepted(It.key, h)
             /\ last' = [key |-> It.key, at |-> It.at, given |-> "number",
                         number |-> h, value |-> NumberValue(It.key, h)]
          \/ Saw("refused")
    BY <1>1 DEF ReadNumber
  <2>2. CASE Saw("refused")
    BY <2>2 DEF Saw, RangedNumberKept
  <2>3. CASE /\ NumberAccepted(It.key, h)
             /\ last' = [key |-> It.key, at |-> It.at, given |-> "number",
                         number |-> h, value |-> NumberValue(It.key, h)]
    <3>k. PICK k : k = It.key
      OBVIOUS
    <3>1. /\ last'.key = k /\ last'.number = h
          /\ last'.value = NumberValue(k, h) /\ NumberAccepted(k, h)
      BY <2>3, <3>k
    <3> QED BY <3>1, AcceptedKept DEF RangedNumberKept
  <2> QED BY <2>1, <2>2, <2>3
<1>2. ASSUME NEW g, Saw(g), g # "number" PROVE RangedNumberKept'
  BY <1>2 DEF Saw, RangedNumberKept
<1>3. CASE UNCHANGED last
  BY <1>3 DEF RangedNumberKept
<1>4. CASE ReadString
  <2>1. PICK g : Saw(g) /\ g \in {"tcp", "rtu", "unknown", "range", "value", "known"}
    BY <1>4 DEF ReadString, Strings
  <2> QED BY <1>2, <2>1
<1>5. CASE KeyAbsent \/ WrongType \/ ReadBoolean \/ ReadObject \/ ReadArray
  BY <1>2, <1>5 DEF KeyAbsent, WrongType, ReadBoolean, ReadObject, ReadArray
<1>6. CASE NextElement \/ TraceDeepMade \/ TraceDeepGone \/ UNCHANGED vars
  BY <1>3, <1>6 DEF NextElement, TraceDeepMade, TraceDeepGone, vars
<1> QED BY <1>1, <1>4, <1>5, <1>6 DEF Next

(* ExtractUnsignedNumber, ExtractIpPort, ExtractModbusUnitId: for every     *)
(* file, a port or a unit id that is accepted is the number the file has,  *)
(* its fraction cut off; no negative or too wide number is taken for one.  *)
THEOREM NumbersInRangeKept == Spec => []RangedNumberKept
<1>1. Init => RangedNumberKept
  BY DEF Init, Nothing, RangedNumberKept
<1> QED BY <1>1, NumbersKept, PTL DEF Spec
-----------------------------------------------------------------------------
(***************************************************************************)
(* The path of the configuration: trace_deep.cpp, extractor.cpp.           *)
(***************************************************************************)
(* Keys and places of a file; an index of an array is a key.               *)
Names ==
  {"service", "slaves", "masters", "log_level", "threads", "device", "baud_rate",
   "character_size", "parity", "stop_bits", "flow_control", "rs485", "rts_on_send",
   "rts_after_send", "rx_during_tx", "terminate_bus", "delay_rts_before_send",
   "delay_rts_after_send", "ip_address", "ip_port", "timeout_ms", "unit_id", "begin",
   "end", "value", "type", "frame_type"}
Types  == {"Object", "Array", "String", "Number", "Boolean"}
Keys   == {"config"} \cup Names \cup {ToString(i) : i \in Nat}
Places == Seq(Keys)

Reads == [key : Names, type : Types, need : BOOLEAN]
Items ==
  [do : {"read"}, key : Names, type : Types, need : BOOLEAN, at : Places]
  \cup [do : {"enter"}, key : Keys, at : Places]
  \cup [do : {"leave"}, at : Places \ {<<>>}]
  \cup [do : {"loop"}, index : Nat, at : Places]

(* The place of what comes after an item. *)
After(it) ==
  CASE it.do = "enter" -> Append(it.at, it.key)
    [] it.do = "leave" -> SubSeq(it.at, 1, Len(it.at) - 1)
    [] OTHER           -> it.at

(* The items of s lead from one place to another, each to the next.        *)
Leads(s, from, to) ==
  /\ s \in Seq(Items)
  /\ s = <<>> => from = to
  /\ s # <<>> => s[1].at = from /\ After(s[Len(s)]) = to
  /\ \A i \in 1..(Len(s) - 1) : After(s[i]) = s[i + 1].at

PathInv ==
  /\ tracePath \in Places
  /\ Leads(todo, tracePath, <<"config">>)
  /\ error.what \notin {"none", "out of range"} =>
       IsPrefix(Append(last.at, last.key), error.path)

LEMMA LeadsNext ==
  ASSUME NEW s, NEW from, NEW to, Leads(s, from, to), NEW i \in 1..(Len(s) - 1)
  PROVE  After(s[i]) = s[i + 1].at
BY DEF Leads

LEMMA LeadsOn ==
  ASSUME NEW s, NEW from, NEW to, Leads(s, from, to), s # <<>>
  PROVE  Leads(Tail(s), After(Head(s)), to)
<1>1. s \in Seq(Items) /\ Len(s) \in Nat /\ Len(s) >= 1 /\ Head(s) = s[1]
  BY LenProperties DEF Leads
<1>t. PICK t : t = Tail(s)
  OBVIOUS
<1>2. /\ t \in Seq(Items) /\ Len(t) = Len(s) - 1
      /\ \A i \in 1..Len(t) : t[i] = s[i + 1]
  BY <1>1, <1>t, HeadTailProperties
<1>3. t = <<>> => Len(s) = 1
  BY <1>1, <1>2
<1>4. t # <<>> => Len(t) >= 1
  BY <1>2
<1>5. t = <<>> => After(Head(s)) = to
  BY <1>1, <1>3 DEF Leads
<1>6. t # <<>> => t[1].at = After(Head(s)) /\ After(t[Len(t)]) = to
  BY <1>1, <1>2, <1>4 DEF Leads
<1>7. ASSUME NEW i \in 1..(Len(t) - 1)
      PROVE  After(t[i]) = t[i + 1].at
  <2>j. PICK j : j = i + 1
    OBVIOUS
  <2>0. i \in 1..Len(t) /\ j \in 1..Len(t) /\ j \in 1..(Len(s) - 1)
    BY <1>1, <1>2, <2>j
  <2>1. t[i] = s[j] /\ t[i + 1] = s[j + 1]
    BY <1>2, <2>0, <2>j
  <2>2. After(s[j]) = s[j + 1].at
    BY <2>0, LeadsNext
  <2> QED BY <2>1, <2>2
<1> QED BY <1>2, <1>5, <1>6, <1>7, <1>t DEF Leads

LEMMA LeadsThrough ==
  ASSUME NEW s, NEW t, NEW a, NEW b, NEW c, Leads(s, a, b), Leads(t, b, c)
  PROVE  Leads(s \o t, a, c)
<1>1. s \in Seq(Items) /\ t \in Seq(Items) /\ Len(s) \in Nat /\ Len(t) \in Nat
  BY LenProperties DEF Leads
<1>u. PICK u : u = s \o t
  OBVIOUS
<1>2. /\ u \in Seq(Items) /\ Len(u) = Len(s) + Len(t)
      /\ \A i \in 1..Len(u) : u[i] = IF i <= Len(s) THEN s[i] ELSE t[i - Len(s)]
  BY <1>1, <1>u, ConcatProperties
<1>3. CASE s = <<>>
  <2>1. u = t
    BY <1>1, <1>3, <1>u
  <2> QED BY <1>3, <1>u, <2>1 DEF Leads
<1>4. CASE t = <<>>
  <2>1. u = s
    BY <1>1, <1>4, <1>u
  <2> QED BY <1>4, <1>u, <2>1 DEF Leads
<1>5. CASE s # <<>> /\ t # <<>>
  <2>1. Len(s) >= 1 /\ Len(t) >= 1 /\ u # <<>>
    BY <1>1, <1>2, <1>5
  <2>2. s[1].at = a /\ After(s[Len(s)]) = b /\ t[1].at = b /\ After(t[Len(t)]) = c
    BY <1>5 DEF Leads
  <2>0. /\ \A i \in 1..Len(s) : u[i] = s[i]
        /\ \A j \in 1..Len(t) : u[Len(s) + j] = t[j]
    <3>1. \A i \in 1..Len(s) : i \in 1..Len(u) /\ i <= Len(s)
      BY <1>1, <1>2
    <3>2. \A j \in 1..Len(t) : /\ Len(s) + j \in 1..Len(u) /\ ~(Len(s) + j <= Len(s))
                              /\ (Len(s) + j) - Len(s) = j
      BY <1>1, <1>2
    <3> QED BY <1>2, <3>1, <3>2
  <2>3. u[1] = s[1] /\ u[Len(u)] = t[Len(t)]
    <3>1. 1 \in 1..Len(s) /\ Len(t) \in 1..Len(t) /\ Len(u) = Len(s) + Len(t)
      BY <1>1, <1>2, <2>1
    <3> QED BY <2>0, <3>1
  <2>4. ASSUME NEW i \in 1..(Len(u) - 1)
        PROVE  After(u[i]) = u[i + 1].at
    <3>1. CASE i < Len(s)
      <4>1. u[i] = s[i] /\ u[i + 1] = s[i + 1] /\ i \in 1..(Len(s) - 1)
        BY <1>1, <1>2, <3>1
      <4> QED BY <4>1 DEF Leads
    <3>2. CASE i = Len(s)
      <4>1. Len(s) \in 1..Len(s) /\ 1 \in 1..Len(t)
        BY <1>1, <2>1
      <4>2. u[i] = s[Len(s)] /\ u[i + 1] = t[1]
        BY <2>0, <3>2, <4>1
      <4> QED BY <2>2, <4>2
    <3>3. CASE i > Len(s)
      <4>j. PICK j : j = i - Len(s)
        OBVIOUS
      <4>1. /\ j \in 1..(Len(t) - 1) /\ j \in 1..Len(t) /\ j + 1 \in 1..Len(t)
            /\ i = Len(s) + j /\ i + 1 = Len(s) + (j + 1)
        <5>1. i \in Nat /\ i <= Len(s) + Len(t) - 1
          BY <1>1, <1>2
        <5> QED BY <1>1, <3>3, <4>j, <5>1
      <4>2. u[i] = t[j] /\ u[i + 1] = t[j + 1]
        BY <2>0, <4>1
      <4>3. After(t[j]) = t[j + 1].at
        BY <4>1, LeadsNext
      <4> QED BY <4>2, <4>3
    <3> QED BY <1>1, <1>2, <3>1, <3>2, <3>3
  <2> QED BY <1>2, <1>u, <2>1, <2>2, <2>3, <2>4 DEF Leads
<1> QED BY <1>3, <1>4, <1>5

LEMMA ItemLeads ==
  ASSUME NEW it \in Items
  PROVE  Leads(<<it>>, it.at, After(it))
<1>1. <<it>> \in Seq(Items) /\ Len(<<it>>) = 1 /\ <<it>>[1] = it /\ <<it>> # <<>>
  OBVIOUS
<1> QED BY <1>1 DEF Leads

LEMMA ReadsLead ==
  ASSUME NEW place \in Places, NEW reads \in Seq(Reads)
  PROVE  Leads(At(place, reads), place, place)
<1>s. PICK s : s = At(place, reads)
  OBVIOUS
<1>1. /\ Len(reads) \in Nat /\ DOMAIN reads = 1..Len(reads)
      /\ \A i \in 1..Len(reads) : reads[i] \in Reads
  BY LenProperties, ElementOfSeq
<1>2. ASSUME NEW i \in 1..Len(reads)
      PROVE  s[i] \in Items /\ s[i].at = place /\ After(s[i]) = place
  <2>1. s[i] = [do |-> "read", key |-> reads[i].key, type |-> reads[i].type,
                need |-> reads[i].need, at |-> place]
    BY <1>1, <1>s DEF At
  <2>2. reads[i].key \in Names /\ reads[i].type \in Types /\ reads[i].need \in BOOLEAN
    BY <1>1 DEF Reads
  <2> QED BY <2>1, <2>2 DEF Items, After
<1>3. s \in Seq(Items) /\ Len(s) = Len(reads)
  BY <1>1, <1>2, <1>s DEF At
<1>4. s # <<>> => Len(s) >= 1
  BY <1>1, <1>3
<1> QED BY <1>1, <1>2, <1>3, <1>4, <1>s DEF Leads

LEMMA ReadsTyped ==
  /\ ConfigReads \in Seq(Reads) /\ ServiceReads \in Seq(Reads)
  /\ RtuReads \in Seq(Reads) /\ Rs485Reads \in Seq(Reads)
  /\ \A s : SlaveReads(s) \in Seq(Reads) /\ MasterReads(s) \in Seq(Reads)
            /\ UnitIdReads(s) \in Seq(Reads)
<1>r. ASSUME NEW k \in Names, NEW t \in Types
      PROVE  Required(k, t) \in Reads /\ Optional(k, t) \in Reads
  BY DEF Required, Optional, Read, Reads
<1>n. /\ "Object" \in Types /\ "Array" \in Types /\ "String" \in Types
      /\ "Number" \in Types /\ "Boolean" \in Types
  BY DEF Types
<1>1. ConfigReads \in Seq(Reads) /\ ServiceReads \in Seq(Reads)
  <2>1. Required("service", "Object") \in Reads /\ Required("slaves", "Array") \in Reads
        /\ Required("masters", "Array") \in Reads
    BY <1>r, <1>n DEF Names
  <2>2. Optional("log_level", "String") \in Reads /\ Optional("threads", "Number") \in Reads
    BY <1>r, <1>n DEF Names
  <2> QED BY <2>1, <2>2 DEF ConfigReads, ServiceReads
<1>2. RtuReads \in Seq(Reads)
  <2>1. /\ Required("device", "String") \in Reads /\ Optional("baud_rate", "Number") \in Reads
        /\ Optional("character_size", "Number") \in Reads
        /\ Optional("parity", "String") \in Reads
        /\ Optional("stop_bits", "Number") \in Reads
        /\ Optional("flow_control", "String") \in Reads /\ Optional("rs485", "Object") \in Reads
    BY <1>r, <1>n DEF Names
  <2> QED BY <2>1 DEF RtuReads
<1>3. Rs485Reads \in Seq(Reads)
  <2>1. /\ Optional("rts_on_send", "Boolean") \in Reads
        /\ Optional("rts_after_send", "Boolean") \in Reads
        /\ Optional("rx_during_tx", "Boolean") \in Reads
        /\ Optional("terminate_bus", "Boolean") \in Reads
        /\ Optional("delay_rts_before_send", "Number") \in Reads
        /\ Optional("delay_rts_after_send", "Number") \in Reads
    BY <1>r, <1>n DEF Names
  <2> QED BY <2>1 DEF Rs485Reads
<1>4. <<Required("ip_address", "String"), Required("ip_port", "Number")>> \in Seq(Reads)
      /\ <<Optional("ip_address", "String"), Required("ip_port", "Number")>> \in Seq(Reads)
      /\ <<Required("timeout_ms", "Number"), Optional("unit_id", "Array")>> \in Seq(Reads)
      /\ <<Required("begin", "Number"), Required("end", "Number")>> \in Seq(Reads)
      /\ <<Required("value", "Number")>> \in Seq(Reads)
  <2>1. /\ Required("ip_address", "String") \in Reads /\ Required("ip_port", "Number") \in Reads
        /\ Optional("ip_address", "String") \in Reads
        /\ Required("timeout_ms", "Number") \in Reads /\ Optional("unit_id", "Array") \in Reads
        /\ Required("begin", "Number") \in Reads /\ Required("end", "Number") \in Reads
        /\ Required("value", "Number") \in Reads
    BY <1>r, <1>n DEF Names
  <2> QED BY <2>1
<1>5. \A s : SlaveReads(s) \in Seq(Reads) /\ UnitIdReads(s) \in Seq(Reads)
  BY <1>2, <1>4 DEF SlaveReads, UnitIdReads
<1>6. ASSUME NEW s PROVE MasterReads(s) \in Seq(Reads)
  <2>r. PICK r \in Seq(Reads) :
          r = IF s = "tcp"
              THEN <<Required("ip_address", "String"), Required("ip_port", "Number")>>
              ELSE RtuReads
    BY <1>2, <1>4
  <2>f. PICK f \in Seq(Reads) :
          f = <<Required("timeout_ms", "Number"), Optional("unit_id", "Array")>>
    BY <1>4
  <2>1. MasterReads(s) = f \o r
    BY <2>f, <2>r DEF MasterReads
  <2> QED BY <2>1, ConcatProperties
<1> QED BY <1>1, <1>2, <1>3, <1>5, <1>6

LEMMA ScopeEnds ==
  ASSUME NEW place \in Places, NEW k \in Keys
  PROVE  /\ Append(place, k) \in Places
         /\ Leave(Append(place, k)) \in Items
         /\ Leave(Append(place, k)).at = Append(place, k)
         /\ After(Leave(Append(place, k))) = place
<1>p. PICK p : p = Append(place, k)
  OBVIOUS
<1>1. /\ p \in Seq(Keys) /\ Len(p) = Len(place) + 1 /\ Len(place) \in Nat
      /\ p # <<>> /\ \A i \in 1..Len(place) : p[i] = place[i]
  BY <1>p, AppendProperties, LenProperties DEF Places
<1>2. Leave(p) = [do |-> "leave", at |-> p] /\ Leave(p) \in Items
  BY <1>1 DEF Leave, Items, Places
<1>3. After(Leave(p)) = SubSeq(p, 1, Len(place))
  BY <1>1, <1>2 DEF After
<1>q. PICK q : q = SubSeq(p, 1, Len(place))
  OBVIOUS
<1>4. \A i \in 1..Len(place) : p[i] \in Keys
  BY <1>1, ElementOfSeq DEF Places
<1>5. /\ q \in Seq(Keys) /\ Len(q) = Len(place)
      /\ \A i \in 1..Len(place) : q[i] = place[i]
  BY <1>1, <1>4, <1>q, SubSeqProperties
<1>6. q = place
  BY <1>5, SeqEqual DEF Places
<1>7. Leave(p).at = p /\ p \in Places /\ After(Leave(p)) = place
  BY <1>1, <1>2, <1>3, <1>6, <1>q DEF Places
<1> QED BY <1>2, <1>7, <1>p

LEMMA IterationLeads ==
  ASSUME NEW place \in Places, NEW i \in Nat
  PROVE  Leads(Iteration(place, i), place, place)
<1>k. PICK k \in Keys : k = ToString(i)
  BY DEF Keys
<1>p. PICK inner : inner = Append(place, k)
  OBVIOUS
<1>f. PICK first \in Seq(Reads) :
        first = <<IF place[Len(place)] = "unit_id" THEN Required("type", "String")
                  ELSE Required("frame_type", "String")>>
  <2>a. Required("type", "String") \in Reads /\ Required("frame_type", "String") \in Reads
    BY DEF Required, Read, Reads, Names, Types
  <2>r. PICK r \in Reads :
          r = IF place[Len(place)] = "unit_id" THEN Required("type", "String")
              ELSE Required("frame_type", "String")
    BY <2>a, Zenon
  <2>1. <<r>> \in Seq(Reads)
    OBVIOUS
  <2> QED BY <2>r, <2>1
<1>1. /\ inner \in Places /\ Leave(inner) \in Items
      /\ Leave(inner).at = inner /\ After(Leave(inner)) = place
  BY <1>p, ScopeEnds
<1>2. /\ Enter(place, i) \in Items /\ Enter(place, i).at = place
      /\ After(Enter(place, i)) = inner
  BY <1>k, <1>p DEF Enter, Items, After
<1>3. /\ Loop(place, i + 1) \in Items /\ Loop(place, i + 1).at = place
      /\ After(Loop(place, i + 1)) = place
  BY DEF Loop, Items, After
<1>4. Leads(<<Enter(place, i)>>, place, inner)
  BY <1>2, ItemLeads
<1>5. Leads(At(inner, first), inner, inner)
  BY <1>1, ReadsLead
<1>6. Leads(<<Leave(inner)>>, inner, place)
  BY <1>1, ItemLeads
<1>7. Leads(<<Loop(place, i + 1)>>, place, place)
  BY <1>3, ItemLeads
<1>8. Leads((<<Enter(place, i)>> \o At(inner, first)) \o <<Leave(inner)>>, place, place)
  BY <1>4, <1>5, <1>6, LeadsThrough
<1>9. Iteration(place, i) =
        ((<<Enter(place, i)>> \o At(inner, first)) \o <<Leave(inner)>>) \o <<Loop(place, i + 1)>>
  BY <1>f, <1>k, <1>p DEF Iteration, Element
<1> QED BY <1>7, <1>8, <1>9, LeadsThrough

(* What a path begins with.                                                *)
LEMMA PrefixOf ==
  ASSUME NEW s \in Places, NEW t \in Places, Len(s) <= Len(t),
         \A i \in 1..Len(s) : s[i] = t[i]
  PROVE  IsPrefix(s, t)
<1>1. Len(s) \in Nat /\ Len(t) \in Nat
  BY LenProperties DEF Places
<1>2. \A i \in 1..Len(s) : t[i] \in Keys
  BY <1>1, ElementOfSeq DEF Places
<1>q. PICK q : q = SubSeq(t, 1, Len(s))
  OBVIOUS
<1>3. /\ q \in Seq(Keys) /\ Len(q) = Len(s)
      /\ \A i \in 1..Len(s) : q[i] = t[i]
  BY <1>1, <1>2, <1>q, SubSeqProperties
<1>4. q = s
  BY <1>3, SeqEqual DEF Places
<1>5. SubSeq(s, 1, Len(s)) = s
  BY SubSeqFull DEF Places
<1> QED BY <1>1, <1>4, <1>5, <1>q DEF IsPrefix

LEMMA PrefixOfReported ==
  ASSUME NEW place \in Places, NEW k \in Keys
  PROVE  /\ IsPrefix(Append(place, k), Append(place, k))
         /\ IsPrefix(Append(place, k), place \o <<k, k>>)
<1>s. PICK s : s = Append(place, k)
  OBVIOUS
<1>1. /\ s \in Places /\ Len(s) = Len(place) + 1 /\ Len(place) \in Nat /\ s[Len(place) + 1] = k
      /\ \A i \in 1..Len(place) : s[i] = place[i]
  BY <1>s, AppendProperties, LenProperties DEF Places
<1>e. PICK e : e = <<k, k>>
  OBVIOUS
<1>2. e \in Seq(Keys) /\ Len(e) = 2 /\ e[1] = k
  BY <1>e
<1>t. PICK t : t = place \o e
  OBVIOUS
<1>3. /\ t \in Places /\ Len(t) = Len(place) + 2
      /\ \A i \in 1..(Len(place) + 2) :
           t[i] = IF i <= Len(place) THEN place[i] ELSE e[i - Len(place)]
  <2>1. place \in Seq(Keys)
    BY DEF Places
  <2>2. /\ t \in Seq(Keys) /\ Len(t) = Len(place) + Len(e)
        /\ \A i \in 1..(Len(place) + Len(e)) :
             t[i] = IF i <= Len(place) THEN place[i] ELSE e[i - Len(place)]
    BY <1>2, <1>t, <2>1, ConcatProperties
  <2> QED BY <1>2, <2>2 DEF Places
<1>4. \A i \in 1..Len(s) : s[i] = t[i]
  <2> SUFFICES ASSUME NEW i \in 1..(Len(place) + 1) PROVE s[i] = t[i]
    BY <1>1
  <2>1. CASE i \in 1..Len(place)
    <3>1. i \in 1..(Len(place) + 2) /\ i <= Len(place)
      BY <1>1, <2>1
    <3> QED BY <1>1, <1>3, <2>1, <3>1
  <2>2. CASE i = Len(place) + 1
    <3>1. i \in 1..(Len(place) + 2) /\ ~(i <= Len(place)) /\ i - Len(place) = 1
      BY <1>1, <2>2
    <3> QED BY <1>1, <1>2, <1>3, <2>2, <3>1
  <2> QED BY <1>1, <2>1, <2>2
<1>5. IsPrefix(s, s) /\ IsPrefix(s, t)
  BY <1>1, <1>3, <1>4, PrefixOf
<1> QED BY <1>5, <1>e, <1>s, <1>t
-----------------------------------------------------------------------------
LEMMA FirstItem ==
  ASSUME PathInv, Reading
  PROVE  /\ It \in Items /\ It.at = tracePath /\ It.at \in Places
         /\ Leads(Tail(todo), After(It), <<"config">>)
         /\ error.what = "none"
<1>1. todo # <<>> /\ error.what = "none" /\ Leads(todo, tracePath, <<"config">>)
  BY DEF Reading, NoError, PathInv
<1>2. todo \in Seq(Items) /\ todo[1].at = tracePath
  BY <1>1 DEF Leads
<1>3. It = todo[1] /\ It \in Items
  BY <1>1, <1>2, HeadTailProperties DEF It
<1> QED BY <1>1, <1>2, <1>3, LeadsOn DEF It, PathInv

LEMMA ReadItem ==
  ASSUME PathInv, AtRead
  PROVE  It.key \in Keys /\ After(It) = tracePath /\ It.at = tracePath
<1>1. It \in Items /\ It.do = "read" /\ It.at = tracePath
  BY FirstItem DEF AtRead
<1>2. It.key \in Names
  BY <1>1 DEF Items
<1> QED BY <1>1, <1>2 DEF After, Keys

(* A function returns to where it was called, with more to read.           *)
LEMMA ReturnLeads ==
  ASSUME PathInv, Reading, NEW more, Returns(more), tracePath' \in Places,
         Leads(more, tracePath', After(It))
  PROVE  PathInv'
<1>1. Leads(todo', tracePath', <<"config">>)
  BY FirstItem, LeadsThrough DEF Returns
<1>2. error'.what = "none"
  BY FirstItem DEF Returns
<1> QED BY <1>1, <1>2 DEF PathInv

LEMMA NothingLeads ==
  ASSUME NEW p
  PROVE  Leads(<<>>, p, p)
<1>1. <<>> \in Seq(Items) /\ Len(<<>>) = 0
  OBVIOUS
<1> QED BY <1>1 DEF Leads

(* An exception names the value that was looked at.                        *)
LEMMA ThrowNames ==
  ASSUME PathInv, AtRead, NEW g, Saw(g), NEW what, Throw(what)
  PROVE  PathInv'
<1>k. PICK k \in Keys : k = It.key
  BY ReadItem
<1>1. It.at = tracePath /\ tracePath \in Places
  BY ReadItem DEF PathInv
<1>2. last'.at = tracePath /\ last'.key = k
  BY <1>1, <1>k DEF Saw
<1>3. error'.path = ReportedPath(what)
  BY DEF Throw
<1>4. ReportedPath(what) = Append(tracePath, k) \/ ReportedPath(what) = tracePath \o <<k, k>>
  BY <1>k DEF ReportedPath
<1>5. IsPrefix(Append(last'.at, last'.key), error'.path)
  BY <1>1, <1>2, <1>3, <1>4, PrefixOfReported
<1>6. tracePath' = tracePath /\ todo' = todo
  BY DEF Throw
<1> QED BY <1>5, <1>6 DEF PathInv, Leads

(* A value is taken, and a key of a place may lead to more keys of it.     *)
LEMMA ReturnReads ==
  ASSUME PathInv, AtRead, NEW reads \in Seq(Reads), Returns(At(It.at, reads)),
         tracePath' = tracePath
  PROVE  PathInv'
<1>1. It.at = tracePath /\ After(It) = tracePath /\ tracePath \in Places /\ Reading
  BY ReadItem DEF PathInv, AtRead
<1>2. Leads(At(It.at, reads), tracePath', After(It))
  BY <1>1, ReadsLead
<1> QED BY <1>1, <1>2, ReturnLeads

LEMMA ReturnNothing ==
  ASSUME PathInv, AtRead, Returns(<<>>), tracePath' = tracePath
  PROVE  PathInv'
<1>1. After(It) = tracePath /\ tracePath \in Places /\ Reading
  BY ReadItem DEF PathInv, AtRead
<1>2. Leads(<<>>, tracePath', After(It))
  BY <1>1, NothingLeads
<1> QED BY <1>1, <1>2, ReturnLeads

(* Reads and loops in the scope of the key that is read.                   *)
LEMMA ReturnScope ==
  ASSUME PathInv, AtRead, tracePath' = Append(tracePath, It.key),
         NEW more, Leads(more, tracePath', tracePath'),
         Returns(more \o <<Leave(Append(It.at, It.key))>>)
  PROVE  PathInv'
<1>k. PICK k \in Keys : k = It.key
  BY ReadItem
<1>1. It.at = tracePath /\ After(It) = tracePath /\ tracePath \in Places /\ Reading
  BY ReadItem DEF PathInv, AtRead
<1>l. PICK leave : leave = Leave(Append(tracePath, k))
  OBVIOUS
<1>2. /\ tracePath' \in Places /\ leave \in Items
      /\ leave.at = tracePath' /\ After(leave) = tracePath
  BY <1>1, <1>k, <1>l, ScopeEnds
<1>3. Leads(<<leave>>, tracePath', tracePath)
  BY <1>2, ItemLeads
<1>4. Leads(more \o <<leave>>, tracePath', After(It))
  BY <1>1, <1>3, LeadsThrough
<1> QED BY <1>1, <1>2, <1>4, <1>k, <1>l, ReturnLeads

LEMMA PathStep ==
  ASSUME PathInv, [Next]_vars
  PROVE  PathInv'
<1>1. CASE KeyAbsent
  <2>1. AtRead /\ Saw("absent")
    BY <1>1 DEF KeyAbsent
  <2>2. Throw("key not found") \/ (Returns(<<>>) /\ tracePath' = tracePath)
    BY <1>1 DEF KeyAbsent
  <2> QED BY <2>1, <2>2, ThrowNames, ReturnNothing
<1>2. CASE WrongType
  BY <1>2, ThrowNames DEF WrongType
<1>3. CASE ReadString
  <2>1. PICK g : Saw(g)
    BY <1>3 DEF ReadString
  <2>2. AtRead
    BY <1>3 DEF ReadString
  <2>3. CASE Throw("invalid value")
    BY <2>1, <2>2, <2>3, ThrowNames
  <2>4. CASE ~Throw("invalid value")
    <3>1. PICK g2 \in Strings(It.key) :
            /\ Returns(At(It.at,
                 CASE It.key = "frame_type" /\ It.at[2] = "slaves" -> SlaveReads(g2)
                   [] It.key = "frame_type" /\ It.at[2] = "masters" -> MasterReads(g2)
                   [] It.key = "type" -> UnitIdReads(g2)
                   [] OTHER -> <<>>))
            /\ tracePath' = tracePath
      BY <1>3, <2>4 DEF ReadString
    <3>2. PICK reads \in Seq(Reads) :
            reads = CASE It.key = "frame_type" /\ It.at[2] = "slaves" -> SlaveReads(g2)
                      [] It.key = "frame_type" /\ It.at[2] = "masters" -> MasterReads(g2)
                      [] It.key = "type" -> UnitIdReads(g2)
                      [] OTHER -> <<>>
      <4>1. /\ SlaveReads(g2) \in Seq(Reads) /\ MasterReads(g2) \in Seq(Reads)
            /\ UnitIdReads(g2) \in Seq(Reads) /\ <<>> \in Seq(Reads)
        BY ReadsTyped
      <4> QED BY <4>1
    <3>3. Returns(At(It.at, reads))
      BY <3>1, <3>2
    <3> QED BY <2>2, <3>1, <3>3, ReturnReads
  <2> QED BY <2>3, <2>4
<1>4. CASE ReadNumber
  <2>1. AtRead
    BY <1>4 DEF ReadNumber
  <2>2. CASE Returns(<<>>) /\ tracePath' = tracePath
    BY <2>1, <2>2, ReturnNothing
  <2>3. CASE Saw("refused") /\ Throw("invalid value")
    BY <2>1, <2>3, ThrowNames
  <2>4. CASE error' = [what |-> "out of range"] /\ UNCHANGED <<tracePath, todo>>
    BY <2>4 DEF PathInv, Leads
  <2> QED BY <1>4, <2>2, <2>3, <2>4 DEF ReadNumber
<1>5. CASE ReadBoolean
  BY <1>5, ReturnNothing DEF ReadBoolean
<1>6. CASE ReadObject
  <2>1. AtRead /\ tracePath' = Append(tracePath, It.key)
    BY <1>6 DEF ReadObject
  <2>k. PICK k \in Keys : k = It.key
    BY <2>1, ReadItem
  <2>2. It.at = tracePath /\ tracePath' \in Places
    BY <2>1, <2>k, ReadItem, ScopeEnds DEF PathInv
  <2>r. PICK reads \in Seq(Reads) :
          reads = IF It.key = "service" THEN ServiceReads ELSE Rs485Reads
    BY ReadsTyped
  <2>3. Leads(At(Append(It.at, It.key), reads), tracePath', tracePath')
    BY <2>1, <2>2, ReadsLead
  <2>4. Returns(At(Append(It.at, It.key), reads) \o <<Leave(Append(It.at, It.key))>>)
    BY <1>6, <2>r DEF ReadObject
  <2> QED BY <2>1, <2>3, <2>4, ReturnScope
<1>7. CASE ReadArray
  <2>1. AtRead /\ Saw("array")
    BY <1>7 DEF ReadArray
  <2>2. CASE Throw("invalid value")
    BY <2>1, <2>2, ThrowNames
  <2>3. CASE /\ tracePath' = Append(tracePath, It.key)
             /\ Returns(Iteration(Append(It.at, It.key), 0) \o <<Leave(Append(It.at, It.key))>>)
    <3>k. PICK k \in Keys : k = It.key
      BY <2>1, ReadItem
    <3>1. It.at = tracePath /\ tracePath' \in Places
      BY <2>1, <2>3, <3>k, ReadItem, ScopeEnds DEF PathInv
    <3>2. Leads(Iteration(Append(It.at, It.key), 0), tracePath', tracePath')
      BY <2>3, <3>1, IterationLeads
    <3> QED BY <2>1, <2>3, <3>2, ReturnScope
  <2> QED BY <1>7, <2>2, <2>3 DEF ReadArray
<1>8. CASE NextElement
  <2>1. Reading /\ It.do = "loop" /\ tracePath' = tracePath
    BY <1>8 DEF NextElement
  <2>2. /\ It \in Items /\ It.at = tracePath /\ tracePath \in Places
    BY <2>1, FirstItem DEF PathInv
  <2>3. It.index \in Nat /\ After(It) = tracePath
    BY <2>1, <2>2 DEF Items, After
  <2>4. CASE Returns(<<>>)
    BY <2>1, <2>2, <2>3, <2>4, NothingLeads, ReturnLeads
  <2>5. CASE Returns(Iteration(It.at, It.index))
    BY <2>1, <2>2, <2>3, <2>5, IterationLeads, ReturnLeads
  <2> QED BY <1>8, <2>4, <2>5 DEF NextElement
<1>9. CASE TraceDeepMade
  <2>1. Reading /\ It.do = "enter" /\ tracePath' = Append(tracePath, It.key)
        /\ todo' = Tail(todo) /\ error' = error
    BY <1>9 DEF TraceDeepMade
  <2>2. It \in Items /\ It.at = tracePath /\ tracePath \in Places
    BY <2>1, FirstItem DEF PathInv
  <2>3. It.key \in Keys /\ After(It) = tracePath'
    BY <2>1, <2>2 DEF Items, After
  <2>k. PICK k \in Keys : k = It.key
    BY <2>3
  <2>4. tracePath' \in Places
    BY <2>1, <2>2, <2>k, ScopeEnds
  <2> QED BY <2>1, <2>3, <2>4, FirstItem DEF PathInv
<1>10. CASE TraceDeepGone
  <2>1. Reading /\ It.do = "leave" /\ tracePath' = SubSeq(tracePath, 1, Len(tracePath) - 1)
        /\ todo' = Tail(todo) /\ error' = error
    BY <1>10 DEF TraceDeepGone
  <2>2. It \in Items /\ It.at = tracePath /\ tracePath \in Places
    BY <2>1, FirstItem DEF PathInv
  <2>3. After(It) = tracePath' /\ tracePath # <<>>
    BY <2>1, <2>2 DEF Items, After
  <2>4. tracePath' \in Places
    BY <2>1, <2>2, <2>3 DEF Places
  <2> QED BY <2>1, <2>3, <2>4, FirstItem DEF PathInv
<1>11. CASE UNCHANGED vars
  BY <1>11 DEF vars, PathInv, Leads
<1> QED BY <1>1, <1>2, <1>3, <1>4, <1>5, <1>6, <1>7, <1>8, <1>9, <1>10, <1>11 DEF Next

LEMMA PathStart == Init => PathInv
<1> SUFFICES ASSUME Init PROVE PathInv
  OBVIOUS
<1>1. <<"config">> \in Places
  BY DEF Places, Keys
<1>2. Leads(At(<<"config">>, ConfigReads), <<"config">>, <<"config">>)
  BY <1>1, ReadsTyped, ReadsLead
<1> QED BY <1>1, <1>2 DEF Init, PathInv, NoError

LEMMA PathInvIsPlace == PathInv => PathIsPlace
<1> SUFFICES ASSUME PathInv PROVE PathIsPlace
  OBVIOUS
<1>1. Reading => tracePath = It.at
  BY FirstItem
<1>2. todo = <<>> => tracePath = <<"config">>
  BY DEF PathInv, Leads
<1> QED BY <1>1, <1>2 DEF PathInv, PathIsPlace

(* TraceDeep in extractor.cpp: for every file, however deep, the path is   *)
(* always the place that is read, and an error leads to what it refuses.   *)
THEOREM PathIsWhereItReads == Spec => []PathIsPlace
BY PathStart, PathStep, PathInvIsPlace, PTL DEF Spec
-----------------------------------------------------------------------------
(***************************************************************************)
(* The serial line: rtu_options.cpp.                                       *)
(***************************************************************************)
DeviceKeys == {"enabled"} \cup Line!Rs485Keys

(* What the constructor has done to the device, at each of its places.     *)
Progress ==
  /\ pc \in {"open", "line", "thrown"} => device = was
  /\ pc = "get" => device = was /\ kind = "master" /\ rs485 # <<>>
  /\ pc = "set" => /\ device = was /\ kind = "master" /\ rs485 # <<>>
                   /\ config = Line!Merge(was, rs485[1])
  /\ pc = "made" => device = IF kind = "master" /\ rs485 # <<>>
                             THEN Line!Merge(was, rs485[1]) ELSE was

(* The options of the line set so far have their values, and all of them   *)
(* are set before anything else is done.                                   *)
LineSoFar ==
  /\ {options, line} \subseteq Line!LineStates
  /\ lineSet \in 0..Line!LineOptions
  /\ pc = "open" => lineSet = 0
  /\ pc = "line" => \A i \in 1..lineSet : line[i] = options[i]
  /\ pc \in {"get", "set", "made"} => line = options

(* The inductive invariant of the line. *)
SerialInv ==
  /\ pc \in {"open", "line", "get", "set", "made", "thrown"}
  /\ DOMAIN was = DeviceKeys
  /\ rs485 # <<>> => DOMAIN rs485[1] \subseteq Line!Rs485Keys
  /\ LineSoFar
  /\ Progress

(* The merge of the rs485 options enables RS485, takes every given key and *)
(* keeps every other.                                                      *)
LEMMA MergeEffect ==
  ASSUME Line!SerialAssumption, NEW c, NEW g,
         DOMAIN c = DeviceKeys, DOMAIN g \subseteq Line!Rs485Keys
  PROVE  /\ Line!Merge(c, g)["enabled"] = 1
         /\ \A k \in DOMAIN g : Line!Merge(c, g)[k] = g[k]
         /\ \A k \in Line!Rs485Keys : k \notin DOMAIN g => Line!Merge(c, g)[k] = c[k]
BY DEF Line!Merge, DeviceKeys, Line!Rs485Keys, Line!SerialAssumption

LEMMA SerialStart == Line!Init => SerialInv
<1> SUFFICES ASSUME Line!Init PROVE SerialInv
  OBVIOUS
<1>1. DOMAIN was = DeviceKeys
  BY DEF Line!Init, Line!DeviceStates, DeviceKeys
<1>2. rs485 # <<>> => DOMAIN rs485[1] \subseteq Line!Rs485Keys
  BY DEF Line!Init, Line!GivenRs485, Line!Given
<1>3. LineSoFar
  BY DEF Line!Init, LineSoFar, Line!LineOptions
<1> QED BY <1>1, <1>2, <1>3 DEF Line!Init, SerialInv, Progress

LEMMA LineStep ==
  ASSUME LineSoFar, [Line!Next]_(Line!vars)
  PROVE  LineSoFar'
<1> USE DEF LineSoFar, Line!LineOptions, Line!LineStates, Line!input
<1>1. CASE Line!Open
  BY <1>1 DEF Line!Open, Line!Throw
<1>2. CASE Line!SetLineOption
  <2>1. CASE Line!Throw
    BY <1>2, <2>1 DEF Line!SetLineOption, Line!Throw
  <2>2. CASE ~Line!Throw
    BY <1>2, <2>2 DEF Line!SetLineOption
  <2> QED BY <2>1, <2>2
<1>3. CASE Line!LineDone
  <2>1. line \in [1..5 -> Values] /\ options \in [1..5 -> Values]
    OBVIOUS
  <2>2. \A i \in 1..5 : line[i] = options[i]
    BY <1>3 DEF Line!LineDone
  <2>3. line = options
    BY <2>1, <2>2
  <2> QED BY <1>3, <2>3 DEF Line!LineDone
<1>4. CASE Line!GetRs485
  BY <1>4 DEF Line!GetRs485, Line!Throw
<1>5. CASE Line!SetRs485
  BY <1>5 DEF Line!SetRs485, Line!Throw
<1>6. CASE UNCHANGED Line!vars
  BY <1>6 DEF Line!vars
<1> QED BY <1>1, <1>2, <1>3, <1>4, <1>5, <1>6 DEF Line!Next

LEMMA SerialStep ==
  ASSUME SerialInv, [Line!Next]_(Line!vars)
  PROVE  SerialInv'
<1>0. LineSoFar'
  BY LineStep DEF SerialInv
<1> USE <1>0 DEF SerialInv, Progress, Line!input
<1>1. CASE Line!Open
  BY <1>1 DEF Line!Open, Line!Throw
<1>2. CASE Line!SetLineOption
  BY <1>2 DEF Line!SetLineOption, Line!Throw
<1>3. CASE Line!LineDone
  BY <1>3 DEF Line!LineDone
<1>4. CASE Line!GetRs485
  BY <1>4 DEF Line!GetRs485, Line!Throw, Line!ReadDevice
<1>5. CASE Line!SetRs485
  BY <1>5 DEF Line!SetRs485, Line!Throw
<1>6. CASE UNCHANGED Line!vars
  BY <1>6 DEF Line!vars
<1> QED BY <1>1, <1>2, <1>3, <1>4, <1>5, <1>6 DEF Line!Next

(* The constructors of the serial actors and SetOptions (rtu_options.cpp): *)
(* whichever call may fail, an actor that is made works on a line with all *)
(* its options set, those of rs485 included if it is a master.             *)
THEOREM SerialLineAsConfigured ==
  ASSUME Line!SerialAssumption
  PROVE  Line!Spec => []Line!LineAsConfigured
<1>1. SerialInv => Line!LineAsConfigured
  BY MergeEffect DEF SerialInv, Progress, LineSoFar, Line!LineAsConfigured
<1> QED BY SerialStart, SerialStep, <1>1, PTL DEF Line!Spec

(* SetOptions: an option the file leaves out is the device's, and a        *)
(* constructor that throws before TIOCSRS485 succeeds changes none.        *)
THEOREM OtherOptionsFromDevice ==
  ASSUME Line!SerialAssumption
  PROVE  Line!Spec => []Line!OthersFromDevice
<1>1. SerialInv => Line!OthersFromDevice
  BY MergeEffect DEF SerialInv, Progress, Line!OthersFromDevice
<1> QED BY SerialStart, SerialStep, <1>1, PTL DEF Line!Spec
-----------------------------------------------------------------------------
(***************************************************************************)
(* The queue: common/limit_queue.h.                                        *)
(***************************************************************************)
(* The inductive invariant of the queue. *)
QueueInv == Queue!TypeOK /\ Queue!KeepsNewest /\ Queue!Bounded

(* MakeRoom leaves the queue or removes its first element. *)
LEMMA MakeRoomEffect ==
  ASSUME Queue!LimitAssumption, NEW q \in Seq(1..Pushes), Len(q) <= MaxSize + 1
  PROVE  /\ Queue!MakeRoom(q) \in Seq(1..Pushes)
         /\ Len(Queue!MakeRoom(q)) <= MaxSize
         /\ \/ Queue!MakeRoom(q) = q
            \/ /\ Len(q) > MaxSize
               /\ q # <<>>
               /\ Queue!MakeRoom(q) = Tail(q)
<1>1. CASE Len(q) > MaxSize
  <2>1. q # <<>> /\ Queue!MakeRoom(q) = Tail(q)
    BY <1>1 DEF Queue!MakeRoom, Queue!LimitAssumption
  <2> QED BY <1>1, <2>1 DEF Queue!LimitAssumption
<1>2. CASE ~(Len(q) > MaxSize)
  BY <1>2 DEF Queue!MakeRoom, Queue!LimitAssumption
<1> QED BY <1>1, <1>2

(* Every push and pop keeps the invariant. *)
LEMMA QueueStep ==
  ASSUME Queue!LimitAssumption, QueueInv, [Queue!Next]_(Queue!vars)
  PROVE  QueueInv'
<1> USE DEF Queue!LimitAssumption, QueueInv, Queue!TypeOK
<1>1. CASE Queue!Push
  <2> DEFINE room == Queue!MakeRoom(queue)
  <2>1. /\ room \in Seq(1..Pushes)
        /\ Len(room) <= MaxSize
        /\ room = queue \/ (queue # <<>> /\ room = Tail(queue))
    BY MakeRoomEffect DEF Queue!Bounded
  <2>2. /\ pushed' = pushed + 1 /\ pushed < Pushes
        /\ queue' = Append(room, pushed + 1)
        /\ popped' = popped
    BY <1>1 DEF Queue!Push
  <2>3. \A i \in 1..Len(room) : room[i] = pushed - Len(room) + i
    <3>1. CASE room = queue
      BY <3>1 DEF Queue!KeepsNewest
    <3>2. CASE queue # <<>> /\ room = Tail(queue)
      BY <3>2 DEF Queue!KeepsNewest
    <3> QED BY <2>1, <3>1, <3>2
  <2> HIDE DEF room
  <2>4. Queue!TypeOK'
    BY <2>1, <2>2
  <2>5. Queue!KeepsNewest'
    BY <2>1, <2>2, <2>3 DEF Queue!KeepsNewest
  <2>6. Queue!Bounded'
    BY <2>1, <2>2 DEF Queue!Bounded
  <2> QED BY <2>4, <2>5, <2>6
<1>2. CASE Queue!Pop
  <2>1. queue # <<>> /\ queue' = Tail(queue) /\ popped' = Head(queue) /\ pushed' = pushed
    BY <1>2 DEF Queue!Pop
  <2>2. Queue!TypeOK'
    BY <2>1
  <2>3. Queue!KeepsNewest'
    BY <2>1 DEF Queue!KeepsNewest
  <2>4. Queue!Bounded'
    BY <2>1 DEF Queue!Bounded
  <2> QED BY <2>2, <2>3, <2>4
<1>3. CASE UNCHANGED Queue!vars
  BY <1>3 DEF Queue!vars, Queue!KeepsNewest, Queue!Bounded
<1> QED BY <1>1, <1>2, <1>3 DEF Queue!Next

(* LimitQueue::Push and Pop: the queue is always the newest elements, in   *)
(* order and without a gap.                                                *)
THEOREM QueueKeepsNewest ==
  ASSUME Queue!LimitAssumption
  PROVE  Queue!Spec => []Queue!KeepsNewest
<1>1. Queue!Init => QueueInv
  BY DEF Queue!Init, QueueInv, Queue!TypeOK, Queue!KeepsNewest, Queue!Bounded,
         Queue!LimitAssumption
<1>2. QueueInv /\ [Queue!Next]_(Queue!vars) => QueueInv'
  BY QueueStep
<1>3. QueueInv => Queue!KeepsNewest
  BY DEF QueueInv
<1> QED BY <1>1, <1>2, <1>3, PTL DEF Queue!Spec

(* LimitQueue::Push: the queue never holds more than one element over its  *)
(* limit.                                                                  *)
THEOREM QueueBounded ==
  ASSUME Queue!LimitAssumption
  PROVE  Queue!Spec => []Queue!Bounded
<1>1. Queue!Init => QueueInv
  BY DEF Queue!Init, QueueInv, Queue!TypeOK, Queue!KeepsNewest, Queue!Bounded,
         Queue!LimitAssumption
<1>2. QueueInv /\ [Queue!Next]_(Queue!vars) => QueueInv'
  BY QueueStep
<1>3. QueueInv => Queue!Bounded
  BY DEF QueueInv
<1> QED BY <1>1, <1>2, <1>3, PTL DEF Queue!Spec

(* With a limit that is not reached nothing is dropped: what the models of *)
(* the masters, whose queues have the limit of size_t, rest on.            *)
THEOREM QueueLosesNothing ==
  ASSUME Queue!LimitAssumption
  PROVE  Queue!Spec => []Queue!NothingLost
<1> DEFINE Inv == QueueInv /\ Queue!NothingLost
<1>1. Queue!Init => Inv
  BY DEF Queue!Init, QueueInv, Queue!TypeOK, Queue!KeepsNewest, Queue!Bounded,
         Queue!LimitAssumption, Queue!NothingLost
<1>2. Inv /\ [Queue!Next]_(Queue!vars) => Inv'
  <2> SUFFICES ASSUME QueueInv, Queue!NothingLost, [Queue!Next]_(Queue!vars)
               PROVE  Queue!NothingLost'
    BY QueueStep
  <2> USE DEF Queue!LimitAssumption, QueueInv, Queue!TypeOK
  <2> SUFFICES ASSUME Pushes <= MaxSize + 1
               PROVE  pushed' = popped' + Len(queue')
    BY DEF Queue!NothingLost
  <2>1. pushed = popped + Len(queue)
    BY DEF Queue!NothingLost
  <2>2. CASE Queue!Push
    <3>1. Queue!MakeRoom(queue) = queue
      BY <2>1, <2>2 DEF Queue!MakeRoom, Queue!Push
    <3> QED BY <2>1, <2>2, <3>1 DEF Queue!Push
  <2>3. CASE Queue!Pop
    <3>1. queue # <<>> /\ queue[1] = pushed - Len(queue) + 1
      BY <2>3 DEF Queue!Pop, Queue!KeepsNewest
    <3> QED BY <2>1, <2>3, <3>1 DEF Queue!Pop
  <2>4. CASE UNCHANGED Queue!vars
    BY <2>1, <2>4 DEF Queue!vars
  <2> QED BY <2>2, <2>3, <2>4 DEF Queue!Next
<1>3. Inv => Queue!NothingLost
  OBVIOUS
<1> QED BY <1>1, <1>2, <1>3, PTL DEF Queue!Spec
=============================================================================
