-------------------------- MODULE ConfigExtraction --------------------------
(***************************************************************************)
(* How Config (config/config.cpp) reads the file: which keys it looks for, *)
(* in which order, what it refuses, and what it reports of the value it    *)
(* refuses.                                                                *)
(*                                                                         *)
(* todo is what the nested functions have still to do: values to read,     *)
(* scopes of TraceDeep objects to enter and to leave, loops to go on with. *)
(* tracePath is the path kept by the TraceDeep objects; at, in each item   *)
(* of todo, is the place in the file the item belongs to, as the nesting   *)
(* of the functions has it.  A number of the file is given in halves, h    *)
(* for h/2.  The file is chosen while it is read: an element of an array   *)
(* that is not an object is one without keys.                              *)
(***************************************************************************)
EXTENDS Integers, SequencesExt

CONSTANTS
  Halves,                 \* numbers of a file from 0 on, in halves
  Negatives,              \* n for a number -n of a file
  MaxElements,            \* elements of an array
  WordMod,                \* 2^64: uint64_t and size_t
  UintMod,                \* 2^32: unsigned int of asio, and the delays
  PortMax,                \* the greatest asio::ip::port_type
  UnitIdMin, UnitIdMax,   \* of the modbus library
  CharacterSizes          \* that asio accepts, 5..8

ASSUME ExtractionAssumption ==
  /\ Halves \cup Negatives \cup CharacterSizes \subseteq Nat
  /\ {WordMod, UintMod, MaxElements} \subseteq Nat \ {0}
  /\ {PortMax, UnitIdMin, UnitIdMax} \subseteq Nat
  (* A number of the file is a uint64_t or an int64_t, or a fraction that  *)
  (* is cut to a uint64_t; no range reaches where a negative one wraps to. *)
  /\ \A h \in Halves : h < 2 * WordMod
  /\ \A n \in Negatives : 2 * n <= WordMod
  /\ 2 * PortMax < WordMod /\ 2 * UnitIdMax < WordMod

VARIABLES
  tracePath,   \* tracePath of Config
  todo,        \* what is left to read
  last,        \* history: the value read last
  error        \* the exception, if any

vars == <<tracePath, todo, last, error>>

(* A negative fraction is left out: its conversion is undefined.           *)
FileNumbers == Halves \cup {-2 * n : n \in Negatives}

-----------------------------------------------------------------------------
(***************************************************************************)
(* What the constructors of the configurations read.                       *)
(***************************************************************************)
Read(k, type, need) == [key |-> k, type |-> type, need |-> need]
Required(k, type)   == Read(k, type, TRUE)
Optional(k, type)   == Read(k, type, FALSE)

ConfigReads == <<Required("service", "Object"), Required("slaves", "Array"), Required("masters", "Array")>>

ServiceReads == <<Optional("log_level", "String"), Optional("threads", "Number")>>

RtuReads ==
  <<Required("device", "String"), Optional("baud_rate", "Number"),
    Optional("character_size", "Number"), Optional("parity", "String"),
    Optional("stop_bits", "Number"), Optional("flow_control", "String"),
    Optional("rs485", "Object")>>

Rs485Reads ==
  <<Optional("rts_on_send", "Boolean"), Optional("rts_after_send", "Boolean"),
    Optional("rx_during_tx", "Boolean"), Optional("terminate_bus", "Boolean"),
    Optional("delay_rts_before_send", "Number"), Optional("delay_rts_after_send", "Number")>>

SlaveReads(frameType) ==
  IF frameType = "tcp"
  THEN <<Optional("ip_address", "String"), Required("ip_port", "Number")>>
  ELSE RtuReads

MasterReads(frameType) ==
  <<Required("timeout_ms", "Number"), Optional("unit_id", "Array")>> \o
  IF frameType = "tcp"
  THEN <<Required("ip_address", "String"), Required("ip_port", "Number")>>
  ELSE RtuReads

UnitIdReads(type) ==
  IF type = "range" THEN <<Required("begin", "Number"), Required("end", "Number")>>
  ELSE <<Required("value", "Number")>>

(* Items of todo: reads at a place; *)
At(place, reads) ==
  [i \in DOMAIN reads |-> [do |-> "read", key |-> reads[i].key, type |-> reads[i].type,
                           need |-> reads[i].need, at |-> place]]

(* the scope of the TraceDeep of an element, and the end of a scope; *)
Enter(place, i) == [do |-> "enter", key |-> ToString(i), at |-> place]
Leave(place)    == [do |-> "leave", at |-> place]

(* the rest of the loop over an array, from element i on. *)
Loop(place, i) == [do |-> "loop", index |-> i, at |-> place]

(* Variant: the TraceDeep of an element is declared outside the loop. *)
ElementWithoutLeave(place, i, reads) ==
  <<Enter(place, i)>> \o At(Append(place, ToString(i)), reads)

(* The body of a loop over an array. *)
Element(place, i, reads) ==
  <<Enter(place, i)>> \o At(Append(place, ToString(i)), reads)
                      \o <<Leave(Append(place, ToString(i)))>>

(* An iteration: each element begins with one key. *)
Iteration(place, i) ==
  LET first == IF place[Len(place)] = "unit_id" THEN Required("type", "String")
               ELSE Required("frame_type", "String")
  IN  Element(place, i, <<first>>) \o <<Loop(place, i + 1)>>
-----------------------------------------------------------------------------
(***************************************************************************)
(* Values.                                                                 *)
(***************************************************************************)

(* The strings told apart; an address is known when make_address_v4 takes  *)
(* it, any device is.                                                      *)
Strings(k) ==
  CASE k = "frame_type" -> {"tcp", "rtu", "unknown"}
    [] k = "type"       -> {"range", "value", "unknown"}
    [] k = "device"     -> {"known"}
    [] OTHER            -> {"known", "unknown"}

(* get<uint64_t>: a fraction is cut off, a negative number wraps. *)
Unsigned(h) == (h \div 2) % WordMod

(* The count of a std::chrono::milliseconds made of a size_t. *)
Signed(n) == IF 2 * n < WordMod THEN n ELSE n - WordMod

(* Variant: only a port is looked at, and not at its width. *)
NumberAcceptedAnyPort(k, h) == IF k = "ip_port" THEN Unsigned(h) % (PortMax + 1) # 0 ELSE TRUE

(* The number h of key k is not refused.  The width of a size_t refuses    *)
(* nothing; character_size is refused by asio, which gets an unsigned int. *)
NumberAccepted(k, h) ==
  CASE k = "ip_port"                    -> Unsigned(h) \in 1..PortMax
    [] k \in {"begin", "end", "value"}  -> Unsigned(h) \in UnitIdMin..UnitIdMax
    [] k = "stop_bits"                  -> h \in {2, 3, 4}
    [] k = "character_size"             -> Unsigned(h) % UintMod \in CharacterSizes
    [] OTHER                            -> TRUE

(* What the configuration then holds; of stop_bits, twice. *)
NumberValue(k, h) ==
  CASE k = "ip_port"    -> Unsigned(h) % (PortMax + 1)
    [] k = "timeout_ms" -> Signed(Unsigned(h))
    [] k = "stop_bits"  -> h
    [] k \in {"baud_rate", "character_size"} -> Unsigned(h) % UintMod
    [] k \in {"delay_rts_before_send", "delay_rts_after_send"} -> (h \div 2) % UintMod
    [] OTHER            -> Unsigned(h)
-----------------------------------------------------------------------------
NoError == [what |-> "none"]
Nothing == [key |-> "none"]

Init ==
  /\ tracePath = <<"config">>
  /\ todo = At(<<"config">>, ConfigReads)
  /\ last = Nothing
  /\ error = NoError

Reading == error = NoError /\ todo # <<>>
It      == Head(todo)
AtRead  == Reading /\ It.do = "read"

(* TracePath::GetPath when the exception is made.  ExtractNumericRangeType *)
(* keeps its TraceDeep while ExtractString makes another for the same key. *)
ReportedPath(what) ==
  IF It.key = "type" /\ what # "invalid value"
  THEN tracePath \o <<It.key, It.key>>
  ELSE Append(tracePath, It.key)

(* A ParserException leaves Config. *)
Throw(what) ==
  /\ error' = [what |-> what, key |-> It.key, path |-> ReportedPath(what)]
  /\ UNCHANGED <<tracePath, todo>>

(* The read of It returns; more has to be read before what is left.        *)
Returns(more) ==
  /\ todo' = more \o Tail(todo)
  /\ UNCHANGED error

Saw(given) == last' = [key |-> It.key, at |-> It.at, given |-> given]

KeyAbsent ==
  /\ AtRead
  /\ Saw("absent")
  /\ IF It.need THEN Throw("key not found") ELSE Returns(<<>>) /\ UNCHANGED tracePath

(* CheckType. *)
WrongType ==
  /\ AtRead
  /\ Saw("other")
  /\ Throw("invalid type")

ReadString ==
  /\ AtRead
  /\ It.type = "String"
  /\ \E s \in Strings(It.key) :
       /\ Saw(s)
       /\ \/ s = "unknown" /\ Throw("invalid value")
          \/ /\ s # "unknown"
             /\ Returns(At(It.at,
                  CASE It.key = "frame_type" /\ It.at[2] = "slaves" -> SlaveReads(s)
                    [] It.key = "frame_type" /\ It.at[2] = "masters" -> MasterReads(s)
                    [] It.key = "type" -> UnitIdReads(s)
                    [] OTHER -> <<>>))
             /\ UNCHANGED tracePath

(* The exception of asio for a character size has no path. *)
ReadNumber ==
  /\ AtRead
  /\ It.type = "Number"
  /\ \E h \in FileNumbers :
       \/ /\ NumberAccepted(It.key, h)
          /\ last' = [key |-> It.key, at |-> It.at, given |-> "number",
                      number |-> h, value |-> NumberValue(It.key, h)]
          /\ Returns(<<>>)
          /\ UNCHANGED tracePath
       \/ /\ ~NumberAccepted(It.key, h)
          /\ Saw("refused")
          /\ IF It.key = "character_size"
             THEN error' = [what |-> "out of range"] /\ UNCHANGED <<tracePath, todo>>
             ELSE Throw("invalid value")

ReadBoolean ==
  /\ AtRead
  /\ It.type = "Boolean"
  /\ Saw("boolean")
  /\ Returns(<<>>)
  /\ UNCHANGED tracePath

(* ExtractConfigService, ExtractRs485Options. *)
ReadObject ==
  /\ AtRead
  /\ It.type = "Object"
  /\ Saw("object")
  /\ tracePath' = Append(tracePath, It.key)
  /\ Returns(At(Append(It.at, It.key), IF It.key = "service" THEN ServiceReads ELSE Rs485Reads)
             \o <<Leave(Append(It.at, It.key))>>)

(* ExtractSlaves, ExtractMasters, ExtractUnitIdRangeSet. *)
ReadArray ==
  /\ AtRead
  /\ It.type = "Array"
  /\ Saw("array")
  /\ \/ Throw("invalid value")        \* it is empty
     \/ LET place == Append(It.at, It.key)
        IN  /\ tracePath' = Append(tracePath, It.key)
            /\ Returns(Iteration(place, 0) \o <<Leave(place)>>)

(* The loop goes on with the next element, or ends. *)
NextElement ==
  /\ Reading
  /\ It.do = "loop"
  /\ \/ It.index < MaxElements /\ Returns(Iteration(It.at, It.index))
     \/ Returns(<<>>)
  /\ UNCHANGED <<tracePath, last>>

(* The constructor and the destructor of a TraceDeep that spans several    *)
(* reads.                                                                  *)
TraceDeepMade ==
  /\ Reading
  /\ It.do = "enter"
  /\ tracePath' = Append(tracePath, It.key)
  /\ todo' = Tail(todo)
  /\ UNCHANGED <<last, error>>

TraceDeepGone ==
  /\ Reading
  /\ It.do = "leave"
  /\ tracePath' = SubSeq(tracePath, 1, Len(tracePath) - 1)
  /\ todo' = Tail(todo)
  /\ UNCHANGED <<last, error>>

Next ==
  \/ KeyAbsent \/ WrongType
  \/ ReadString \/ ReadNumber \/ ReadBoolean \/ ReadObject \/ ReadArray \/ NextElement
  \/ TraceDeepMade \/ TraceDeepGone

Spec == Init /\ [][Next]_vars
-----------------------------------------------------------------------------
(***************************************************************************)
(* Properties.                                                             *)
(***************************************************************************)

(* The path kept by TraceDeep objects is the place where the program       *)
(* reads, through every early return and loop, and is back at the root in  *)
(* the end; the path that main prints leads to the key that is refused     *)
(* (beyond it for a missing "type", whose key it has twice).               *)
PathIsPlace ==
  /\ Reading => tracePath = It.at
  /\ todo = <<>> => tracePath = <<"config">>
  /\ error.what \notin {"none", "out of range"} =>
       IsPrefix(Append(last.at, last.key), error.path)

(* A number that is accepted under a key with a range is the integer part  *)
(* of the one in the file, and in the range.                               *)
RangedNumberKept ==
  last # Nothing /\ last.given = "number" =>
    /\ last.key = "ip_port" => last.value = last.number \div 2 /\ last.value # 0
    /\ last.key \in {"begin", "end", "value"} =>
         last.value = last.number \div 2 /\ last.value \in UnitIdMin..UnitIdMax
=============================================================================
