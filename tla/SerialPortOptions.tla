------------------------- MODULE SerialPortOptions --------------------------
(***************************************************************************)
(* What the constructors of ModbusRtuMaster and ModbusRtuSlave do to a     *)
(* serial device: open it, set the options of the line one by one, and, in *)
(* the master only (SetOptions, transport/rtu_options.cpp), merge the      *)
(* rs485 options into what the device has.  Each call may fail; it throws, *)
(* and there is no actor.                                                  *)
(***************************************************************************)
EXTENDS Naturals

CONSTANTS
  Flags,     \* the optional flags of Rs485, as keys of the file
  Delays,    \* the optional delays of Rs485
  MaxDelay,  \* greatest delay
  Values     \* of the options of the line

(* The hypothesis of the theorems. *)
SerialAssumption ==
  /\ MaxDelay \in Nat \ {0}
  /\ Flags \cap Delays = {}
  /\ "enabled" \notin Flags \cup Delays

(* The options of the line that are always set, to asio's defaults if the  *)
(* file leaves them out: baud rate, character size, parity, stop bits and  *)
(* flow control, in this order.                                            *)
LineOptions == 5
LineStates  == [1..LineOptions -> Values]

Rs485Keys == Flags \cup Delays

(* What the file gives: a part of the keys. *)
Given == UNION {[K -> 0..MaxDelay] : K \in SUBSET Rs485Keys}
GivenRs485 == {g \in Given : \A f \in DOMAIN g \cap Flags : g[f] \in {0, 1}}

(* struct serial_rs485; a flag is 0 or 1. *)
DeviceStates ==
  {d \in [{"enabled"} \cup Rs485Keys -> 0..MaxDelay] :
     \A f \in {"enabled"} \cup Flags : d[f] \in {0, 1}}

VARIABLES
  kind,      \* which constructor
  options,   \* the value of each option of the line
  rs485,     \* options.rs485, << >> or with one element
  was,       \* history: the device before
  device,    \* the rs485 state of the device
  line,      \* what the line is set to
  lineSet,   \* options of the line set so far
  config,    \* rs485config
  pc

vars == <<kind, options, rs485, was, device, line, lineSet, config, pc>>

input == <<kind, options, rs485, was>>

TypeOK ==
  /\ kind \in {"master", "slave"}
  /\ rs485 \in {<<>>} \cup {<<g>> : g \in GivenRs485}
  /\ {was, device, config} \subseteq DeviceStates
  /\ {options, line} \subseteq LineStates
  /\ lineSet \in 0..LineOptions
  /\ pc \in {"open", "line", "get", "set", "made", "thrown"}

Init ==
  /\ kind \in {"master", "slave"}
  /\ rs485 \in {<<>>} \cup {<<g>> : g \in GivenRs485}
  /\ options \in LineStates
  /\ line \in LineStates
  /\ was \in DeviceStates
  /\ device = was
  /\ lineSet = 0
  /\ config = [k \in DOMAIN was |-> 0]
  /\ pc = "open"
-----------------------------------------------------------------------------
Throw == pc' = "thrown" /\ UNCHANGED <<input, device, line, lineSet, config>>

(* serialPort_.open, which makes the line raw. *)
Open ==
  /\ pc = "open"
  /\ \/ /\ line' \in LineStates
        /\ pc' = "line"
        /\ UNCHANGED <<input, device, lineSet, config>>
     \/ Throw

(* One set_option of the line; it leaves the others as they are. *)
SetLineOption ==
  /\ pc = "line"
  /\ lineSet < LineOptions
  /\ \/ /\ line' = [line EXCEPT ![lineSet + 1] = options[lineSet + 1]]
        /\ lineSet' = lineSet + 1
        /\ UNCHANGED <<pc, input, device, config>>
     \/ Throw

(* Only SetOptions, which the master calls, looks at rs485. *)
LineDone ==
  /\ pc = "line"
  /\ lineSet = LineOptions
  /\ pc' = IF kind = "master" /\ rs485 # <<>> THEN "get" ELSE "made"
  /\ UNCHANGED <<input, device, line, lineSet, config>>

(* TIOCGRS485. *)
ReadDevice(d) == d

(* SER_RS485_ENABLED is set, a flag that is given is set or cleared, a     *)
(* delay that is given replaces the device's.                              *)
Merge(c, g) ==
  [k \in DOMAIN c |-> IF k = "enabled" THEN 1
                      ELSE IF k \in DOMAIN g THEN g[k] ELSE c[k]]

GetRs485 ==
  /\ pc = "get"
  /\ \/ /\ config' = Merge(ReadDevice(device), rs485[1])
        /\ pc' = "set"
        /\ UNCHANGED <<input, device, line, lineSet>>
     \/ Throw

(* TIOCSRS485. *)
SetRs485 ==
  /\ pc = "set"
  /\ \/ /\ device' = config
        /\ pc' = "made"
        /\ UNCHANGED <<input, line, lineSet, config>>
     \/ Throw

Next == Open \/ SetLineOption \/ LineDone \/ GetRs485 \/ SetRs485

Spec == Init /\ [][Next]_vars
-----------------------------------------------------------------------------
(***************************************************************************)
(* Properties.                                                             *)
(***************************************************************************)

(* No actor works on a line that is not as configured: each option of the  *)
(* line has its value and, for a master, RS485 is enabled if the file has  *)
(* rs485, with each of the keys it gives.                                  *)
LineAsConfigured ==
  pc = "made" =>
    /\ line = options
    /\ kind = "master" /\ rs485 # <<>> =>
         device["enabled"] = 1 /\ \A k \in DOMAIN rs485[1] : device[k] = rs485[1][k]

(* "default from device": a key that is not given keeps the device's       *)
(* value, and a constructor that throws leaves all of them.                *)
OthersFromDevice ==
  \A k \in Rs485Keys :
    device[k] # was[k] => pc = "made" /\ rs485 # <<>> /\ k \in DOMAIN rs485[1]
=============================================================================
