------------------------------- MODULE Commands ------------------------------
(***************************************************************************)
(* What a device can be told to do, and the calls to the STM that do it    *)
(* (controller/commands.go, domain/input_events.go).                       *)
(*                                                                         *)
(* A device has a kind, the input or output it is bound to, the input that *)
(* raises it (or NoInput) and the mark of a jalousie in its name.          *)
(***************************************************************************)
EXTENDS Integers, Sequences

CONSTANT NoInput

Press == 2
LongPress == 3
Release == 4
DoublePress == 5

ShortPressEvents == <<Press, Release, DoublePress>>
LongPressEvents  == <<Press, LongPress>>
TipEvents        == <<Press, Release>>

Capabilities(device) ==
    CASE device.kind \in {"light", "outlet"} -> {"on", "off", "toggle"}
      [] device.kind = "shutter" -> {"raise", "stop", "lower"}
            \cup IF device.jalousie THEN {"tiltOpen", "tiltClose"} ELSE {}
      [] device.kind = "scene"  -> {"activate"}
      [] device.kind = "button" -> {"shortPress", "longPress"}
      [] OTHER -> {}

(* The telegram for an output: its bus address and, in one number, the     *)
(* channel and the command.                                                *)
BusAddress(ref) == 64 + ref[2]
Telegram(ref, action) ==
    [call |-> "sendTelegram", address |-> BusAddress(ref),
     content |-> ref[3] * 32 + (CASE action = "on" -> 2
                                       [] action = "off" -> 3
                                       [] OTHER -> 6)]

SimInput(ref, event) == [call |-> "simInputEvent", ref |-> ref, event |-> event]

UpInput(device) == IF device.upRef = NoInput THEN device.ref ELSE device.upRef

InputOf(device, action) ==
    IF action \in {"raise", "tiltOpen"} THEN UpInput(device) ELSE device.ref

EventsOf(action) ==
    CASE action \in {"raise", "lower", "activate", "shortPress"} -> ShortPressEvents
      [] action \in {"stop", "longPress"} -> LongPressEvents
      [] OTHER -> TipEvents

(* What the bus can address: an output of a device (amdBusAddress), an      *)
(* input (sendInputPlan).                                                  *)
IsOutput(ref) == ref[1] = "amd" /\ ref[2] \in 0..63 /\ ref[3] \in 0..63
IsInput(ref)  == ref[1] = "emd" /\ ref[2] >= 0 /\ ref[3] >= 0

(* executeDevice and sendInputPlan: the calls of a command, in order; the  *)
(* first that fails ends it.  None when the address is not one: the        *)
(* command fails without a call.                                           *)
Plan(device, action) ==
    IF action \in {"on", "off", "toggle"}
      THEN IF IsOutput(device.ref) THEN <<Telegram(device.ref, action)>> ELSE <<>>
      ELSE LET ref == InputOf(device, action)
               events == EventsOf(action)
           IN  IF IsInput(ref)
                 THEN [k \in 1..Len(events) |-> SimInput(ref, events[k])]
                 ELSE <<>>

(* pollModule: the state of one module.                                    *)
Poll(address) == <<[call |-> "sendTelegram", address |-> address, content |-> 1]>>
=============================================================================
