------------------------------- MODULE StdAc -------------------------------
(***************************************************************************)
(* src/src/IRsend.h, namespace stdAc: the settings that every remote of an *)
(* air conditioner is described in.  A class Ac... of this project holds   *)
(* the object `ac` of one remote, its setters as operators on that object, *)
(* the way IRac asks it for a state w (what IRac names the function), and  *)
(* toCommon, the state a message of this remote is read as.                *)
(*                                                                         *)
(* A state has only the fields the remote's function in IRac takes; sleep, *)
(* a number of minutes, is TRUE when it is not negative unless the remote  *)
(* uses the number.                                                        *)
(***************************************************************************)
EXTENDS Integers, FiniteSets

opmode_t == {"Off", "Auto", "Cool", "Heat", "Dry", "Fan"}

fanspeed_t == {"Auto", "Min", "Low", "Medium", "High", "Max", "MediumHigh"}

swingv_t == {"Off", "Auto", "Highest", "High", "Middle", "Low", "Lowest",
             "UpperMiddle"}

swingh_t == {"Off", "Auto", "LeftMax", "Left", "Middle", "Right", "RightMax",
             "Wide"}

(* The number behind an enumerator, where the code computes with it. *)
FanNumber(f) ==
    CASE f = "Auto" -> 0 [] f = "Min" -> 1 [] f = "Low" -> 2
      [] f = "Medium" -> 3 [] f = "High" -> 4 [] f = "Max" -> 5
      [] f = "MediumHigh" -> 6

FanOfNumber(n) == CHOOSE f \in fanspeed_t : FanNumber(f) = n

(* std::min and std::max around a temperature. *)
AtMost(a, b) == IF a < b THEN a ELSE b
AtLeast(a, b) == IF a > b THEN a ELSE b
Clamp(x, low, high) == AtMost(AtLeast(x, low), high)

(* Temperatures worth asking for: the limits, one beyond each, the middle. *)
Around(low, high) == {low - 1, low, (low + high) \div 2, high, high + 1}

OnOff(b) == IF b THEN "Auto" ELSE "Off"

(***************************************************************************)
(* What a remote must not do to a state it has been asked to send again:   *)
(* change it, if it switches the unit on, but for the settings in `lost`.  *)
(***************************************************************************)
SameState(before, after, lost) ==
    IF before.power
      THEN \A f \in DOMAIN before \ lost : after[f] = before[f]
      ELSE ~after.power
=============================================================================
