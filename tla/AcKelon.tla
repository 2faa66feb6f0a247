------------------------------- MODULE AcKelon --------------------------------
(***************************************************************************)
(* Kelon's remotes: one object of one of the classes, `Kelon', `Kelon168'. *)
(* What belongs to a class has its name in front, as in Kelon_Next; after it*)
(* come the names of the source.                                           *)
(***************************************************************************)
EXTENDS StdAc

VARIABLES
    remote,    \* the class
    ac         \* its object

-----------------------------------------------------------------------------
(***************************************************************************)
(* ir_Kelon.h, ir_Kelon.cpp, class IRKelonAc: changes of mode bring back   *)
(* the temperature, fan and mode of before, which are kept in the object.  *)
(***************************************************************************)
Kelon_Modes == {"Heat", "Smart", "Cool", "Dry", "Fan"}
Kelon_FanAuto == 0
Kelon_FanMax == 3
Kelon_MinTemp == 18
Kelon_MaxTemp == 32
Kelon_DryGrades == -2..2

Kelon_Object == [Mode : Kelon_Modes, Temperature : 0..15, Fan : 0..3, Smart : BOOLEAN,
                 Super : BOOLEAN, Sleep : BOOLEAN, DryGrade : Kelon_DryGrades,
                 PowerToggle : BOOLEAN, SwingVToggle : BOOLEAN,
                 TimerEnabled : BOOLEAN, Half : 0..1, Hours : 0..63,
                 previousMode : Kelon_Modes, previousTemp : 0..Kelon_MinTemp,
                 previousFan : 0..3]

(* previousTemp starts as a number of degrees, 18, and is later the value  *)
(* of the message's field, degrees above 18.                               *)
Kelon_stateReset == [Mode |-> "Heat", Temperature |-> 0, Fan |-> 0, Smart |-> FALSE,
                     Super |-> FALSE, Sleep |-> FALSE, DryGrade |-> 0,
                     PowerToggle |-> FALSE, SwingVToggle |-> FALSE,
                     TimerEnabled |-> FALSE, Half |-> 0, Hours |-> 0,
                     previousMode |-> "Heat", previousTemp |-> Kelon_MinTemp,
                     previousFan |-> Kelon_FanAuto]

Kelon_setTogglePower(a, on) == [a EXCEPT !.PowerToggle = on]
Kelon_setToggleSwingVertical(a, on) == [a EXCEPT !.SwingVToggle = on]
Kelon_setSleep(a, on) == [a EXCEPT !.Sleep = on]
Kelon_setTimerEnabled(a, on) == [a EXCEPT !.TimerEnabled = on]
Kelon_setDryGrade(a, grade) == [a EXCEPT !.DryGrade = Clamp(grade, -2, 2)]

Kelon_setTemp(a, degrees) ==
    [a EXCEPT !.previousTemp = a.Temperature,
              !.Temperature = Clamp(degrees, Kelon_MinTemp, Kelon_MaxTemp) - Kelon_MinTemp]
Kelon_getTemp(a) == a.Temperature + Kelon_MinTemp

(* The speeds count backwards in the message. *)
Kelon_setFan(a, speed) ==
    [a EXCEPT !.previousFan = a.Fan,
              !.Fan = (4 - AtMost(speed, Kelon_FanMax)) % 4]
Kelon_getFan(a) == (4 - a.Fan) % 4

(* What is undone before the new mode is set; Temperature has four bits. *)
Kelon_Restored(a) ==
    LET temp == a.previousTemp % 16 IN
    CASE a.Super -> [a EXCEPT !.Super = FALSE, !.Temperature = temp,
                              !.Fan = a.previousFan]
      [] a.Mode \in {"Smart", "Fan", "Dry"} -> [a EXCEPT !.Temperature = temp]
      [] OTHER -> a

Kelon_setMode(a, mode) ==
    LET b == [Kelon_Restored(a) EXCEPT !.previousMode = a.Mode, !.Smart = FALSE] IN
    CASE mode = "Smart" -> [Kelon_setTemp(b, 26) EXCEPT !.Smart = TRUE, !.Mode = mode]
      [] mode \in {"Dry", "Fan"} -> [Kelon_setTemp(b, 25) EXCEPT !.Mode = mode]
      [] mode \in {"Cool", "Heat"} -> [b EXCEPT !.Mode = mode]
      [] OTHER -> b

Kelon_setSupercool(a, on) ==
    LET b == IF on THEN Kelon_setFan(Kelon_setMode(Kelon_setTemp(a, Kelon_MinTemp), "Cool"),
                                     Kelon_FanMax)
                   ELSE Kelon_setMode(a, a.previousMode)
    IN [b EXCEPT !.Super = on]

(* Half hours up to ten, whole ones after: 20 to 34 stand for those. *)
Kelon_setTimer(a, mins) ==
    LET m == AtMost(mins, 24 * 60)
        late == m \div 60 + 10
        b == Kelon_setTimerEnabled(a, TRUE)
    IN IF m \div 60 >= 10
         THEN [b EXCEPT !.Half = late % 2, !.Hours = late \div 2]
         ELSE [b EXCEPT !.Half = IF m % 60 >= 30 THEN 1 ELSE 0,
                        !.Hours = m \div 60]

Kelon_getTimer(a) ==
    IF a.Hours >= 10 THEN (2 * a.Hours + a.Half - 10) * 60
                     ELSE a.Hours * 60 + 30 * a.Half

(* What a send leaves: the toggles and the time have been told. *)
Kelon_send(a) == [a EXCEPT !.PowerToggle = FALSE, !.SwingVToggle = FALSE,
                           !.Hours = 0, !.Half = 0]

(* Smart switches the unit on whatever it was: go there and back, then off.*)
Kelon_ensurePower(a, on) ==
    LET smart == Kelon_send(Kelon_setMode(Kelon_setDryGrade(a, 2), "Smart"))
        back == Kelon_send(Kelon_setMode(Kelon_setDryGrade(smart, a.DryGrade),
                                         smart.previousMode))
    IN IF on THEN back ELSE Kelon_send(Kelon_setTogglePower(back, TRUE))

Kelon_convertMode(mode) ==
    IF mode \in {"Cool", "Heat", "Dry", "Fan"} THEN mode ELSE "Smart"
Kelon_toCommonMode(mode) == IF mode = "Smart" THEN "Auto" ELSE mode

Kelon_convertFan(fan) ==
    CASE fan \in {"Min", "Low"} -> 1 [] fan = "Medium" -> 2
      [] fan \in {"High", "Max"} -> Kelon_FanMax [] OTHER -> Kelon_FanAuto

Kelon_toCommonFanSpeed(speed) ==
    CASE speed = 1 -> "Low" [] speed = 2 -> "Medium" [] speed = Kelon_FanMax -> "High"
      [] OTHER -> "Auto"

(* before: power and vertical swing of the state it was received in. *)
Kelon_toCommon(a, before) ==
    [power |-> before.power # a.PowerToggle, mode |-> Kelon_toCommonMode(a.Mode),
     degrees |-> Kelon_getTemp(a), fan |-> Kelon_toCommonFanSpeed(Kelon_getFan(a)),
     swingv |-> IF (before.swingv # "Auto") # a.SwingVToggle
                  THEN "Off" ELSE "Auto",
     turbo |-> a.Super, sleep |-> a.Sleep]

(* The two toggles are what IRac makes of the wish and the state before.   *)
Kelon_kelon(w, togglePower, toggleSwing) ==
    LET asked == Kelon_setSleep(Kelon_setTemp(Kelon_setFan(Kelon_setMode(Kelon_stateReset,
                                                                         Kelon_convertMode(w.mode)),
                                                           Kelon_convertFan(w.fan)), w.degrees),
                                w.sleep)
        graded == Kelon_setDryGrade(Kelon_setSupercool(asked, w.turbo), 0)
    IN Kelon_setToggleSwingVertical(Kelon_setTogglePower(graded, togglePower), toggleSwing)

Kelon_Wishes == [power : {TRUE}, mode : opmode_t,
                 degrees : {17, 33}, fan : {"Auto", "Max"},
                 swingv : {"Off"}, turbo : BOOLEAN, sleep : {TRUE}]

Kelon_Init == ac \in {Kelon_stateReset} \cup {Kelon_kelon(w, TRUE, FALSE) : w \in Kelon_Wishes}

Kelon_Next ==
    \/ \E m \in Kelon_Modes : ac' = Kelon_setMode(ac, m)
    \/ ac' = Kelon_setTemp(ac, 23)
    \/ ac' = Kelon_setFan(ac, 3)
    \/ \E on \in BOOLEAN : ac' = Kelon_setSupercool(ac, on)
    \/ ac' = Kelon_setSleep(ac, TRUE)
    \/ ac' = Kelon_setDryGrade(ac, -3)
    \/ ac' = Kelon_setTimer(ac, 630)
    \/ ac' = Kelon_setTimerEnabled(ac, FALSE)
    \/ ac' = Kelon_setToggleSwingVertical(ac, TRUE)
    \/ ac' = Kelon_setTogglePower(ac, TRUE)
    \/ ac' = Kelon_send(ac)
    \/ \E on \in BOOLEAN : ac' = Kelon_ensurePower(ac, on)

Kelon_TypeOK == ac \in Kelon_Object

(* Smart is told twice alike; supercool cools, until a mode is asked for;  *)
(* ensurePower comes back to the mode and the dry grade it started from,   *)
(* in Heat and Cool, without supercool, to the temperature, too; and a     *)
(* timer is told to the half hour, after ten hours to the hour.            *)
Kelon_Rules ==
    /\ ac.Smart = (ac.Mode = "Smart")
    /\ ac.Super => ac.Mode = "Cool"
    /\ \A on \in BOOLEAN :
         LET after == Kelon_ensurePower(ac, on) IN
         /\ after.Mode = ac.Mode
         /\ after.DryGrade = ac.DryGrade
         /\ ac.Mode \in {"Heat", "Cool"} /\ ~ac.Super =>
              after.Temperature = ac.Temperature
    /\ \A h \in 0..9 : Kelon_getTimer(Kelon_setTimer(ac, 60 * h + 59)) = 60 * h + 30
    /\ \A h \in 10..24 : Kelon_getTimer(Kelon_setTimer(ac, 60 * h)) = 60 * h

(* A state that was read is sent as it was read, mode and temperature      *)
(* excepted.  Without supercool IRac's function switches supercool off,    *)
(* which goes back to the mode before: Heat, whatever it was asked for.    *)
(* With it, the fan is the fastest and the temperature is the lowest only  *)
(* from Heat or Cool.                                                      *)
Kelon_Rereads ==
    \A power \in BOOLEAN, swing \in {"Off", "Auto"}, on \in BOOLEAN :
      LET before == [power |-> power, swingv |-> swing]
          read == [Kelon_toCommon(ac, before) EXCEPT !.turbo = on]
          sent == Kelon_kelon(read, before.power # read.power,
                              before.swingv # read.swingv)
          again == Kelon_toCommon(sent, before)
      IN /\ SameState(read, again,
                      {"mode", "degrees"} \cup (IF on THEN {"fan"} ELSE {}))
         /\ sent.Mode = IF on THEN "Cool" ELSE "Heat"
         /\ ~on /\ ac.Mode \in {"Heat", "Cool"} => again.degrees = read.degrees

-----------------------------------------------------------------------------
(***************************************************************************)
(* ir_Kelon.h, ir_Kelon.cpp, class IRKelon168Ac: a message carries the     *)
(* settings and the button (Cmd) that changed them.  IRac does not ask for *)
(* it: only setters and toCommon.                                          *)
(***************************************************************************)
Kelon168_Modes == {"Heat", "Auto", "Cool", "Dry", "Fan"}
Kelon168_Commands == {"Light", "Power", "Temp", "Sleep", "Super", "OnTimer", "Mode",
                      "Swing", "IFeel", "FanSpeed", "OffTimer"}
Kelon168_FanAuto == 0
Kelon168_FanMin == 1
Kelon168_FanLow == 2
Kelon168_FanMedium == 3
Kelon168_FanHigh == 4
Kelon168_FanMax == 5
Kelon168_MinTemp == 16
Kelon168_MaxTemp == 32
Kelon168_AutoTemp == 23

Kelon168_Object == [Power : BOOLEAN, On : BOOLEAN, Mode : Kelon168_Modes, Temp : 0..15,
                    desired : 0..255, Fan : 0..3, Fan2 : 0..1, Sleep : BOOLEAN,
                    Swing : BOOLEAN, Super : BOOLEAN, LightOff : BOOLEAN,
                    Clock : 0..1439, OnAt : 0..1439, OffAt : 0..1439,
                    OnTimerEnabled : BOOLEAN, OffTimerEnabled : BOOLEAN,
                    Cmd : Kelon168_Commands]

Kelon168_Press(a, command) == [a EXCEPT !.Cmd = command]
Kelon168_setCommand(a, code) == [a EXCEPT !.Cmd = code]

(* Temp has four bits: the maximum of 32 is 16 above the minimum. *)
Kelon168__setTemp(a, temp, remember) ==
    [a EXCEPT !.desired = IF remember THEN temp ELSE @,
              !.Temp = (Clamp(temp, Kelon168_MinTemp,
                              Kelon168_MaxTemp) - Kelon168_MinTemp) % 16]
Kelon168_getTemp(a) == a.Temp + Kelon168_MinTemp

Kelon168_SuperOff(a) == Kelon168_Press([a EXCEPT !.Super = FALSE], "Super")

Kelon168_setTemp(a, temp) == Kelon168_Press(Kelon168_SuperOff(Kelon168__setTemp(a, temp, TRUE)),
                                            "Temp")

Kelon168_FanBits(a, fan, fan2) == [a EXCEPT !.Fan = fan, !.Fan2 = fan2]

Kelon168_setFan(a, speed) ==
    LET b == CASE speed = Kelon168_FanAuto -> Kelon168_FanBits(a, 0, 0)
               [] speed = Kelon168_FanMin -> Kelon168_FanBits(a, 3, 0)
               [] speed = Kelon168_FanLow -> Kelon168_FanBits(a, 3, 1)
               [] speed = Kelon168_FanMedium -> Kelon168_FanBits(a, 2, 0)
               [] speed = Kelon168_FanHigh -> Kelon168_FanBits(a, 1, 1)
               [] speed = Kelon168_FanMax -> Kelon168_FanBits(a, 1, 0)
               [] OTHER -> a
    IN Kelon168_Press(Kelon168_SuperOff(b), "FanSpeed")

Kelon168_getFan(a) ==
    CASE a.Fan = 1 -> IF a.Fan2 = 0 THEN Kelon168_FanMax ELSE Kelon168_FanHigh
      [] a.Fan = 2 -> Kelon168_FanMedium
      [] a.Fan = 3 -> IF a.Fan2 = 0 THEN Kelon168_FanMin ELSE Kelon168_FanLow
      [] OTHER -> Kelon168_FanAuto

Kelon168_setSleep(a, on) ==
    LET b == [a EXCEPT !.Sleep = on] IN
    Kelon168_Press(IF on THEN Kelon168_setFan(b, Kelon168_FanLow) ELSE b, "Sleep")

Kelon168__setMode(a, mode) ==
    LET b == Kelon168_setSleep(Kelon168__setTemp(Kelon168_setFan(a, Kelon168_FanAuto),
                                                 Kelon168_AutoTemp, FALSE), FALSE) IN
    CASE mode = "Auto" -> Kelon168_Press([b EXCEPT !.Mode = mode], "IFeel")
      [] mode \in Kelon168_Modes -> Kelon168_Press([a EXCEPT !.Mode = mode], "Mode")
      [] OTHER -> a

Kelon168_setMode(a, mode) == Kelon168__setMode(Kelon168_SuperOff(a), mode)

(* Its temperatures are those of the smaller remote: 18 is not the lowest. *)
Kelon168_setSuper(a, on) ==
    LET b == Kelon168_setFan(a, Kelon168_FanHigh)
        c == IF a.Mode = "Heat" THEN Kelon168_setTemp(b, 32)
                                ELSE Kelon168_setMode(Kelon168_setTemp(b, 18), "Cool")
    IN IF on THEN Kelon168_Press([c EXCEPT !.Super = TRUE], "Super") ELSE Kelon168_SuperOff(a)

Kelon168_setSwing(a, on) == Kelon168_Press([a EXCEPT !.Swing = on], "Swing")
Kelon168_setLight(a, on) == [a EXCEPT !.LightOff = ~on]

(* The bit Power asks the unit to change, On tells it to what. *)
Kelon168_setPower(a, on) ==
    Kelon168_Press(Kelon168_SuperOff([a EXCEPT !.Power = TRUE, !.On = on]), "Power")

Kelon168_SetTime(mins) == 60 * ((mins \div 60) % 24) + (mins % 60)
Kelon168_setClock(a, mins) == [a EXCEPT !.Clock = Kelon168_SetTime(mins)]
Kelon168_setOnTimer(a, mins) == [a EXCEPT !.OnAt = Kelon168_SetTime(mins)]
Kelon168_setOffTimer(a, mins) == [a EXCEPT !.OffAt = Kelon168_SetTime(mins)]
Kelon168_enableOnTimer(a, on) == Kelon168_Press([a EXCEPT !.OnTimerEnabled = on], "OnTimer")
Kelon168_enableOffTimer(a, on) == Kelon168_Press([a EXCEPT !.OffTimerEnabled = on], "OffTimer")

(* All zero but for the remote's number, in which the unit is off. *)
Kelon168_stateReset ==
    Kelon168__setTemp([Power |-> FALSE, On |-> FALSE, Mode |-> "Heat", Temp |-> 0,
                       desired |-> 0, Fan |-> 0, Fan2 |-> 0, Sleep |-> FALSE,
                       Swing |-> FALSE, Super |-> FALSE, LightOff |-> FALSE,
                       Clock |-> 0, OnAt |-> 0, OffAt |-> 0, OnTimerEnabled |-> FALSE,
                       OffTimerEnabled |-> FALSE, Cmd |-> "Light"], Kelon168_AutoTemp, TRUE)

Kelon168_convertMode(mode) ==
    IF mode \in {"Auto", "Heat", "Dry", "Fan"} THEN mode ELSE "Cool"
Kelon168_toCommonMode(mode) == mode

Kelon168_convertFan(speed) ==
    CASE speed = "Min" -> Kelon168_FanMin [] speed = "Low" -> Kelon168_FanLow
      [] speed = "Medium" -> Kelon168_FanMedium [] speed = "High" -> Kelon168_FanHigh
      [] speed = "Max" -> Kelon168_FanMax [] OTHER -> Kelon168_FanAuto

Kelon168_toCommonFanSpeed(speed) ==
    CASE speed = Kelon168_FanMax -> "Max" [] speed = Kelon168_FanHigh -> "High"
      [] speed = Kelon168_FanMedium -> "Medium" [] speed = Kelon168_FanLow -> "Low"
      [] speed = Kelon168_FanMin -> "Min" [] OTHER -> "Auto"

(* before: the power of the state it was received in.  The fan is looked   *)
(* up by the two bits in the message, not by the speed getFan makes of it. *)
Kelon168_toCommon(a, before) ==
    [power |-> before # a.Power, mode |-> Kelon168_toCommonMode(a.Mode),
     degrees |-> Kelon168_getTemp(a), fan |-> Kelon168_toCommonFanSpeed(a.Fan),
     swingv |-> OnOff(a.Swing), turbo |-> a.Super, light |-> ~a.LightOff,
     sleep |-> a.Sleep]

Kelon168_Init == ac = Kelon168_stateReset

Kelon168_Next ==
    \/ \E m \in {"Auto", "Heat", "Dry", "?"} : ac' = Kelon168_setMode(ac, m)
    \/ \E t \in {15, 32} : ac' = Kelon168_setTemp(ac, t)
    \/ \E f \in {Kelon168_FanMin, Kelon168_FanMax, 6} : ac' = Kelon168_setFan(ac, f)
    \/ \E on \in BOOLEAN : ac' = Kelon168_setSuper(ac, on)
    \/ \E on \in BOOLEAN : ac' = Kelon168_setSleep(ac, on)
    \/ \E on \in BOOLEAN : ac' = Kelon168_setPower(ac, on)
    \/ ac' = Kelon168_setSwing(ac, FALSE)
    \/ ac' = Kelon168_setLight(ac, TRUE)
    \/ ac' = Kelon168_setClock(ac, 1440) \/ ac' = Kelon168_setOnTimer(ac, 1440)
    \/ ac' = Kelon168_setOffTimer(ac, 1439)
    \/ ac' = Kelon168_enableOnTimer(ac, TRUE) \/ ac' = Kelon168_enableOffTimer(ac, FALSE)
    \/ ac' = Kelon168_setCommand(ac, "Light")

Kelon168_TypeOK == ac \in Kelon168_Object

(* Super is Heat or Cool with the fan high, at what is meant to be the     *)
(* extreme: heating at 16, since 32 does not fit the message, and cooling  *)
(* at 18, which is not the lowest.  A speed that was set is read back.     *)
Kelon168_Rules ==
    /\ ac.Super => /\ ac.Mode \in {"Heat", "Cool"}
                   /\ Kelon168_getFan(ac) = Kelon168_FanHigh
                   /\ Kelon168_getTemp(ac) = IF ac.Mode = "Heat" THEN 16 ELSE 18
    /\ \A f \in Kelon168_FanAuto..Kelon168_FanMax : Kelon168_getFan(Kelon168_setFan(ac, f)) = f
    /\ ac.Mode = "Auto" /\ ac.Cmd = "IFeel" => ~ac.Sleep /\ ~ac.Super

(* What is read of a state, set again, gives the state but for the button, *)
(* the timers and the fan, whose speeds are read as other ones: a minimum  *)
(* as a medium speed and a maximum as the minimum.                         *)
Kelon168_Rereads ==
    LET read == Kelon168_toCommon(ac, FALSE)
        again == Kelon168_setTemp(Kelon168_setMode(ac, Kelon168_convertMode(read.mode)),
                                  read.degrees)
    IN /\ again.Mode = ac.Mode
       /\ again.Temp = ac.Temp
       /\ read.fan = CASE Kelon168_getFan(ac) \in {Kelon168_FanMin, Kelon168_FanLow} -> "Medium"
                       [] Kelon168_getFan(ac) = Kelon168_FanMedium -> "Low"
                       [] Kelon168_getFan(ac) \in {Kelon168_FanHigh, Kelon168_FanMax} -> "Min"
                       [] OTHER -> "Auto"

-----------------------------------------------------------------------------
Init ==
    \/ remote = "Kelon" /\ Kelon_Init
    \/ remote = "Kelon168" /\ Kelon168_Init

Next ==
    /\ UNCHANGED remote
    /\ \/ remote = "Kelon" /\ Kelon_Next
       \/ remote = "Kelon168" /\ Kelon168_Next

Spec == Init /\ [][Next]_<<remote, ac>>

(* The object stays one that its message can carry. *)
TypeOK ==
    CASE remote = "Kelon" -> Kelon_TypeOK
      [] remote = "Kelon168" -> Kelon168_TypeOK
      [] OTHER -> TRUE

(* What a class says of its settings together, see there. *)
Rules ==
    CASE remote = "Kelon" -> Kelon_Rules
      [] remote = "Kelon168" -> Kelon168_Rules
      [] OTHER -> TRUE

(* A state that was read from a message is sent as it was read, see there. *)
Rereads ==
    CASE remote = "Kelon" -> Kelon_Rereads
      [] remote = "Kelon168" -> Kelon168_Rereads
      [] OTHER -> TRUE
=============================================================================
