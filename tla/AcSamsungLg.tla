----------------------------- MODULE AcSamsungLg ------------------------------
(***************************************************************************)
(* The remotes of Samsung and LG: one object of one of the classes,        *)
(* `Samsung', `SamsungSend', `Lg'. What belongs to a class has its name in *)
(* front, as in Samsung_Next; after it come the names of the source.       *)
(***************************************************************************)
EXTENDS StdAc

VARIABLES
    remote,    \* the class
    ac         \* its object

-----------------------------------------------------------------------------
(***************************************************************************)
(* ir_Samsung.h, ir_Samsung.cpp: powerful, breeze and econo share a field  *)
(* and each of them needs a fan and a swing of its own; the automatic fan  *)
(* has a code of its own in Auto.  What is sent, and the timers: see the   *)
(* class SamsungSend.                                                      *)
(***************************************************************************)
Samsung_Modes == {"Auto", "Cool", "Dry", "Fan", "Heat"}
Samsung_Fans == {"Auto", "Low", "Med", "High", "Auto2", "Turbo"}

Samsung_Object == [Power : BOOLEAN, Mode : Samsung_Modes, Fan : Samsung_Fans, Temp : 0..14,
                   Swing : {"Off", "V", "H", "Both"},
                   FanSpecial : {"Off", "Powerful", "Breeze", "Econo"},
                   Quiet : BOOLEAN, flags : SUBSET {"Beep", "Clean", "Display", "Ion"}]

(* 02 92 0F 00 00 00 F0 01 02 AE 71 00 15 F0. *)
Samsung_stateReset == [Power |-> TRUE, Mode |-> "Cool", Fan |-> "Low", Temp |-> 0,
                       Swing |-> "V", FanSpecial |-> "Off", Quiet |-> FALSE,
                       flags |-> {"Display"}]

Samsung_setPower(a, on) == [a EXCEPT !.Power = on]
Samsung_setTemp(a, temp) == [a EXCEPT !.Temp = Clamp(temp, 16, 30) - 16]

Samsung_setMode(a, mode) ==
    LET m == IF mode \in Samsung_Modes THEN mode ELSE "Auto" IN
    [a EXCEPT !.Mode = m,
              !.Fan = CASE m = "Auto" -> "Auto2"
                        [] m # "Auto" /\ @ = "Auto2" -> "Auto"
                        [] OTHER -> @]

Samsung_setFan(a, speed) ==
    IF speed \in Samsung_Fans /\ (speed = "Auto2" <=> a.Mode = "Auto")
      THEN [a EXCEPT !.Fan = speed] ELSE a

Samsung_getSwing(a) == a.Swing \in {"V", "Both"}
Samsung_getSwingH(a) == a.Swing \in {"H", "Both"}

Samsung_SwingOf(v, h) == CASE v /\ h -> "Both" [] v /\ ~h -> "V" [] ~v /\ h -> "H"
                           [] OTHER -> "Off"

Samsung_setSwing(a, on) == [a EXCEPT !.Swing = Samsung_SwingOf(on, Samsung_getSwingH(a))]
Samsung_setSwingH(a, on) == [a EXCEPT !.Swing = Samsung_SwingOf(Samsung_getSwing(a), on)]

(* setBeep, setClean, setDisplay, setIon. *)
Samsung_setFlag(a, flag, on) ==
    [a EXCEPT !.flags = IF on THEN @ \cup {flag} ELSE @ \ {flag}]

Samsung_getPowerful(a) == a.FanSpecial = "Powerful" /\ a.Fan = "Turbo"
Samsung_getBreeze(a) == a.FanSpecial = "Breeze" /\ a.Fan = "Auto" /\ ~Samsung_getSwing(a)
Samsung_getEcono(a) == a.FanSpecial = "Econo" /\ a.Fan = "Auto" /\ Samsung_getSwing(a)

(* Switching one off leaves the field to another that is really on. *)
Samsung_Unless(a, other) == IF other THEN a.FanSpecial ELSE "Off"

Samsung_setPowerful(a, on) ==
    LET b == [a EXCEPT !.FanSpecial =
                IF on THEN "Powerful" ELSE Samsung_Unless(a, Samsung_getBreeze(a) \/ Samsung_getEcono(a))]
    IN IF on THEN [Samsung_setFan(b, "Turbo") EXCEPT !.Quiet = FALSE] ELSE b

Samsung_setQuiet(a, on) ==
    LET b == [a EXCEPT !.Quiet = on] IN
    IF on THEN Samsung_setPowerful(Samsung_setFan(b, "Auto"), FALSE) ELSE b

Samsung_setBreeze(a, on) ==
    LET b == [a EXCEPT !.FanSpecial =
                IF on THEN "Breeze" ELSE Samsung_Unless(a, Samsung_getPowerful(a) \/ Samsung_getEcono(a))]
    IN IF on THEN Samsung_setSwing(Samsung_setFan(b, "Auto"), FALSE) ELSE b

Samsung_setEcono(a, on) ==
    LET b == [a EXCEPT !.FanSpecial =
                IF on THEN "Econo" ELSE Samsung_Unless(a, Samsung_getBreeze(a) \/ Samsung_getPowerful(a))]
    IN IF on THEN Samsung_setSwing(Samsung_setFan(b, "Auto"), TRUE) ELSE b

Samsung_convertMode(mode) ==
    IF mode \in {"Cool", "Heat", "Dry", "Fan"} THEN mode ELSE "Auto"

Samsung_convertFan(fan) ==
    CASE fan \in {"Min", "Low"} -> "Low" [] fan = "Medium" -> "Med"
      [] fan = "High" -> "High" [] fan = "Max" -> "Turbo" [] OTHER -> "Auto"

Samsung_toCommonFanSpeed(fan) ==
    CASE fan = "Turbo" -> "Max" [] fan = "High" -> "High"
      [] fan = "Med" -> "Medium" [] fan = "Low" -> "Min" [] OTHER -> "Auto"

Samsung_toCommon(a) ==
    [power |-> a.Power, mode |-> a.Mode, degrees |-> a.Temp + 16,
     fan |-> Samsung_toCommonFanSpeed(a.Fan), swingv |-> OnOff(Samsung_getSwing(a)),
     swingh |-> OnOff(Samsung_getSwingH(a)), quiet |-> a.Quiet,
     turbo |-> Samsung_getPowerful(a), econo |-> Samsung_getEcono(a), flags |-> a.flags]

(* The mode a second time: it can change the fan. *)
Samsung_samsung(w) ==
    LET moded == Samsung_setMode(Samsung_setPower(Samsung_stateReset, w.power),
                                 Samsung_convertMode(w.mode))
        fanned == Samsung_setFan(Samsung_setTemp(moded, w.degrees), Samsung_convertFan(w.fan))
        swung == Samsung_setSwingH(Samsung_setSwing(fanned, w.swingv # "Off"), w.swingh # "Off")
        special == Samsung_setEcono(Samsung_setPowerful(Samsung_setQuiet(swung, w.quiet),
                                                        w.turbo),
                                    w.econo)
    IN [Samsung_setMode(special, Samsung_convertMode(w.mode)) EXCEPT !.flags = w.flags]

Samsung_Wishes == [power : BOOLEAN, mode : {"Auto", "Cool", "Fan"}, degrees : {15, 31},
                   fan : fanspeed_t, swingv : {"Off", "Low"}, swingh : {"Off", "Left"},
                   quiet : BOOLEAN, turbo : BOOLEAN, econo : BOOLEAN,
                   flags : {{"Clean", "Display"}}]

Samsung_Init == ac \in {Samsung_stateReset} \cup {Samsung_samsung(w) : w \in Samsung_Wishes}

Samsung_Next ==
    \/ \E on \in BOOLEAN : ac' = Samsung_setPower(ac, on)
    \/ \E m \in {"Cool", "?"} : ac' = Samsung_setMode(ac, m)
    \/ \E t \in {31} : ac' = Samsung_setTemp(ac, t)
    \/ \E f \in Samsung_Fans \cup {"?"} : ac' = Samsung_setFan(ac, f)
    \/ \E on \in BOOLEAN : ac' = Samsung_setSwing(ac, on)
    \/ \E on \in BOOLEAN : ac' = Samsung_setSwingH(ac, on)
    \/ \E on \in BOOLEAN : ac' = Samsung_setQuiet(ac, on)
    \/ \E on \in BOOLEAN : ac' = Samsung_setPowerful(ac, on)
    \/ \E on \in BOOLEAN : ac' = Samsung_setBreeze(ac, on)
    \/ \E on \in BOOLEAN : ac' = Samsung_setEcono(ac, on)
    \/ \E on \in BOOLEAN : ac' = Samsung_setFlag(ac, "Display", on)

Samsung_TypeOK == ac \in Samsung_Object

(* The second automatic fan is that of Auto and of no other mode, in       *)
(* whatever order the settings come; at most one of powerful, breeze and   *)
(* econo is on, and none of them in Auto, which has not the fan they need. *)
Samsung_Rules ==
    /\ ac.Fan = "Auto2" <=> ac.Mode = "Auto"
    /\ ac.Mode = "Auto" => ~(Samsung_getPowerful(ac) \/ Samsung_getBreeze(ac) \/ Samsung_getEcono(ac))

(* A state that was read is sent as it was read; quiet and econo bring an  *)
(* automatic fan and quiet ends powerful, though a speed set later did not *)
(* end them on the other remote.                                           *)
Samsung_Rereads ==
    SameState(Samsung_toCommon(ac), Samsung_toCommon(Samsung_samsung(Samsung_toCommon(ac))),
              IF ac.Quiet THEN {"fan", "quiet", "turbo", "econo"} ELSE {})

-----------------------------------------------------------------------------
(***************************************************************************)
(* ir_Samsung.h, ir_Samsung.cpp: power, timers and sleep are told in an    *)
(* extended message, which is sent only when one of them changed.  `told`  *)
(* is what the unit knows of them from the last message that has them.     *)
(***************************************************************************)
SamsungSend_Day == 24 * 60
SamsungSend_Minutes == {10 * n : n \in 0..144}

SamsungSend_Object ==
    [Power : BOOLEAN, OnTimer : SamsungSend_Minutes, OffTimer : SamsungSend_Minutes,
     Sleep : BOOLEAN,
     lastsentpowerstate : BOOLEAN, lastOnTimer : SamsungSend_Minutes,
     lastOffTimer : SamsungSend_Minutes, lastSleep : BOOLEAN, forceextended : BOOLEAN,
     told : [Power : BOOLEAN, OnTimer : SamsungSend_Minutes, OffTimer : SamsungSend_Minutes,
             Sleep : BOOLEAN]]

(* stateReset(extended, initialPower), for a unit with that power and no   *)
(* timer.                                                                  *)
SamsungSend_stateReset(extended, initialPower) ==
    [Power |-> initialPower, OnTimer |-> 0, OffTimer |-> 0, Sleep |-> FALSE,
     lastsentpowerstate |-> initialPower, lastOnTimer |-> 0,
     lastOffTimer |-> 0, lastSleep |-> FALSE, forceextended |-> extended,
     told |-> [Power |-> initialPower, OnTimer |-> 0, OffTimer |-> 0,
               Sleep |-> FALSE]]

SamsungSend_setPower(a, on) == [a EXCEPT !.Power = on]

SamsungSend_TimerResolution(mins) == AtMost(mins, SamsungSend_Day) - (AtMost(mins, SamsungSend_Day) % 10)

SamsungSend_setOnTimer(a, mins) ==
    LET t == SamsungSend_TimerResolution(mins) IN
    [a EXCEPT !.OnTimer = t, !.Sleep = @ /\ t = 0]

SamsungSend_setOffTimer(a, mins) ==
    LET t == SamsungSend_TimerResolution(mins) IN
    [a EXCEPT !.OffTimer = t, !.Sleep = @ /\ t = 0]

SamsungSend_setSleepTimer(a, mins) ==
    LET t == SamsungSend_TimerResolution(mins) IN
    [(IF t > 0 THEN SamsungSend_setOnTimer(a, 0) ELSE a)
       EXCEPT !.OffTimer = t, !.Sleep = t > 0]

(* Hours and tens of minutes, 24 hours by a bit of its own: all of Minutes *)
(* comes back as it went (_setOnTimer, _getOnTimer).                       *)
SamsungSend_sendExtended(a) ==
    [a EXCEPT !.lastsentpowerstate = a.Power, !.lastOnTimer = a.OnTimer,
              !.lastOffTimer = a.OffTimer, !.forceextended = FALSE,
              !.told = [Power |-> a.Power, OnTimer |-> a.OnTimer,
                        OffTimer |-> a.OffTimer,
                        Sleep |-> a.Sleep /\ a.OffTimer > 0]]

SamsungSend_Changed(a) == \/ a.Power # a.lastsentpowerstate
                          \/ a.OnTimer # a.lastOnTimer
                          \/ a.OffTimer # a.lastOffTimer
                          \/ a.Sleep # a.lastSleep

(* A mutant of send: a new on timer does not make the message longer. *)
SamsungSend_send_OnTimerForgotten(a) ==
    IF \/ a.Power # a.lastsentpowerstate
       \/ a.OffTimer # a.lastOffTimer
       \/ a.forceextended
      THEN SamsungSend_sendExtended(a) ELSE a

SamsungSend_send(a) == IF SamsungSend_Changed(a) \/ a.forceextended THEN SamsungSend_sendExtended(a) ELSE a

(* Messages that are fixed, without timers; the object keeps its power and *)
(* its notion of what the timers are.  A sketch that uses them while timers *)
(* are set is left out: the class would not know that the unit lost them.  *)
SamsungSend_sendOnOff(a, on) ==
    [a EXCEPT !.lastsentpowerstate = on,
              !.told = [Power |-> on, OnTimer |-> 0, OffTimer |-> 0,
                        Sleep |-> FALSE]]

SamsungSend_NoTimerTold(a) == a.lastOnTimer = 0 /\ a.lastOffTimer = 0

SamsungSend_Init == \E extended, initialPower \in BOOLEAN :
                       ac = SamsungSend_stateReset(extended, initialPower)

SamsungSend_Next ==
    \/ \E on \in BOOLEAN : ac' = SamsungSend_setPower(ac, on)
    \/ \E n \in {0, 9, 60, SamsungSend_Day + 1} : ac' = SamsungSend_setOnTimer(ac, n)
    \/ \E n \in {0, 9, 60, SamsungSend_Day + 1} : ac' = SamsungSend_setOffTimer(ac, n)
    \/ \E n \in {0, 60} : ac' = SamsungSend_setSleepTimer(ac, n)
    \/ ac' = SamsungSend_send(ac)
    \/ \E on \in BOOLEAN :
          SamsungSend_NoTimerTold(ac) /\ ac' = SamsungSend_sendOnOff(ac, on)

SamsungSend_TypeOK == ac \in SamsungSend_Object

SamsungSend_Wanted(a) == [Power |-> a.Power, OnTimer |-> a.OnTimer,
                          OffTimer |-> a.OffTimer,
                          Sleep |-> a.Sleep /\ a.OffTimer > 0]

(* After any edits a send leaves the unit with the power and the timers of *)
(* the object, whether or not it needed the longer message; sleep is an    *)
(* off timer with a name: the unit is never told of one without the other. *)
SamsungSend_Rules ==
    /\ LET told == SamsungSend_send(ac).told IN
       /\ told.Power = ac.Power
       /\ told.OnTimer = ac.OnTimer
       /\ told.OffTimer = ac.OffTimer
       /\ told.Sleep => told.OffTimer > 0

-----------------------------------------------------------------------------
(***************************************************************************)
(* ir_LG.h, ir_LG.cpp: "off" has no temperature, the codes of the fan      *)
(* depend on the model, and a swing is told in a message of its own when   *)
(* it is not what was told before.  `told` is what the unit was last told  *)
(* of its swings.  The model of an object is not changed.                  *)
(***************************************************************************)
Lg_Models == {"GE6711AR2853M", "LG6711A20083V", "AKB74955603", "AKB73757604"}
Lg_Modes == {"Cool", "Dry", "Fan", "Auto", "Heat"}
Lg_Fans == {"Lowest", "Low", "Medium", "Max", "Auto", "LowAlt", "High"}
Lg_SwingsV == {"Lowest", "Low", "Middle", "UpperMiddle", "High", "Highest",
               "Swing", "Off", "Toggle"}
Lg_Vanes == 0..3

Lg_Swinging == [swingv : Lg_SwingsV, vaneswingv : [Lg_Vanes -> 0..6], swingh : BOOLEAN]

Lg_Object == [model : Lg_Models, Power : BOOLEAN, Mode : Lg_Modes, Fan : Lg_Fans,
              Temp : 0..15, temp : 15..30, light : BOOLEAN,
              now : Lg_Swinging, prev : Lg_Swinging, told : Lg_Swinging]

Lg_Still == [swingv |-> "Off", vaneswingv |-> [v \in Lg_Vanes |-> 0],
             swingh |-> FALSE]

(* _swingh_prev is not initialised; the unit is still. *)
Lg_stateReset(model, swingh_prev) ==
    [model |-> model, Power |-> FALSE, Mode |-> "Cool", Fan |-> "Auto",
     Temp |-> 0, temp |-> 15, light |-> TRUE, now |-> Lg_Still,
     prev |-> [Lg_Still EXCEPT !.swingh = swingh_prev], told |-> Lg_Still]

Lg_setTemp(a, degrees) ==
    [a EXCEPT !.temp = Clamp(degrees, 16, 30),
              !.Temp = Clamp(degrees, 16, 30) - 15]

Lg_setPower(a, on) ==
    IF on THEN Lg_setTemp([a EXCEPT !.Power = TRUE], a.temp)
          ELSE [a EXCEPT !.Power = FALSE, !.Temp = 0]

Lg_setFan(a, speed) ==
    LET alternative == a.model = "AKB74955603" IN
    [a EXCEPT !.Fan =
       CASE speed \in {"Low", "LowAlt"} -> IF alternative THEN "LowAlt" ELSE "Low"
         [] speed = "High" -> IF alternative THEN "High" ELSE "Max"
         [] speed \in Lg_Fans \ {"Low", "LowAlt", "High"} -> speed
         [] OTHER -> "Auto"]

Lg_setMode(a, mode) == [a EXCEPT !.Mode = IF mode \in Lg_Modes THEN mode ELSE "Auto"]
Lg_setLight(a, on) == [a EXCEPT !.light = on]
Lg_setSwingH(a, on) == [a EXCEPT !.now.swingh = on]
Lg_setSwingV(a, position) ==
    [a EXCEPT !.now.swingv = IF position \in Lg_SwingsV THEN position ELSE @]

Lg_setVaneSwingV(a, vane, position) ==
    IF vane \in Lg_Vanes /\ position \in 1..6
      THEN [a EXCEPT !.now.vaneswingv[vane] = position] ELSE a

(* The horizontal swing is not among them. *)
Lg_updateSwingPrev(a) ==
    [a EXCEPT !.prev.swingv = a.now.swingv,
              !.prev.vaneswingv = a.now.vaneswingv]

Lg_Tell(a) ==
       CASE a.model \in {"LG6711A20083V", "AKB74955603"} ->
              [a.told EXCEPT !.swingv =
                 IF a.now.swingv # a.prev.swingv THEN a.now.swingv ELSE @]
         [] a.model = "AKB73757604" ->
              [a.told EXCEPT
                 !.vaneswingv = [v \in Lg_Vanes |->
                   IF a.now.vaneswingv[v] # a.prev.vaneswingv[v]
                     THEN a.now.vaneswingv[v] ELSE @[v]],
                 !.swingh = IF a.now.swingh # a.prev.swingh THEN a.now.swingh ELSE @]
         [] OTHER -> a.told

Lg_send(a) ==
       IF a.Power THEN Lg_updateSwingPrev([a EXCEPT !.told = Lg_Tell(a)]) ELSE a

Lg_convertMode(mode) == IF mode = "Off" THEN "Auto" ELSE mode
Lg_toCommonMode(mode) == mode

Lg_convertFan(fan) ==
    CASE fan = "Min" -> "Lowest"
      [] fan \in {"Low", "Medium", "High", "Max"} -> fan [] OTHER -> "Auto"

Lg_toCommonFanSpeed(fan) ==
    CASE fan = "LowAlt" -> "Low" [] fan = "Lowest" -> "Min" [] OTHER -> fan

Lg_convertSwingV(swing) ==
    CASE swing \in {"Highest", "High", "Middle", "Low", "Lowest"} -> swing
      [] swing = "Auto" -> "Swing" [] OTHER -> "Off"

Lg_toCommonSwingV(position) ==
    CASE position = "UpperMiddle" -> "Middle"
      [] position \in {"Swing", "Toggle"} -> "Auto" [] OTHER -> position

Lg_convertVaneSwingV(swing) ==
    CASE swing = "High" -> 2 [] swing = "Middle" -> 4 [] swing = "Low" -> 5
      [] swing = "Lowest" -> 6 [] OTHER -> 1

(* Of a message with settings: the horizontal swing is never in one. *)
Lg_toCommon(a) ==
    [model |-> a.model, power |-> a.Power, mode |-> Lg_toCommonMode(a.Mode),
     degrees |-> a.Temp + 15, fan |-> Lg_toCommonFanSpeed(a.Fan),
     swingv |-> Lg_toCommonSwingV(a.now.swingv), swingh |-> "Off",
     light |-> a.light]

(* The object as it is sent. *)
Lg_lg(w, swingv_prev, swingh_prev) ==
       LET on == Lg_setPower(Lg_stateReset(w.model, swingh_prev), w.power)
           fanned == Lg_setFan(Lg_setTemp(Lg_setMode(on, Lg_convertMode(w.mode)), w.degrees),
                               Lg_convertFan(w.fan))
           before == Lg_updateSwingPrev(Lg_setSwingV(fanned, Lg_convertSwingV(swingv_prev)))
           swung == IF /\ w.model = "LG6711A20083V"
                       /\ (w.swingv = "Off") # (swingv_prev = "Off")
                      THEN Lg_setSwingV(before, "Toggle")
                      ELSE Lg_setSwingV(before, Lg_convertSwingV(w.swingv))
           vaned == [swung EXCEPT !.now.vaneswingv =
                       [v \in Lg_Vanes |-> Lg_convertVaneSwingV(w.swingv)]]
       IN Lg_setLight(Lg_setSwingH(vaned, w.swingh # "Off"), w.light)

Lg_Init == \E m \in Lg_Models, swingh_prev \in BOOLEAN :
              ac = Lg_stateReset(m, swingh_prev)

Lg_Next ==
    \/ \E on \in BOOLEAN : ac' = Lg_setPower(ac, on)
    \/ ac' = Lg_setMode(ac, "?")
    \/ \E t \in {15, 24} : ac' = Lg_setTemp(ac, t)
    \/ \E f \in {"LowAlt", "High"} : ac' = Lg_setFan(ac, f)
    \/ ac' = Lg_setLight(ac, FALSE)
    \/ \E on \in BOOLEAN : ac' = Lg_setSwingH(ac, on)
    \/ \E p \in {"Middle", "Off", "?"} : ac' = Lg_setSwingV(ac, p)
    \/ \E v \in {0, 4}, p \in {0, 1, 6} : ac' = Lg_setVaneSwingV(ac, v, p)
    \/ ac' = Lg_send(ac)

Lg_TypeOK == ac \in Lg_Object

Lg_HasSwingV == ac.model \in {"LG6711A20083V", "AKB74955603"}
Lg_HasVanes == ac.model = "AKB73757604"

(* A message that switches the unit on has the temperature that was kept.  *)
(* After it the unit swings as the object says, however often it was       *)
(* switched off and however the swings were changed in between: "Copy the  *)
(* previous swing settings from the current ones" (ir_LG.cpp:591).  The    *)
(* horizontal one is not copied: it is told each time or never, as the     *)
(* memory of a new object has it.                                          *)
Lg_Rules ==
    ac.Power =>
      /\ ac.Temp = ac.temp - 15
      /\ Lg_HasSwingV => Lg_send(ac).told.swingv = ac.now.swingv
      /\ Lg_HasVanes => /\ Lg_send(ac).told.vaneswingv = ac.now.vaneswingv
                        /\ ac.now.swingh # ac.prev.swingh =>
                             Lg_send(ac).told.swingh = ac.now.swingh

(* The state before changes nothing but the swing that is told. *)
Lg_Rereads ==
    \A before \in {"Off", "Middle"}, garbage \in BOOLEAN :
      SameState(Lg_toCommon(ac), Lg_toCommon(Lg_lg(Lg_toCommon(ac), before, garbage)),
                IF ac.model = "LG6711A20083V" THEN {"swingv"} ELSE {})

(* Off and on again: the same message. *)
Lg_PowerCycles == ac.Power => Lg_setPower(Lg_setPower(ac, FALSE), TRUE) = ac

-----------------------------------------------------------------------------
Init ==
    \/ remote = "Samsung" /\ Samsung_Init
    \/ remote = "SamsungSend" /\ SamsungSend_Init
    \/ remote = "Lg" /\ Lg_Init

Next ==
    /\ UNCHANGED remote
    /\ \/ remote = "Samsung" /\ Samsung_Next
       \/ remote = "SamsungSend" /\ SamsungSend_Next
       \/ remote = "Lg" /\ Lg_Next

Spec == Init /\ [][Next]_<<remote, ac>>

(* The object stays one that its message can carry. *)
TypeOK ==
    CASE remote = "Samsung" -> Samsung_TypeOK
      [] remote = "SamsungSend" -> SamsungSend_TypeOK
      [] remote = "Lg" -> Lg_TypeOK
      [] OTHER -> TRUE

(* What a class says of its settings together, see there. *)
Rules ==
    CASE remote = "Samsung" -> Samsung_Rules
      [] remote = "SamsungSend" -> SamsungSend_Rules
      [] remote = "Lg" -> Lg_Rules
      [] OTHER -> TRUE

(* A state that was read from a message is sent as it was read, see there. *)
Rereads ==
    CASE remote = "Samsung" -> Samsung_Rereads
      [] remote = "Lg" -> Lg_Rereads
      [] OTHER -> TRUE

(* Off and on again is on as before, see there. *)
PowerCycles ==
    CASE remote = "Lg" -> Lg_PowerCycles
      [] OTHER -> TRUE
=============================================================================
