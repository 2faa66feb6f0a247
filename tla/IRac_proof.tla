----------------------------- MODULE IRac_proof -----------------------------
(***************************************************************************)
(* For every set of the protocols in Supported: a sketch that keeps to     *)
(* CanBeSent has the appliance do what was last sent.                      *)
(***************************************************************************)
EXTENDS IRac, TLAPS

-----------------------------------------------------------------------------
(* The tables of the protocols.                                            *)

(* swingh is toggled by no protocol.                                       *)
LEMMA NoSwingh == \A r : "swingh" \notin Toggles(r)
BY DEF Toggles

(* handleToggles() and the functions of the protocols do not compare the   *)
(* same setting twice.                                                     *)
LEMMA TablesApart ==
    ASSUME NEW r
    PROVE  /\ Toggles(r) \cap Compared(r) = {}
           /\ Toggles(r) \cap Marked(r) = {}
           /\ Compared(r) \cap Marked(r) = {}
           /\ NotPassed(r) \cap Marked(r) = {}
<1> USE DEF Toggles, PowerToggled, SwingToggled, LightToggled
<1>1. CASE r = "LG6711A20083V"
    BY <1>1 DEF Compared, Marked
<1>2. CASE r = "HAIER_AC160"
    BY <1>2 DEF Compared, Marked
<1>3. CASE r = "HITACHI_AC1"
    BY <1>3 DEF Compared, Marked, NotPassed
<1>4. CASE r \notin {"LG6711A20083V", "HAIER_AC160", "HITACHI_AC1"}
    BY <1>4 DEF Compared, Marked
<1> QED
    BY <1>1, <1>2, <1>3, <1>4

(* A protocol that tells its power as a change sends the whole state for   *)
(* an off, and the function of each protocol passes power on.              *)
LEMMA PowerIsSent ==
    ASSUME NEW r
    PROVE  /\ "power" \notin NotPassed(r) /\ "power" \notin Compared(r)
           /\ "power" \in Relative(r) => r \notin OffIsShort
BY DEF NotPassed, Compared, Marked, Relative, Toggles, OffIsShort, PowerToggled

(* What a message carries depends on the protocol, the mode and the power. *)
LEMMA SameCarried ==
    ASSUME NEW s, NEW t, s.remote = t.remote, s.mode = t.mode,
           s.remote \in OffIsShort => ("power" \in s.on <=> "power" \in t.on)
    PROVE  Carried(s) = Carried(t)
BY DEF Carried

-----------------------------------------------------------------------------
(* The inductive invariant.  The parts beside the properties are what      *)
(* sendAc() relies on and does not say: before the first send _prev is     *)
(* what initState() made it, and after that it is a state that passed      *)
(* CanBeSent: cleanState() would not change it, and sharp() finds no swing *)
(* in it.                                                                  *)
FirstSend == prev.remote # remote => prev = InitState
PrevIsClean ==
    prev.mode = "Off" /\ "power" \in Relative(remote) => "power" \notin prev.on
NoSharpSwing == remote = "SHARP_AC" => "swingv" \notin prev.on

IInv == TypeOK /\ InStep /\ FirstSend /\ PrevIsClean /\ NoSharpSwing

LEMMA InitHolds == Init => IInv
<1> SUFFICES ASSUME Init PROVE IInv
    OBVIOUS
<1>1. InitState \in State /\ InitState.on = {} /\ InitState.remote = Unknown
    BY DEF InitState, State, Modes, Unknown
<1>2. cleanState(InitState).on = {}
    BY <1>1 DEF cleanState, State, InitState
<1> QED
    BY <1>1, <1>2 DEF Init, IInv, TypeOK, InStep, FirstSend, PrevIsClean, NoSharpSwing

(* The edits do not touch what the properties relate.                      *)
LEMMA EditsKeep ==
    ASSUME IInv,
           \/ SetProtocol
           \/ \E m \in Modes : SetMode(m)
           \/ \E s \in Settings : Edit(s)
    PROVE  IInv'
<1>1. UNCHANGED <<remote, prev, appliance>>
    BY DEF SetProtocol, SetMode, Edit
<1>2. next' \in State /\ next'.remote \in {Unknown, remote}
        /\ next'.on \subseteq Editable
    <2>1. CASE SetProtocol
        BY <2>1 DEF SetProtocol, IInv, TypeOK, State
    <2>2. CASE \E m \in Modes : SetMode(m)
        BY <2>2 DEF SetMode, IInv, TypeOK, State
    <2>3. CASE \E s \in Settings : Edit(s)
        BY <2>3 DEF Edit, IInv, TypeOK, State, Changed
    <2> QED
        BY <2>1, <2>2, <2>3
<1>3. Editable' = Editable /\ Offered(remote)' = Offered(remote)
    BY <1>1 DEF Editable, Offered
<1>4. TypeOK'
    BY <1>1, <1>2, <1>3 DEF IInv, TypeOK
<1>5. InStep'
    BY <1>1, <1>3 DEF IInv, InStep, cleanState
<1>6. FirstSend' /\ PrevIsClean' /\ NoSharpSwing'
    BY <1>1 DEF IInv, FirstSend, PrevIsClean, NoSharpSwing
<1> QED
    BY <1>4, <1>5, <1>6 DEF IInv

-----------------------------------------------------------------------------
(* The state a message is made of.                                         *)

(* cleanState() changes nothing but power, and that only in mode Off.      *)
LEMMA CleanStateIs ==
    ASSUME NEW s \in State
    PROVE  /\ cleanState(s) \in State
           /\ cleanState(s).remote = s.remote
           /\ cleanState(s).mode = s.mode
           /\ cleanState(s).on =
                IF s.mode = "Off" THEN s.on \ {"power"} ELSE s.on
BY DEF cleanState, State

(* handleToggles() turns a toggled setting into whether it has changed and *)
(* leaves the others; also before the first send, when it does nothing,    *)
(* because the state last sent has nothing on.                             *)
LEMMA HandleTogglesIs ==
    ASSUME NEW s \in State, NEW t \in State,
           t.remote # s.remote => t.on = {}
    PROVE  /\ handleToggles(s, t).remote = s.remote
           /\ handleToggles(s, t).mode = s.mode
           /\ handleToggles(s, t).on =
                (s.on \ Toggles(s.remote))
                  \cup (Changed(s.on, t.on) \cap Toggles(s.remote))
<1>1. CASE s.remote = t.remote
    BY <1>1 DEF handleToggles, State
<1>2. CASE s.remote # t.remote
    <2>1. handleToggles(s, t) = s /\ t.on = {}
        BY <1>2 DEF handleToggles
    <2>2. Changed(s.on, t.on) = s.on
        BY <2>1 DEF Changed
    <2> QED
        BY <2>1, <2>2
<1> QED
    BY <1>1, <1>2

(* What is carried is among what is told as a change and passed on.        *)
LEMMA CarriedIsPassed ==
    \A s : Carried(s) \subseteq Relative(s.remote) \ NotPassed(s.remote)
BY DEF Carried

(***************************************************************************)
(* sendAc().  The appliance is in step before the send.  A setting that is *)
(* told as a change is flipped, or marked and taken as it is sent, exactly *)
(* when it differs from what was last sent, because a careful sketch       *)
(* changes it only when that is carried; a power that is a change had a    *)
(* last value that needed no cleaning (PrevIsClean), one that is none is   *)
(* taken as it is sent.                                                    *)
(***************************************************************************)
LEMMA SendKeeps ==
    ASSUME Careful = TRUE, IInv, SendAc
    PROVE  IInv'
<1> DEFINE state == cleanState(next)
           send == handleToggles(state, prev)
           last == cleanState(prev)
           T == Toggles(remote)
           C == Compared(remote)
           M == Marked(remote)
           R == Relative(remote)
           NP == NotPassed(remote)
<1>1. /\ next \in State /\ prev \in State /\ next.remote = remote
      /\ prev' = next /\ next' = next /\ remote' = remote
    BY DEF IInv, TypeOK, SendAc
<1>2. /\ state \in State /\ state.remote = remote /\ state.mode = next.mode
      /\ state.on = IF next.mode = "Off" THEN next.on \ {"power"} ELSE next.on
    BY <1>1, CleanStateIs
<1>3. last.on = IF prev.mode = "Off" THEN prev.on \ {"power"} ELSE prev.on
    BY <1>1, CleanStateIs
<1>4. prev.remote # remote => prev.on = {}
    BY DEF IInv, FirstSend, InitState
<1>5. /\ send.remote = remote /\ send.mode = next.mode
      /\ send.on = (state.on \ T) \cup (Changed(state.on, prev.on) \cap T)
    <2> HIDE DEF state
    <2> QED
        BY <1>1, <1>2, <1>4, HandleTogglesIs
<1>6. /\ next.mode = "Off" /\ "power" \in R => "power" \notin next.on
      /\ Changed(next.on, prev.on) \cap (R \ NP) \subseteq Carried(state)
      /\ remote \in OneSwing => "swingh" \notin next.on
      /\ remote = "SHARP_AC" => "swingv" \notin next.on
    BY <1>1 DEF SendAc, CanBeSent
<1>7. Carried(send) = Carried(state)
    <2>1. remote \in OffIsShort => "power" \notin T
        BY PowerIsSent DEF Relative
    <2>2. remote \in OffIsShort => ("power" \in send.on <=> "power" \in state.on)
        BY <2>1, <1>5
    <2> HIDE DEF send, state
    <2> QED
        BY <2>2, <1>2, <1>5, SameCarried
<1>8. SharpSwing(send) = {}
    <2> HIDE DEF send
    <2> QED
        BY <1>5 DEF SharpSwing, IInv, NoSharpSwing
<1>9. Flipped(send) = (send.on \cap T \cap Carried(send))
                        \cup (Changed(send.on, prev.on) \cap C \cap Carried(send))
    <2>1. remote \in OneSwing => "swingh" \notin send.on
        BY <1>2, <1>5, <1>6, NoSwingh
    <2> HIDE DEF send
    <2> QED
        BY <2>1, <1>5, <1>8 DEF Flipped
<1>10. Taken(send) = ({"power"} \ R) \cup (Changed(send.on, prev.on) \cap M)
    <2> HIDE DEF send
    <2> QED
        BY <1>5, <1>8 DEF Taken
<1>11. appliance' = (Changed(appliance, Flipped(send)) \ Taken(send))
                      \cup (send.on \cap Taken(send))
    <2>1. Receive(send)
        BY DEF SendAc
    <2> HIDE DEF send
    <2> QED
        BY <2>1 DEF Receive
<1>12. Carried(send) \subseteq R \ NP
    <2> HIDE DEF send
    <2> QED
        BY <1>5, CarriedIsPassed
<1>13. /\ appliance = last.on \cap Offered(remote)
       /\ appliance \subseteq Offered(remote)
       /\ Offered(remote) = {"power"} \cup (R \ NP)
    BY DEF IInv, InStep, TypeOK, Offered
<1>14. /\ T \cap C = {} /\ T \cap M = {} /\ C \cap M = {} /\ NP \cap M = {}
       /\ R = T \cup C \cup M
       /\ "power" \notin NP /\ "power" \notin C
    BY TablesApart, PowerIsSent DEF Relative
<1>15. "power" \in T => "power" \in Carried(send)
    <2>1. "power" \in T => remote \notin OffIsShort
        BY PowerIsSent DEF Relative
    <2> HIDE DEF send
    <2> QED
        BY <2>1, <1>5, <1>14 DEF Carried
<1>16. "power" \in R => ("power" \in appliance <=> "power" \in prev.on)
    BY <1>3, <1>13 DEF IInv, PrevIsClean
<1> HIDE DEF send, state, last, T, C, M, R, NP
<1>17. appliance' = state.on \cap Offered(remote)
    <2>1. ASSUME NEW x \in R \ NP, x # "power"
          PROVE  x \in appliance' <=> x \in state.on
        <3>1. x \in state.on <=> x \in next.on
            BY <1>2, <2>1
        <3>2. x \in appliance <=> x \in prev.on
            BY <1>3, <1>13, <2>1
        <3>3. x \in Changed(state.on, prev.on) => x \in Carried(send)
            BY <3>1, <1>6, <1>7, <2>1 DEF Changed
        <3>4. CASE x \in T
            <4>1. x \in Flipped(send) <=> x \in Changed(state.on, prev.on)
                BY <3>3, <3>4, <1>5, <1>9, <1>14
            <4>2. x \notin Taken(send)
                BY <3>4, <1>10, <1>14, <2>1
            <4> QED
                BY <3>2, <4>1, <4>2, <1>11 DEF Changed
        <3>5. CASE x \in C
            <4>1. x \in send.on <=> x \in state.on
                BY <3>5, <1>5, <1>14
            <4>2. x \in Flipped(send) <=> x \in Changed(state.on, prev.on)
                BY <3>3, <3>5, <4>1, <1>9, <1>14 DEF Changed
            <4>3. x \notin Taken(send)
                BY <3>5, <1>10, <1>14, <2>1
            <4> QED
                BY <3>2, <4>2, <4>3, <1>11 DEF Changed
        <3>6. CASE x \in M
            <4>1. x \in send.on <=> x \in state.on
                BY <3>6, <1>5, <1>14
            <4>2. x \notin Flipped(send)
                BY <3>6, <1>9, <1>14
            <4>3. x \in Taken(send) <=> x \in Changed(state.on, prev.on)
                BY <3>6, <4>1, <1>10, <2>1 DEF Changed
            <4> QED
                BY <3>2, <4>1, <4>2, <4>3, <1>11 DEF Changed
        <3> QED
            BY <3>4, <3>5, <3>6, <1>14, <2>1
    <2>2. "power" \in appliance' <=> "power" \in state.on
        <3>1. CASE "power" \in T
            <4>1. "power" \in Flipped(send) <=> "power" \in Changed(state.on, prev.on)
                BY <3>1, <1>5, <1>9, <1>14, <1>15
            <4>2. "power" \notin Taken(send)
                BY <3>1, <1>10, <1>14
            <4> QED
                BY <3>1, <4>1, <4>2, <1>11, <1>14, <1>16 DEF Changed
        <3>2. CASE "power" \in M
            <4>1. "power" \in send.on <=> "power" \in state.on
                BY <3>2, <1>5, <1>14
            <4>2. "power" \notin Flipped(send)
                BY <3>2, <1>9, <1>14
            <4>3. "power" \in Taken(send) <=> "power" \in Changed(state.on, prev.on)
                BY <3>2, <4>1, <1>10, <1>14 DEF Changed
            <4> QED
                BY <3>2, <4>1, <4>2, <4>3, <1>11, <1>14, <1>16 DEF Changed
        <3>3. CASE "power" \notin R
            BY <3>3, <1>5, <1>10, <1>11, <1>14
        <3> QED
            BY <3>1, <3>2, <3>3, <1>14
    <2>3. appliance' \subseteq Offered(remote)
        BY <1>9, <1>10, <1>11, <1>12, <1>13, <1>14 DEF Changed
    <2> QED
        BY <2>1, <2>2, <2>3, <1>13
<1>18. TypeOK'
    BY <1>1, <1>17 DEF IInv, TypeOK, Offered, Editable
<1>19. InStep'
    BY <1>1, <1>17 DEF InStep, state
<1>20. FirstSend' /\ PrevIsClean' /\ NoSharpSwing'
    BY <1>1, <1>6 DEF FirstSend, PrevIsClean, NoSharpSwing, R
<1> QED
    BY <1>18, <1>19, <1>20 DEF IInv

-----------------------------------------------------------------------------
(* The theorems.                                                           *)

(* No step of a careful sketch breaks the inductive invariant.             *)
THEOREM Inductive == ASSUME Careful = TRUE PROVE Spec => []IInv
<1>1. IInv /\ [Next]_vars => IInv'
    <2> SUFFICES ASSUME IInv, [Next]_vars PROVE IInv'
        OBVIOUS
    <2>1. CASE SetProtocol \/ (\E m \in Modes : SetMode(m))
                 \/ (\E s \in Settings : Edit(s))
        BY <2>1, EditsKeep
    <2>2. CASE SendAc
        BY <2>2, SendKeeps
    <2>3. CASE UNCHANGED vars
        BY <2>3 DEF vars, IInv, TypeOK, InStep, FirstSend, PrevIsClean, NoSharpSwing,
            Editable, Offered, cleanState
    <2> QED
        BY <2>1, <2>2, <2>3 DEF Next
<1> QED
    BY <1>1, InitHolds, PTL DEF Spec

(* The states of the model are states the object and the appliance have.   *)
THEOREM TypeCorrect == ASSUME Careful = TRUE PROVE Spec => []TypeOK
<1>1. IInv => TypeOK
    BY DEF IInv
<1> QED
    BY <1>1, Inductive, PTL

(* sendAc() (IRac.cpp:3768): for every set of the protocols in Supported,  *)
(* after any edits and any careful sends, the appliance has on what was    *)
(* last sent.                                                              *)
THEOREM AlwaysInStep == ASSUME Careful = TRUE PROVE Spec => []InStep
<1>1. IInv => InStep
    BY DEF IInv
<1> QED
    BY <1>1, Inductive, PTL
=============================================================================
