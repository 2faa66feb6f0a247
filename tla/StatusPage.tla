----------------------------- MODULE StatusPage -----------------------------
(***************************************************************************)
(* The script of the page that worker/src/index.ts serves at "/": tick()   *)
(* polls /api/latest from a timer and from the refresh button, without     *)
(* waiting for the tick before it; renderLatest() shows what arrives and   *)
(* remembers its protocol in localStorage; the user edits the temperature  *)
(* and the fan, removes remembered items, reloads, and generates the       *)
(* current state.  The server is the event log of module Worker, read at   *)
(* one moment between a request and its answer.                            *)
(***************************************************************************)
EXTENDS Naturals, Sequences, SequencesExt

CONSTANTS
    Protocols,     \* protocol ids
    AcProtocols,   \* those of them that are an A/C's: their responses may have an .ac
    NoProtocol,    \* null: the response of an inference that did not match
    Fans,          \* the options of #fan that are told apart
    MaxDetected,   \* detected.slice(0, 8)
    MaxSaved,      \* detected.slice(0, 12), what saveDetected keeps
    MaxEvents,     \* bound: events in the log
    MaxTicks,      \* bound: polls under way at one time
    MaxReloads,    \* bound: reloads of the page
    MaxEdit        \* bound: temperatures are 0 .. MaxEdit

ASSUME NoProtocolAssumption == NoProtocol \notin Protocols
ASSUME AcProtocolsAssumption == AcProtocols \subseteq Protocols
ASSUME FansAssumption == "Auto" \in Fans
ASSUME MaxAssumption ==
    /\ MaxDetected \in Nat \ {0} /\ MaxSaved \in Nat /\ MaxSaved >= MaxDetected
    /\ MaxEvents \in Nat /\ MaxTicks \in Nat \ {0}
    /\ MaxReloads \in Nat /\ MaxEdit \in Nat

VARIABLES
    log,           \* the events, as /api/latest serves them
    ticks,         \* polls under way: Asked, or the answer: log[n], 0 for none
    posts,         \* bodies that generateCurrent posted, not yet served
    shown,         \* latestResponse: 0 none, n is log[n]'s response
    degrees,       \* the number that #degrees shows, or NoDegrees
    fan,           \* the value of #fan
    detected,      \* the array detected: protocols
    stored,        \* localStorage['irremote.detected.v1']
    reloads

vars == <<log, ticks, posts, shown, degrees, fan, detected, stored, reloads>>

-----------------------------------------------------------------------------
NoDegrees == MaxEdit + 1       \* '-- C'
Temps == 0 .. MaxEdit
Default == 0                   \* the 25 that stands in for absent degrees

(***************************************************************************)
(* An event, by its response: hasAc tells whether .ac is there, and then   *)
(* what its common fields say; one that has a description and no common    *)
(* state gets an .ac that only names it.  The response of /api/generate    *)
(* has no .ac, and none of what it was asked but its protocol (kinds       *)
(* classCommon and encode, which only other clients post, are left out).   *)
(***************************************************************************)
Event(p, hasAc, d, f) ==
    [protocol |-> p, hasAc |-> hasAc, degrees |-> d, fan |-> f]

Generated(p) == Event(p, FALSE, NoDegrees, "Auto")

WithAc ==
    {Event(p, TRUE, d, f) : p \in AcProtocols, d \in Temps, f \in Fans}
    \cup {Event(p, TRUE, NoDegrees, "Auto") : p \in AcProtocols}

WithoutAc ==
    {Event(p, FALSE, NoDegrees, "Auto") : p \in Protocols \cup {NoProtocol}}

Events == WithAc \cup WithoutAc

Asked == MaxEvents + 1

(* What earlier visits to the page left in localStorage. *)
Lists == {s \in UNION {[1 .. n -> Protocols] : n \in 0 .. MaxDetected} : IsInjective(s)}

Init ==
    /\ log = <<>>
    /\ ticks = <<Asked>>
    /\ posts = {}
    /\ shown = 0
    /\ degrees = NoDegrees
    /\ fan = "Auto"
    /\ stored \in Lists
    /\ detected = stored
    /\ reloads = 0

page == <<shown, degrees, fan, detected, stored, reloads>>

-----------------------------------------------------------------------------
(* The server. *)

Record(event) ==
    /\ Len(log) < MaxEvents
    /\ log' = Append(log, event)
    /\ UNCHANGED <<ticks, posts, page>>

(* It serves /api/generate, and logs that. *)
Serve(body) ==
    /\ Len(log) < MaxEvents
    /\ log' = Append(log, Generated(body.protocol))
    /\ posts' = posts \ {body}
    /\ UNCHANGED <<ticks, page>>

(* It reads the latest event for a poll; of an empty log there is none. *)
Answer(t) ==
    /\ ticks[t] = Asked
    /\ ticks' = [ticks EXCEPT ![t] = Len(log)]
    /\ UNCHANGED <<log, posts, page>>

(***************************************************************************)
(* The SELECT of a poll fails: onError() answers 400 and {error}.  tick()  *)
(* does not look at res.ok, finds no `latest` in it, and takes it for the  *)
(* answer of an empty log.                                                 *)
(***************************************************************************)
AnswerError(t) ==
    /\ ticks[t] = Asked
    /\ ticks' = [ticks EXCEPT ![t] = 0]
    /\ UNCHANGED <<log, posts, page>>

-----------------------------------------------------------------------------
(* tick(), up to its await and after it. *)

Tick ==
    /\ Len(ticks) < MaxTicks
    /\ ticks' = Append(ticks, Asked)
    /\ UNCHANGED <<log, posts, page>>

Take(s, n) == SubSeq(s, 1, IF Len(s) < n THEN Len(s) ELSE n)

(* detected.filter(): the items of s but p, in their order. *)
Without(s, p) ==
    LET kept[k \in 0 .. Len(s)] ==
          IF k = 0 THEN <<>>
          ELSE IF s[k] = p THEN kept[k - 1] ELSE Append(kept[k - 1], s[k])
    IN  kept[Len(s)]

(* A mutant of Remember: the protocol is put in front, not moved there. *)
Remember_Twice(p) ==
    LET items == Take(<<p>> \o detected, MaxDetected)
    IN IF p = NoProtocol
         THEN UNCHANGED <<detected, stored>>
         ELSE detected' = items /\ stored' = Take(items, MaxSaved)

(* A mutant of Remember: it does not look whether the response matched. *)
Remember_Unmatched(p) ==
    /\ detected' = Take(<<p>> \o Without(detected, p), MaxDetected)
    /\ stored' = Take(detected', MaxSaved)

(* remember() moves the protocol of a matched response to the front. *)
Remember(p) ==
    LET items == Take(<<p>> \o Without(detected, p), MaxDetected)
    IN IF p = NoProtocol
         THEN UNCHANGED <<detected, stored>>
         ELSE detected' = items /\ stored' = Take(items, MaxSaved)

(* updateControls() *)
UpdateControls(event) ==
    /\ degrees' = IF event.hasAc THEN event.degrees ELSE NoDegrees
    /\ fan' = IF event.hasAc THEN event.fan ELSE "Auto"

NoResponse == Event(NoProtocol, FALSE, NoDegrees, "Auto")
Response(n) == IF n = 0 THEN NoResponse ELSE log[n]

(* A mutant of RenderLatest: only the first answer is shown. *)
RenderLatest_Once(n) ==
    IF shown = 0
      THEN shown' = n /\ UpdateControls(Response(n)) /\ Remember(Response(n).protocol)
      ELSE UNCHANGED <<shown, degrees, fan, detected, stored>>

RenderLatest(n) ==
    /\ shown' = n
    /\ UpdateControls(Response(n))
    /\ Remember(Response(n).protocol)

Arrive(t) ==
    /\ ticks[t] # Asked
    /\ ticks' = RemoveAt(ticks, t)
    /\ RenderLatest(ticks[t])
    /\ UNCHANGED <<log, posts, reloads>>

(* fetch() rejects: the tick ends, and nothing is rendered. *)
Lost(t) ==
    /\ ticks' = RemoveAt(ticks, t)
    /\ UNCHANGED <<log, posts, page>>

-----------------------------------------------------------------------------
(* The user. *)

(* generateCurrent(), when the response shown has an .ac. *)
GenerateCurrent ==
    LET ac == Response(shown)
        body == [protocol |-> ac.protocol, fan |-> fan, displayed |-> degrees,
                 degrees |-> IF ac.degrees = NoDegrees THEN Default ELSE ac.degrees]
    IN /\ ac.hasAc
       /\ posts = {}
       /\ posts' = {body}
       /\ UNCHANGED <<log, ticks, page>>

TempMinus ==
    /\ degrees \in 1 .. MaxEdit
    /\ degrees' = degrees - 1
    /\ UNCHANGED <<log, ticks, posts, shown, fan, detected, stored, reloads>>

TempPlus ==
    /\ degrees \in 0 .. MaxEdit - 1
    /\ degrees' = degrees + 1
    /\ UNCHANGED <<log, ticks, posts, shown, fan, detected, stored, reloads>>

SelectFan(f) ==
    /\ fan # f
    /\ fan' = f
    /\ UNCHANGED <<log, ticks, posts, shown, degrees, detected, stored, reloads>>

(* A mutant of RemoveItem: saveDetected() is forgotten. *)
RemoveItem_Unsaved(k) ==
    /\ detected' = RemoveAt(detected, k)
    /\ UNCHANGED <<log, ticks, posts, shown, degrees, fan, stored, reloads>>

RemoveItem(k) ==
    /\ detected' = RemoveAt(detected, k)
    /\ stored' = Take(detected', MaxSaved)
    /\ UNCHANGED <<log, ticks, posts, shown, degrees, fan, reloads>>

(* The page starts again: loadDetected(), an empty display, a first tick. *)
Reload ==
    /\ reloads < MaxReloads
    /\ reloads' = reloads + 1
    /\ detected' = stored
    /\ shown' = 0 /\ degrees' = NoDegrees /\ fan' = "Auto"
    /\ ticks' = <<Asked>>
    /\ UNCHANGED <<log, posts, stored>>

-----------------------------------------------------------------------------
Next ==
    \/ \E event \in Events : Record(event)
    \/ \E body \in posts : Serve(body)
    \/ Tick
    \/ \E t \in DOMAIN ticks : Answer(t) \/ AnswerError(t) \/ Arrive(t) \/ Lost(t)
    \/ GenerateCurrent \/ TempMinus \/ TempPlus
    \/ \E f \in Fans : SelectFan(f)
    \/ \E k \in DOMAIN detected : RemoveItem(k)
    \/ Reload

Spec == Init /\ [][Next]_vars

(***************************************************************************)
(* setInterval keeps calling tick(), and of the polls it makes not all are *)
(* lost on their way to the server or back.  From some time on no SELECT   *)
(* fails (of an empty log, a failed one is answered like any other).       *)
(***************************************************************************)
FairSpec ==
    /\ Spec
    /\ WF_vars(Tick)
    /\ SF_vars(ticks # <<>> /\ Answer(1))
    /\ SF_vars(ticks # <<>> /\ Arrive(1))
    /\ <>[][log # <<>> => \A t \in DOMAIN ticks : ~AnswerError(t)]_vars

-----------------------------------------------------------------------------
(* Properties.                                                             *)

TypeOK ==
    /\ log \in Seq(Events) /\ Len(log) <= MaxEvents
    /\ ticks \in Seq(0 .. Len(log) \cup {Asked}) /\ Len(ticks) <= MaxTicks
    /\ posts \subseteq [protocol : Protocols, degrees : Temps, fan : Fans,
                        displayed : Temps \cup {NoDegrees}]
    /\ shown \in 0 .. Len(log)
    /\ degrees \in Temps \cup {NoDegrees}
    /\ fan \in Fans
    /\ detected \in Seq(Protocols) /\ stored \in Seq(Protocols)
    /\ reloads \in 0 .. MaxReloads

(***************************************************************************)
(* The list of detected remotes names no protocol twice, has at most the   *)
(* 8 items the page keeps, and localStorage holds the same list, after any *)
(* mixture of answers, removals and reloads.                               *)
(***************************************************************************)
DetectedInOrder ==
    /\ IsInjective(detected)
    /\ Len(detected) <= MaxDetected
    /\ stored = detected

(***************************************************************************)
(* A protocol the user removed comes back only with an answer that shows   *)
(* it, never by a reload.                                                  *)
(***************************************************************************)
RemovedStaysRemoved ==
    [][\A p \in ToSet(detected') \ ToSet(detected) :
         shown' # 0 /\ Response(shown').protocol = p]_vars

(***************************************************************************)
(* When no more events come, and no more polls of them fail, the page ends *)
(* up showing the last of them and keeps showing it, in whatever order the *)
(* answers of its polls arrived.                                           *)
(***************************************************************************)
MirrorsInTheEnd == <>[](shown = Len(log))

(***************************************************************************)
(* worker/README.md:60: the page "can generate the currently displayed A/C *)
(* state".  The temperature that is posted is the one displayed.           *)
(***************************************************************************)
GeneratesDisplayed ==
    \A body \in posts :
        body.displayed # NoDegrees => body.degrees = body.displayed
=============================================================================
