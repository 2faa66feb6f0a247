------------------------------- MODULE Worker -------------------------------
(***************************************************************************)
(* The HTTP API of worker/src/index.ts: POST /api/infer, /api/generate and *)
(* /api/call, and GET /api/latest, on several isolates of the Worker that  *)
(* share the D1 database behind the IR_LOGS binding but not the variable   *)
(* memoryLatest.  A handler is cut where it awaits.  D1 is external: a     *)
(* query sees every committed row, a statement may fail, and an INSERT may *)
(* be committed although its answer is lost.                               *)
(***************************************************************************)
EXTENDS Naturals, FiniteSets

CONSTANTS
    Requests,     \* the HTTP requests of a behaviour
    Isolates,     \* the isolates that serve them
    NoEvent,      \* null
    MaxTime,      \* bound: milliseconds on an isolate's clock
    MaxRestarts   \* bound: restarts of an isolate

ASSUME NoEventAssumption == NoEvent \notin [id : Requests, created_at : 1 .. MaxTime]
ASSUME BoundsAssumption == MaxTime \in Nat \ {0} /\ MaxRestarts \in Nat

VARIABLES
    bound,        \* env.IR_LOGS is bound
    clock,        \* Date of each isolate; isolates need not agree
    epoch,        \* how often each isolate has been restarted
    memoryLatest, \* the global of each isolate
    call,         \* where the handler of each request stands
    inserts,      \* INSERTs under way to D1
    rows          \* the table ir_events

vars == <<bound, clock, epoch, memoryLatest, call, inserts, rows>>

-----------------------------------------------------------------------------
Event == [id : Requests, created_at : 1 .. MaxTime]

(***************************************************************************)
(* A handler: its isolate and that isolate's epoch, the await it is at,    *)
(* the event it made or found, and floor, the created_at of an event the   *)
(* client knew of when it asked (for the properties only; 0: of none).     *)
(***************************************************************************)
Handler == [at : {"idle", "computing", "recording", "inserting", "selecting",
                  "selected", "ok", "error", "dead"},
            kind : {"post", "latest"}, isolate : Isolates, epoch : 0 .. MaxRestarts,
            event : Event \cup {NoEvent}, floor : 0 .. MaxTime]

Init ==
    /\ bound \in BOOLEAN
    /\ clock = [i \in Isolates |-> 1]
    /\ epoch = [i \in Isolates |-> 0]
    /\ memoryLatest = [i \in Isolates |-> NoEvent]
    /\ call \in [Requests -> {[at |-> "idle", kind |-> k, isolate |-> i,
                               epoch |-> 0, event |-> NoEvent, floor |-> 0] :
                              k \in {"post", "latest"}, i \in Isolates}]
    /\ inserts = {}
    /\ rows = {}

(***************************************************************************)
(* The events a client knows to be recorded when it asks isolate i: their  *)
(* requests were answered 200.  Without a database only the same isolate,  *)
(* not restarted since, can know them.  A client knows of one or of none.  *)
(***************************************************************************)
Answered(i) ==
    {call[r].event : r \in {q \in Requests :
        /\ call[q].kind = "post" /\ call[q].at = "ok"
        /\ (bound \/ (call[q].isolate = i /\ call[q].epoch = epoch[i]))}}

Floors(i) == {0} \cup {e.created_at : e \in Answered(i)}

Move(r, at) == call' = [call EXCEPT ![r].at = at]

-----------------------------------------------------------------------------
(* POST /api/infer, /api/generate, /api/call.                              *)

Post(r) ==
    /\ call[r].at = "idle" /\ call[r].kind = "post"
    /\ call' = [call EXCEPT ![r].at = "computing",
                            ![r].epoch = epoch[call[r].isolate]]
    /\ UNCHANGED <<clock, epoch, memoryLatest, inserts, rows>>

(* inferIr or generateIr throws: app.onError answers 400. *)
Reject(r) ==
    /\ call[r].at = "computing"
    /\ Move(r, "error")
    /\ UNCHANGED <<clock, epoch, memoryLatest, inserts, rows>>

Compute(r) ==
    /\ call[r].at = "computing"
    /\ Move(r, "recording")
    /\ UNCHANGED <<clock, epoch, memoryLatest, inserts, rows>>

(* A mutant of Record: the answer does not wait for the INSERT. *)
Record_Unawaited(r) ==
    LET i == call[r].isolate
        event == [id |-> r, created_at |-> clock[i]]
    IN /\ call[r].at = "recording"
       /\ memoryLatest' = [memoryLatest EXCEPT ![i] = event]
       /\ inserts' = IF bound THEN inserts \cup {event} ELSE inserts
       /\ call' = [call EXCEPT ![r].event = event, ![r].at = "ok"]
       /\ UNCHANGED <<clock, epoch, rows>>

(* A mutant of Record: the global keeps the request, not the event. *)
Record_Request(r) ==
    LET i == call[r].isolate
        event == [id |-> r, created_at |-> clock[i]]
    IN /\ call[r].at = "recording"
       /\ memoryLatest' = [memoryLatest EXCEPT ![i] = r]
       /\ inserts' = IF bound THEN inserts \cup {event} ELSE inserts
       /\ call' = [call EXCEPT ![r].event = event,
                               ![r].at = IF bound THEN "inserting" ELSE "ok"]
       /\ UNCHANGED <<clock, epoch, rows>>

(* recordEvent up to its await: the global first, then the INSERT. *)
Record(r) ==
    LET i == call[r].isolate
        event == [id |-> r, created_at |-> clock[i]]
    IN /\ call[r].at = "recording"
       /\ memoryLatest' = [memoryLatest EXCEPT ![i] = event]
       /\ inserts' = IF bound THEN inserts \cup {event} ELSE inserts
       /\ call' = [call EXCEPT ![r].event = event,
                               ![r].at = IF bound THEN "inserting" ELSE "ok"]
       /\ UNCHANGED <<clock, epoch, rows>>

(* D1 commits an INSERT, whether or not its isolate still lives. *)
Commit(event) ==
    /\ event \in inserts
    /\ inserts' = inserts \ {event}
    /\ rows' = rows \cup {event}
    /\ UNCHANGED <<clock, epoch, memoryLatest, call>>

Inserted(r) ==
    /\ call[r].at = "inserting" /\ call[r].event \in rows
    /\ Move(r, "ok")
    /\ UNCHANGED <<clock, epoch, memoryLatest, inserts, rows>>

(* The INSERT fails, or its answer is late or lost: 400, as for a bad      *)
(* request.  Such an INSERT may still be committed.                        *)
InsertFailed(r) ==
    /\ call[r].at = "inserting"
    /\ Move(r, "error")
    /\ inserts' \in {inserts, inserts \ {call[r].event}}
    /\ UNCHANGED <<clock, epoch, memoryLatest, rows>>

-----------------------------------------------------------------------------
(* GET /api/latest.                                                        *)

GetLatest(r) ==
    LET i == call[r].isolate IN
    /\ call[r].at = "idle" /\ call[r].kind = "latest"
    /\ \E floor \in Floors(i) :
         call' = [call EXCEPT ![r].at = IF bound THEN "selecting" ELSE "selected",
                              ![r].epoch = epoch[i], ![r].floor = floor]
    /\ UNCHANGED <<clock, epoch, memoryLatest, inserts, rows>>

Newest(events) == {e \in events : \A f \in events : e.created_at >= f.created_at}

(* A mutant of Select: ORDER BY created_at without DESC. *)
Select_Ascending(r) ==
    /\ call[r].at = "selecting"
    /\ \/ rows = {} /\ Move(r, "selected")
       \/ \E e \in rows :
            /\ \A f \in rows : e.created_at <= f.created_at
            /\ call' = [call EXCEPT ![r].at = "selected", ![r].event = e]
    /\ UNCHANGED <<clock, epoch, memoryLatest, inserts, rows>>

(* SELECT * FROM ir_events ORDER BY created_at DESC LIMIT 1. *)
Select(r) ==
    /\ call[r].at = "selecting"
    /\ \/ rows = {} /\ Move(r, "selected")
       \/ \E e \in Newest(rows) :
            call' = [call EXCEPT ![r].at = "selected", ![r].event = e]
    /\ UNCHANGED <<clock, epoch, memoryLatest, inserts, rows>>

SelectFailed(r) ==
    /\ call[r].at = "selecting"
    /\ Move(r, "error")
    /\ UNCHANGED <<clock, epoch, memoryLatest, inserts, rows>>

(* row ?? memoryLatest *)
Latest(r) ==
    /\ call[r].at = "selected"
    /\ call' = [call EXCEPT ![r].at = "ok",
                            ![r].event = IF @ = NoEvent
                                           THEN memoryLatest[call[r].isolate]
                                           ELSE @]
    /\ UNCHANGED <<clock, epoch, memoryLatest, inserts, rows>>

-----------------------------------------------------------------------------
Tick(i) ==
    /\ clock[i] < MaxTime
    /\ clock' = [clock EXCEPT ![i] = @ + 1]
    /\ UNCHANGED <<epoch, memoryLatest, call, inserts, rows>>

Pending(r) == call[r].at \notin {"idle", "ok", "error", "dead"}

(* An isolate is evicted and later started again. *)
Restart(i) ==
    /\ epoch[i] < MaxRestarts
    /\ epoch' = [epoch EXCEPT ![i] = @ + 1]
    /\ memoryLatest' = [memoryLatest EXCEPT ![i] = NoEvent]
    /\ call' = [r \in Requests |->
                 IF Pending(r) /\ call[r].isolate = i
                   THEN [call[r] EXCEPT !.at = "dead"] ELSE call[r]]
    /\ UNCHANGED <<clock, inserts, rows>>

(* A handler's own steps; the answers of D1 are among them. *)
Handle(r) ==
    \/ Reject(r) \/ Compute(r) \/ Record(r) \/ Inserted(r) \/ InsertFailed(r)
    \/ Select(r) \/ SelectFailed(r) \/ Latest(r)

Step ==
    \/ \E r \in Requests : Post(r) \/ GetLatest(r) \/ Handle(r)
    \/ \E event \in inserts : Commit(event)
    \/ \E i \in Isolates : Tick(i) \/ Restart(i)

Next == Step /\ UNCHANGED bound

Spec == Init /\ [][Next]_vars

-----------------------------------------------------------------------------
(* Properties.                                                             *)

TypeOK ==
    /\ bound \in BOOLEAN
    /\ clock \in [Isolates -> 1 .. MaxTime]
    /\ epoch \in [Isolates -> 0 .. MaxRestarts]
    /\ memoryLatest \in [Isolates -> Event \cup {NoEvent}]
    /\ call \in [Requests -> Handler]
    /\ inserts \subseteq Event
    /\ rows \subseteq Event

(***************************************************************************)
(* README.md:401: events are stored in D1 when the binding is available.   *)
(* A client that was answered 200 finds its event in the table, even if    *)
(* the isolate was restarted, and whatever other handlers were awaiting.   *)
(***************************************************************************)
AnsweredIsStored ==
    bound => \A r \in Requests :
        call[r].kind = "post" /\ call[r].at = "ok" => call[r].event \in rows

(***************************************************************************)
(* A GET /api/latest sent after a POST was answered 200 returns that event *)
(* or one with no smaller created_at, on every isolate, through restarts   *)
(* and the failed INSERTs of others.  Without the binding the isolate that *)
(* answered the POST does so until it is restarted.                        *)
(***************************************************************************)
LatestIsFresh ==
    \A r \in Requests :
        call[r].kind = "latest" /\ call[r].at = "ok" /\ call[r].floor > 0
            => /\ call[r].event # NoEvent
               /\ call[r].event.created_at >= call[r].floor
=============================================================================
