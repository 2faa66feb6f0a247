---------------------------- MODULE Worker_proof ----------------------------
(***************************************************************************)
(* For any number of requests and isolates: an event that was answered 200 *)
(* is in the table, and what is served is no older than what its client    *)
(* knew of.                                                                *)
(***************************************************************************)
EXTENDS Worker, TLAPS

-----------------------------------------------------------------------------
(* The inductive invariant: what the handlers rely on between two awaits.  *)

(* Only a POST computes and inserts, only a GET selects, and neither has   *)
(* an event before it begins.                                              *)
KindsAgree ==
    \A r \in Requests :
        /\ call[r].kind = "latest" =>
             call[r].at \notin {"computing", "recording", "inserting"}
        /\ call[r].kind = "post" => call[r].at \notin {"selecting", "selected"}
        /\ call[r].at = "idle" => call[r].event = NoEvent

(* A POST that got as far as its INSERT has made an event.                 *)
HasMade ==
    \A r \in Requests :
        call[r].kind = "post" /\ call[r].at \in {"inserting", "ok"}
            => call[r].event \in Event

(* Without the binding nothing is stored, awaited or found.                *)
NothingStored ==
    ~bound => /\ rows = {} /\ inserts = {}
              /\ \A r \in Requests :
                   /\ call[r].at \notin {"inserting", "selecting"}
                   /\ call[r].at = "selected" => call[r].event = NoEvent

(* A handler under way is one of its isolate's present life.               *)
OfThisEpoch ==
    \A r \in Requests :
        /\ call[r].epoch <= epoch[call[r].isolate]
        /\ Pending(r) => call[r].epoch = epoch[call[r].isolate]

(* An isolate's global was stamped by its own clock.                       *)
StampedBefore ==
    \A i \in Isolates :
        memoryLatest[i] # NoEvent => memoryLatest[i].created_at <= clock[i]

(* Without the binding the global is no older than what its isolate, in    *)
(* this life, has answered.                                                *)
MemoryKeepsUp ==
    ~bound => \A r \in Requests :
        /\ call[r].kind = "post" /\ call[r].at = "ok"
        /\ call[r].epoch = epoch[call[r].isolate]
        => /\ memoryLatest[call[r].isolate] # NoEvent
           /\ memoryLatest[call[r].isolate].created_at >= call[r].event.created_at

(* A GET under way will find, or has found, what its client knew of.       *)
AsNewAs(e, floor) == e # NoEvent /\ e.created_at >= floor
CanBeFound(r) ==
    call[r].floor > 0 =>
        /\ call[r].at = "selecting" => \E e \in rows : AsNewAs(e, call[r].floor)
        /\ call[r].at = "selected" =>
             AsNewAs(IF bound THEN call[r].event ELSE memoryLatest[call[r].isolate],
                     call[r].floor)
        /\ call[r].at = "ok" => AsNewAs(call[r].event, call[r].floor)
FloorCanBeFound == \A r \in Requests : call[r].kind = "latest" => CanBeFound(r)

IInv ==
    /\ TypeOK /\ KindsAgree /\ HasMade /\ NothingStored /\ OfThisEpoch
    /\ StampedBefore /\ MemoryKeepsUp /\ AnsweredIsStored /\ FloorCanBeFound

LEMMA InitHolds == Init => IInv
BY NoEventAssumption, BoundsAssumption
   DEF Init, IInv, TypeOK, KindsAgree, HasMade, NothingStored, OfThisEpoch,
       StampedBefore, MemoryKeepsUp, AnsweredIsStored, FloorCanBeFound, CanBeFound,
       Handler, Event, Pending

-----------------------------------------------------------------------------
(* What a step may be, and what it leaves alone.                           *)

(* A handler moves alone, and stays what and where it is.                  *)
LEMMA HandlersAlone ==
    ASSUME TypeOK, NEW r \in Requests, Post(r) \/ GetLatest(r) \/ Handle(r)
    PROVE  /\ call' = [call EXCEPT ![r] = call'[r]]
           /\ \A q \in Requests \ {r} : call'[q] = call[q]
           /\ call'[r].kind = call[r].kind /\ call'[r].isolate = call[r].isolate
           /\ UNCHANGED <<clock, epoch, rows>>
           /\ ~Record(r) => UNCHANGED memoryLatest
           /\ ~Record(r) /\ ~InsertFailed(r) => UNCHANGED inserts
BY DEF TypeOK, Handler, Post, GetLatest, Handle, Reject, Compute, Record, Inserted,
       InsertFailed, Select, SelectFailed, Latest, Move

(* The fields that a step may write, of their types.                       *)
LEMMA HandlerIs ==
    ASSUME NEW h \in Handler, NEW g,
           NEW at \in {"idle", "computing", "recording", "inserting", "selecting",
                       "selected", "ok", "error", "dead"},
           NEW life \in 0 .. MaxRestarts, NEW event \in Event \cup {NoEvent},
           NEW floor \in 0 .. MaxTime,
           g = [h EXCEPT !.at = at, !.epoch = life, !.event = event, !.floor = floor]
    PROVE  g \in Handler
BY DEF Handler

LEMMA HandlersTyped ==
    ASSUME TypeOK, HasMade, NEW r \in Requests, Post(r) \/ GetLatest(r) \/ Handle(r)
    PROVE  call'[r] \in Handler
<1> DEFINE h == call[r]
           i == h.isolate
           g(at, life, event, floor) ==
             [h EXCEPT !.at = at, !.epoch = life, !.event = event, !.floor = floor]
<1>1. /\ h \in Handler /\ i \in Isolates
      /\ h.at \in {"idle", "computing", "recording", "inserting", "selecting",
                   "selected", "ok", "error", "dead"}
      /\ h.epoch \in 0 .. MaxRestarts /\ h.event \in Event \cup {NoEvent}
      /\ h.floor \in 0 .. MaxTime
      /\ epoch[i] \in 0 .. MaxRestarts /\ clock[i] \in 1 .. MaxTime
      /\ memoryLatest[i] \in Event \cup {NoEvent}
    BY DEF TypeOK, Handler
<1>2. CASE Post(r)
    <2>1. call'[r] = g("computing", epoch[i], h.event, h.floor)
        BY <1>1, <1>2 DEF Post, TypeOK, Handler
    <2> QED
        BY <1>1, <2>1, HandlerIs
<1>3. CASE GetLatest(r)
    <2>1. Floors(i) \subseteq 0 .. MaxTime
        BY BoundsAssumption DEF Floors, Answered, HasMade, Event
    <2>2. PICK floor \in Floors(i) :
            call' = [call EXCEPT ![r].at = IF bound THEN "selecting" ELSE "selected",
                                 ![r].epoch = epoch[i], ![r].floor = floor]
        BY <1>3 DEF GetLatest
    <2>3. call'[r] = g(IF bound THEN "selecting" ELSE "selected", epoch[i], h.event, floor)
        BY <1>1, <2>2 DEF TypeOK, Handler
    <2>4. floor \in 0 .. MaxTime
        BY <2>1, <2>2
    <2> QED
        BY <1>1, <2>3, <2>4, HandlerIs, ZenonT(30)
<1>4. CASE Record(r)
    <2>1. [id |-> r, created_at |-> clock[i]] \in Event
        BY <1>1 DEF Event
    <2>2. call'[r] = g(IF bound THEN "inserting" ELSE "ok", h.epoch,
                       [id |-> r, created_at |-> clock[i]], h.floor)
        BY <1>1, <1>4 DEF Record, TypeOK, Handler
    <2> QED
        BY <1>1, <2>1, <2>2, HandlerIs, ZenonT(30)
<1>5. CASE Select(r)
    <2>1. CASE Move(r, "selected")
        <3>1. call'[r] = g("selected", h.epoch, h.event, h.floor)
            BY <1>1, <2>1 DEF Move, TypeOK, Handler
        <3> QED
            BY <1>1, <3>1, HandlerIs
    <2>2. CASE \E e \in Newest(rows) :
                 call' = [call EXCEPT ![r].at = "selected", ![r].event = e]
        <3>1. PICK e \in rows :
                call' = [call EXCEPT ![r].at = "selected", ![r].event = e]
            BY <2>2 DEF Newest
        <3>2. call'[r] = g("selected", h.epoch, e, h.floor) /\ e \in Event
            BY <1>1, <3>1 DEF TypeOK, Handler
        <3> QED
            BY <1>1, <3>2, HandlerIs
    <2> QED
        BY <1>5, <2>1, <2>2 DEF Select
<1>6. CASE Latest(r)
    <2>1. call'[r] = g("ok", h.epoch, IF h.event = NoEvent THEN memoryLatest[i] ELSE h.event,
                       h.floor)
        BY <1>1, <1>6 DEF Latest, TypeOK, Handler
    <2> QED
        BY <1>1, <2>1, HandlerIs, ZenonT(30)
<1>7. CASE Reject(r) \/ Compute(r) \/ Inserted(r) \/ InsertFailed(r) \/ SelectFailed(r)
    <2>1. PICK at \in {"recording", "ok", "error"} : call' = [call EXCEPT ![r].at = at]
        BY <1>7 DEF Reject, Compute, Inserted, InsertFailed, SelectFailed, Move
    <2>2. call'[r] = g(at, h.epoch, h.event, h.floor)
        BY <1>1, <2>1 DEF TypeOK, Handler
    <2> QED
        BY <1>1, <2>2, HandlerIs, ZenonT(30)
<1> QED
    BY <1>2, <1>3, <1>4, <1>5, <1>6, <1>7 DEF Handle

LEMMA TypesKept == TypeOK /\ HasMade /\ Next => TypeOK'
<1> SUFFICES ASSUME TypeOK, HasMade, Next PROVE TypeOK'
    OBVIOUS
<1>1. CASE \E r \in Requests : Post(r) \/ GetLatest(r) \/ Handle(r)
    <2> PICK r \in Requests : Post(r) \/ GetLatest(r) \/ Handle(r)
        BY <1>1
    <2>1. UNCHANGED <<bound, clock, epoch, rows>>
        BY HandlersAlone DEF Next
    <2>2. call' \in [Requests -> Handler]
        BY HandlersAlone, HandlersTyped DEF TypeOK
    <2>3. memoryLatest' \in [Isolates -> Event \cup {NoEvent}] /\ inserts' \subseteq Event
        <3>1. CASE Record(r)
            <4>1. call[r].isolate \in Isolates /\ clock[call[r].isolate] \in 1 .. MaxTime
                BY DEF TypeOK, Handler
            <4>2. [id |-> r, created_at |-> clock[call[r].isolate]] \in Event
                BY <4>1 DEF Event
            <4> QED
                BY <3>1, <4>2 DEF Record, TypeOK
        <3>2. CASE InsertFailed(r)
            BY <3>2, HandlersAlone DEF InsertFailed, TypeOK
        <3>3. CASE ~Record(r) /\ ~InsertFailed(r)
            BY <3>3, HandlersAlone DEF TypeOK
        <3> QED
            BY <3>1, <3>2, <3>3
    <2> QED
        BY <2>1, <2>2, <2>3 DEF TypeOK
<1>2. CASE \E event \in inserts : Commit(event)
    BY <1>2 DEF Commit, TypeOK, Next
<1>3. CASE \E i \in Isolates : Tick(i)
    BY <1>3, BoundsAssumption DEF Tick, TypeOK, Next
<1>4. CASE \E i \in Isolates : Restart(i)
    BY <1>4, BoundsAssumption DEF Restart, TypeOK, Next, Handler
<1> QED
    BY <1>1, <1>2, <1>3, <1>4 DEF Next, Step

-----------------------------------------------------------------------------
(* One lemma for each part of the invariant.  A step of one handler is told*)
(* by where it takes the handler; what the others have is as it was.       *)

(* From where to where.                                                    *)
LEMMA Moves ==
    ASSUME TypeOK, NEW r \in Requests
    PROVE  /\ Post(r) => /\ call[r].kind = "post" /\ call'[r].at = "computing"
                         /\ call'[r].epoch = epoch[call[r].isolate]
           /\ GetLatest(r) =>
                /\ call[r].kind = "latest" /\ call[r].at = "idle"
                /\ call'[r].at = IF bound THEN "selecting" ELSE "selected"
                /\ call'[r].epoch = epoch[call[r].isolate]
                /\ call'[r].event = call[r].event
                /\ call'[r].floor \in Floors(call[r].isolate)
           /\ Record(r) => /\ call[r].at = "recording"
                           /\ call'[r].at = IF bound THEN "inserting" ELSE "ok"
           /\ Record(r) \/ Select(r) \/ Latest(r) => call'[r].epoch = call[r].epoch
           /\ Select(r) => call[r].at = "selecting" /\ call'[r].at = "selected"
           /\ Latest(r) => call[r].at = "selected" /\ call'[r].at = "ok"
           /\ Handle(r) => call'[r].floor = call[r].floor
<1>1. call[r] \in Handler
    BY DEF TypeOK
<1>2. Post(r) => /\ call[r].kind = "post" /\ call'[r].at = "computing"
                 /\ call'[r].epoch = epoch[call[r].isolate]
    BY DEF Post, TypeOK, Handler
<1>3. ASSUME GetLatest(r)
      PROVE  /\ call[r].kind = "latest" /\ call[r].at = "idle"
             /\ call'[r].at = IF bound THEN "selecting" ELSE "selected"
             /\ call'[r].epoch = epoch[call[r].isolate]
             /\ call'[r].event = call[r].event
             /\ call'[r].floor \in Floors(call[r].isolate)
    BY <1>3 DEF GetLatest, TypeOK, Handler
<1>4. Record(r) => /\ call[r].at = "recording"
                   /\ call'[r].at = IF bound THEN "inserting" ELSE "ok"
                   /\ call'[r].epoch = call[r].epoch
    BY DEF Record, TypeOK, Handler
<1>5. Select(r) => /\ call[r].at = "selecting" /\ call'[r].at = "selected"
                   /\ call'[r].epoch = call[r].epoch
    BY DEF Select, Move, TypeOK, Handler
<1>6. Latest(r) => /\ call[r].at = "selected" /\ call'[r].at = "ok"
                   /\ call'[r].epoch = call[r].epoch
    BY DEF Latest, TypeOK, Handler
<1>7. Handle(r) => call'[r].floor = call[r].floor
    BY DEF Handle, Reject, Compute, Record, Inserted, InsertFailed, Select,
           SelectFailed, Latest, Move, TypeOK, Handler
<1> QED
    BY <1>2, <1>3, <1>4, <1>5, <1>6, <1>7

(* The five steps that only move a handler.                                *)
LEMMA PlainMoves ==
    ASSUME TypeOK, NEW r \in Requests
    PROVE  /\ Reject(r) => call[r].at = "computing" /\ call'[r].at = "error"
           /\ Compute(r) => call[r].at = "computing" /\ call'[r].at = "recording"
           /\ Inserted(r) => /\ call[r].at = "inserting" /\ call'[r].at = "ok"
                             /\ call[r].event \in rows
           /\ InsertFailed(r) => call[r].at = "inserting" /\ call'[r].at = "error"
           /\ SelectFailed(r) => call[r].at = "selecting" /\ call'[r].at = "error"
           /\ Reject(r) \/ Compute(r) \/ Inserted(r) \/ InsertFailed(r) \/ SelectFailed(r)
                => call'[r].event = call[r].event /\ call'[r].epoch = call[r].epoch
BY DEF Reject, Compute, Inserted, InsertFailed, SelectFailed, Move, TypeOK, Handler

(* An isolate's end leaves what is over and ends the rest.                 *)
LEMMA RestartIs ==
    ASSUME TypeOK, NEW i \in Isolates, Restart(i), NEW r \in Requests
    PROVE  \/ call'[r] = call[r] /\ ~(Pending(r) /\ call[r].isolate = i)
           \/ /\ call[r].isolate = i /\ call'[r].at = "dead"
              /\ call'[r].kind = call[r].kind /\ call'[r].isolate = i
              /\ call'[r].epoch = call[r].epoch
BY DEF Restart, TypeOK, Handler

LEMMA KindsKept == TypeOK /\ KindsAgree /\ Next => KindsAgree'
<1> SUFFICES ASSUME TypeOK, KindsAgree, Next, NEW r \in Requests
             PROVE  /\ call'[r].kind = "latest" =>
                         call'[r].at \notin {"computing", "recording", "inserting"}
                    /\ call'[r].kind = "post" => call'[r].at \notin {"selecting", "selected"}
                    /\ call'[r].at = "idle" => call'[r].event = NoEvent
    BY DEF KindsAgree
<1>1. CASE Post(r) \/ GetLatest(r) \/ Handle(r)
    BY <1>1, Moves, PlainMoves, HandlersAlone DEF Handle, KindsAgree
<1>2. CASE \E q \in Requests \ {r} : Post(q) \/ GetLatest(q) \/ Handle(q)
    BY <1>2, HandlersAlone DEF KindsAgree
<1>3. CASE (\E event \in inserts : Commit(event)) \/ \E i \in Isolates : Tick(i)
    BY <1>3 DEF Commit, Tick, KindsAgree
<1>4. CASE \E i \in Isolates : Restart(i)
    BY <1>4, RestartIs DEF KindsAgree
<1> QED
    BY <1>1, <1>2, <1>3, <1>4 DEF Next, Step

LEMMA RecordIs ==
    ASSUME TypeOK, NEW r \in Requests, Record(r)
    PROVE  /\ call'[r].event \in Event /\ call'[r].event # NoEvent
           /\ call'[r].event.created_at = clock[call[r].isolate]
           /\ memoryLatest' = [memoryLatest EXCEPT ![call[r].isolate] = call'[r].event]
<1>1. call[r].isolate \in Isolates /\ clock[call[r].isolate] \in 1 .. MaxTime
    BY DEF TypeOK, Handler
<1>2. call'[r].event = [id |-> r, created_at |-> clock[call[r].isolate]]
    BY DEF Record, TypeOK, Handler
<1>3. call'[r].event \in Event
    BY <1>1, <1>2 DEF Event
<1>4. memoryLatest' = [memoryLatest EXCEPT ![call[r].isolate] = call'[r].event]
    BY <1>2 DEF Record
<1>5. NoEvent \notin Event
    BY NoEventAssumption DEF Event
<1> QED
    BY <1>2, <1>3, <1>4, <1>5

LEMMA HasMadeKept == TypeOK /\ KindsAgree /\ HasMade /\ Next => HasMade'
<1> SUFFICES ASSUME TypeOK, KindsAgree, HasMade, Next, NEW r \in Requests,
                    call'[r].kind = "post", call'[r].at \in {"inserting", "ok"}
             PROVE  call'[r].event \in Event'
    BY DEF HasMade
<1>0. Event' = Event /\ call[r].kind \in {"post", "latest"}
    BY DEF Event, TypeOK, Handler
<1>1. CASE Record(r)
    BY <1>0, <1>1, RecordIs
<1>2. CASE (Post(r) \/ GetLatest(r) \/ Handle(r)) /\ ~Record(r)
    <2>1. CASE Post(r) \/ GetLatest(r) \/ Select(r) \/ Latest(r)
        BY <1>0, <2>1, Moves, HandlersAlone DEF Handle, KindsAgree
    <2>2. CASE Reject(r) \/ Compute(r) \/ Inserted(r) \/ InsertFailed(r) \/ SelectFailed(r)
        BY <1>0, <2>2, PlainMoves, HandlersAlone DEF Handle, HasMade
    <2> QED
        BY <1>2, <2>1, <2>2 DEF Handle
<1>3. CASE \E q \in Requests \ {r} : Post(q) \/ GetLatest(q) \/ Handle(q)
    BY <1>0, <1>3, HandlersAlone DEF HasMade
<1>4. CASE (\E event \in inserts : Commit(event)) \/ \E i \in Isolates : Tick(i)
    BY <1>0, <1>4 DEF Commit, Tick, HasMade
<1>5. CASE \E i \in Isolates : Restart(i)
    BY <1>0, <1>5, RestartIs DEF HasMade
<1> QED
    BY <1>1, <1>2, <1>3, <1>4, <1>5 DEF Next, Step

(* Without the binding Record makes no INSERT, hence inserts stays empty.  *)
LEMMA NothingStoredKept ==
    TypeOK /\ KindsAgree /\ NothingStored /\ Next => NothingStored'
<1> SUFFICES ASSUME TypeOK, KindsAgree, NothingStored, Next, ~bound
             PROVE  NothingStored'
    BY DEF NothingStored, Next
<1>0. rows = {} /\ inserts = {} /\ bound' = bound
    BY DEF NothingStored, Next
<1>1. ASSUME NEW r \in Requests, Post(r) \/ GetLatest(r) \/ Handle(r)
      PROVE  NothingStored'
    <2>1. /\ rows' = {} /\ inserts' = {}
        BY <1>0, <1>1, HandlersAlone DEF Record, InsertFailed
    <2>2. /\ call'[r].at \notin {"inserting", "selecting"}
          /\ call'[r].at = "selected" => call'[r].event = NoEvent
        <3>1. CASE Post(r) \/ GetLatest(r) \/ Record(r) \/ Select(r) \/ Latest(r)
            <4>1. call[r].at # "selecting" /\ ~Select(r)
                BY <1>0, Moves DEF NothingStored
            <4>2. GetLatest(r) => call[r].event = NoEvent
                BY Moves DEF KindsAgree
            <4> QED
                BY <1>0, <3>1, <4>1, <4>2, Moves DEF NothingStored
        <3>2. CASE Reject(r) \/ Compute(r) \/ Inserted(r) \/ InsertFailed(r) \/ SelectFailed(r)
            BY <1>0, <3>2, PlainMoves
        <3> QED
            BY <1>1, <3>1, <3>2 DEF Handle
    <2> QED
        BY <1>0, <1>1, <2>1, <2>2, HandlersAlone DEF NothingStored
<1>2. CASE (\E event \in inserts : Commit(event)) \/ \E i \in Isolates : Tick(i)
    BY <1>0, <1>2 DEF Commit, Tick, NothingStored
<1>3. CASE \E i \in Isolates : Restart(i)
    BY <1>0, <1>3, RestartIs DEF NothingStored, Restart
<1> QED
    BY <1>1, <1>2, <1>3 DEF Next, Step

LEMMA OfThisEpochKept == TypeOK /\ OfThisEpoch /\ Next => OfThisEpoch'
<1> SUFFICES ASSUME TypeOK, OfThisEpoch, Next, NEW r \in Requests
             PROVE  /\ call'[r].epoch <= epoch'[call'[r].isolate]
                    /\ Pending(r)' => call'[r].epoch = epoch'[call'[r].isolate]
    BY DEF OfThisEpoch
<1>0. /\ call[r].isolate \in Isolates /\ call[r].epoch \in Nat
      /\ \A i \in Isolates : epoch[i] \in Nat
    BY BoundsAssumption DEF TypeOK, Handler
<1>1. CASE Post(r) \/ GetLatest(r) \/ Record(r) \/ Select(r) \/ Latest(r)
    BY <1>0, <1>1, Moves, HandlersAlone DEF Handle, OfThisEpoch, Pending
<1>2. CASE Reject(r) \/ Compute(r) \/ Inserted(r) \/ InsertFailed(r) \/ SelectFailed(r)
    BY <1>0, <1>2, PlainMoves, HandlersAlone DEF Handle, OfThisEpoch, Pending
<1>3. CASE \E q \in Requests \ {r} : Post(q) \/ GetLatest(q) \/ Handle(q)
    BY <1>3, HandlersAlone DEF OfThisEpoch, Pending
<1>4. CASE (\E event \in inserts : Commit(event)) \/ \E i \in Isolates : Tick(i)
    BY <1>4 DEF Commit, Tick, OfThisEpoch, Pending
<1>5. ASSUME NEW i \in Isolates, Restart(i)
      PROVE  /\ call'[r].epoch <= epoch'[call'[r].isolate]
             /\ Pending(r)' => call'[r].epoch = epoch'[call'[r].isolate]
    <2>1. epoch' = [epoch EXCEPT ![i] = @ + 1]
        BY <1>5 DEF Restart
    <2> QED
        BY <1>0, <1>5, <2>1, RestartIs DEF TypeOK, OfThisEpoch, Pending
<1> QED
    BY <1>1, <1>2, <1>3, <1>4, <1>5 DEF Next, Step, Handle

LEMMA StampedBeforeKept == TypeOK /\ StampedBefore /\ Next => StampedBefore'
<1> SUFFICES ASSUME TypeOK, StampedBefore, Next, NEW i \in Isolates,
                    memoryLatest'[i] # NoEvent
             PROVE  memoryLatest'[i].created_at <= clock'[i]
    BY DEF StampedBefore
<1>0. /\ clock[i] \in Nat
      /\ memoryLatest[i] # NoEvent => memoryLatest[i].created_at \in Nat
    BY DEF TypeOK, Event
<1>1. ASSUME NEW r \in Requests, Post(r) \/ GetLatest(r) \/ Handle(r)
      PROVE  memoryLatest'[i].created_at <= clock'[i]
    <2>1. CASE Record(r)
        BY <1>0, <1>1, <2>1, RecordIs, HandlersAlone DEF StampedBefore, TypeOK
    <2>2. CASE ~Record(r)
        BY <1>1, <2>2, HandlersAlone DEF StampedBefore
    <2> QED
        BY <2>1, <2>2
<1>2. CASE \E event \in inserts : Commit(event)
    BY <1>2 DEF Commit, StampedBefore
<1>3. CASE \E j \in Isolates : Tick(j)
    BY <1>0, <1>3 DEF Tick, StampedBefore, TypeOK
<1>4. CASE \E j \in Isolates : Restart(j)
    BY <1>4 DEF Restart, StampedBefore, TypeOK
<1> QED
    BY <1>1, <1>2, <1>3, <1>4 DEF Next, Step

(* A newer global has a later stamp of the same clock; a restart ends the  *)
(* life in which it was promised.                                          *)
LEMMA MemoryKeepsUpKept ==
    TypeOK /\ KindsAgree /\ HasMade /\ NothingStored /\ OfThisEpoch /\ StampedBefore
      /\ MemoryKeepsUp /\ Next
    => MemoryKeepsUp'
<1> SUFFICES ASSUME TypeOK, KindsAgree, HasMade, NothingStored, OfThisEpoch, StampedBefore,
                    MemoryKeepsUp, Next, ~bound, NEW r \in Requests,
                    call'[r].kind = "post", call'[r].at = "ok",
                    call'[r].epoch = epoch'[call'[r].isolate]
             PROVE  /\ memoryLatest'[call'[r].isolate] # NoEvent
                    /\ memoryLatest'[call'[r].isolate].created_at >= call'[r].event.created_at
    BY DEF MemoryKeepsUp, Next
<1> DEFINE i == call[r].isolate
<1>0. i \in Isolates /\ call[r].kind \in {"post", "latest"}
    BY DEF TypeOK, Handler
<1>1. CASE Record(r)
    BY <1>0, <1>1, RecordIs, HandlersAlone DEF Handle, TypeOK, Event
<1>2. CASE (Post(r) \/ GetLatest(r) \/ Handle(r)) /\ ~Record(r)
    <2>1. call[r].at # "inserting"
        BY DEF NothingStored
    <2> QED
        BY <1>0, <1>2, <2>1, Moves, PlainMoves, HandlersAlone DEF Handle, KindsAgree
<1>3. ASSUME NEW q \in Requests \ {r}, Post(q) \/ GetLatest(q) \/ Handle(q)
      PROVE  /\ memoryLatest'[call'[r].isolate] # NoEvent
             /\ memoryLatest'[call'[r].isolate].created_at >= call'[r].event.created_at
    <2>1. call'[r] = call[r] /\ epoch' = epoch
        BY <1>3, HandlersAlone
    <2>2. /\ memoryLatest[i] # NoEvent
          /\ memoryLatest[i].created_at >= call[r].event.created_at
        BY <2>1 DEF MemoryKeepsUp
    <2>3. CASE Record(q) /\ call[q].isolate = i
        <3>1. memoryLatest'[i] = call'[q].event /\ call'[q].event # NoEvent
                /\ call'[q].event.created_at = clock[i]
            BY <1>0, <2>3, RecordIs DEF TypeOK
        <3>2. memoryLatest[i].created_at <= clock[i]
            BY <1>0, <2>2 DEF StampedBefore
        <3>3. /\ clock[i] \in Nat /\ memoryLatest[i].created_at \in Nat
              /\ call[r].event.created_at \in Nat
            BY <1>0, <2>1, <2>2 DEF TypeOK, HasMade, Event
        <3> QED
            BY <2>1, <2>2, <3>1, <3>2, <3>3
    <2>4. CASE ~(Record(q) /\ call[q].isolate = i)
        <3>1. memoryLatest'[i] = memoryLatest[i]
            BY <1>0, <1>3, <2>4, RecordIs, HandlersAlone DEF TypeOK
        <3> QED
            BY <2>1, <2>2, <3>1
    <2> QED
        BY <2>3, <2>4
<1>4. CASE (\E event \in inserts : Commit(event)) \/ \E j \in Isolates : Tick(j)
    BY <1>4 DEF Commit, Tick, MemoryKeepsUp
<1>5. ASSUME NEW j \in Isolates, Restart(j)
      PROVE  /\ memoryLatest'[call'[r].isolate] # NoEvent
             /\ memoryLatest'[call'[r].isolate].created_at >= call'[r].event.created_at
    <2>1. call'[r] = call[r]
        BY <1>5, RestartIs
    <2>2. i # j
        <3>1. epoch[i] \in Nat /\ call[r].epoch <= epoch[i]
            BY <1>0, BoundsAssumption DEF TypeOK, OfThisEpoch
        <3>2. i = j => epoch'[i] = epoch[i] + 1
            BY <1>0, <1>5 DEF Restart, TypeOK
        <3> QED
            BY <2>1, <3>1, <3>2
    <2> QED
        BY <1>0, <1>5, <2>1, <2>2 DEF Restart, TypeOK, MemoryKeepsUp
<1> QED
    BY <1>1, <1>2, <1>3, <1>4, <1>5 DEF Next, Step

(* A handler waits for its INSERT, and rows stay.                          *)
LEMMA AnsweredIsStoredKept ==
    TypeOK /\ KindsAgree /\ AnsweredIsStored /\ Next => AnsweredIsStored'
<1> SUFFICES ASSUME TypeOK, KindsAgree, AnsweredIsStored, Next, bound, NEW r \in Requests,
                    call'[r].kind = "post", call'[r].at = "ok"
             PROVE  call'[r].event \in rows'
    BY DEF AnsweredIsStored, Next
<1>0. call[r].kind \in {"post", "latest"}
    BY DEF TypeOK, Handler
<1>1. CASE Post(r) \/ GetLatest(r) \/ Handle(r)
    <2>1. Inserted(r)
        BY <1>0, <1>1, Moves, PlainMoves, HandlersAlone DEF Handle, KindsAgree
    <2> QED
        BY <1>1, <2>1, PlainMoves, HandlersAlone
<1>2. CASE \E q \in Requests \ {r} : Post(q) \/ GetLatest(q) \/ Handle(q)
    BY <1>2, HandlersAlone DEF AnsweredIsStored
<1>3. CASE (\E event \in inserts : Commit(event)) \/ \E i \in Isolates : Tick(i)
    BY <1>3 DEF Commit, Tick, AnsweredIsStored
<1>4. CASE \E i \in Isolates : Restart(i)
    <2>1. rows' = rows
        BY <1>4 DEF Restart
    <2> QED
        BY <1>4, <2>1, RestartIs DEF AnsweredIsStored
<1> QED
    BY <1>1, <1>2, <1>3, <1>4 DEF Next, Step

(* The handler of a GET: what its client knew of is stored, or in the      *)
(* global, when it begins; the newest row is no older, and found in time.  *)
LEMMA OwnStepFinds ==
    ASSUME TypeOK, KindsAgree, HasMade, NothingStored, MemoryKeepsUp, AnsweredIsStored,
           FloorCanBeFound, bound' = bound,
           NEW r \in Requests, call[r].kind = "latest",
           Post(r) \/ GetLatest(r) \/ Handle(r)
    PROVE  CanBeFound(r)'
<1> DEFINE i == call[r].isolate
<1>0. /\ rows' = rows /\ call'[r].isolate = i /\ call'[r].kind = "latest"
      /\ ~Record(r) /\ memoryLatest' = memoryLatest
    BY HandlersAlone, Moves DEF KindsAgree
<1>1. CASE GetLatest(r) /\ call'[r].floor > 0
    <2>1. PICK q \in Requests :
            /\ call[q].kind = "post" /\ call[q].at = "ok"
            /\ bound \/ (call[q].isolate = i /\ call[q].epoch = epoch[i])
            /\ call'[r].floor = call[q].event.created_at
        BY <1>1, Moves DEF Floors, Answered
    <2>2. call[q].event \in Event /\ call[q].event # NoEvent
        BY <2>1, NoEventAssumption DEF HasMade, Event
    <2>3. CASE bound
        <3>1. call[q].event \in rows /\ AsNewAs(call[q].event, call'[r].floor)
            BY <2>1, <2>2, <2>3 DEF AnsweredIsStored, AsNewAs, Event
        <3> QED
            BY <1>0, <1>1, <2>3, <3>1, Moves DEF CanBeFound, AsNewAs
    <2>4. CASE ~bound
        <3>1. AsNewAs(memoryLatest[i], call'[r].floor)
            BY <2>1, <2>4 DEF MemoryKeepsUp, AsNewAs
        <3> QED
            BY <1>0, <1>1, <2>4, <3>1, Moves DEF CanBeFound, AsNewAs
    <2> QED
        BY <2>3, <2>4
<1>2. CASE Select(r) /\ call[r].floor > 0
    <2>1. bound /\ call[r].at = "selecting"
        BY <1>2, Moves DEF NothingStored
    <2>2. PICK e \in rows : AsNewAs(e, call[r].floor)
        BY <1>2, <2>1 DEF FloorCanBeFound, CanBeFound
    <2>3. PICK f \in rows : /\ f.created_at >= e.created_at
                            /\ call' = [call EXCEPT ![r].at = "selected", ![r].event = f]
        BY <1>2, <2>2 DEF Select, Newest
    <2>4. call'[r].event = f
        BY <2>3 DEF TypeOK, Handler
    <2>5. /\ f \in Event /\ f # NoEvent
          /\ f.created_at \in Nat /\ e.created_at \in Nat /\ call[r].floor \in Nat
        BY NoEventAssumption DEF TypeOK, Event, Handler
    <2>6. AsNewAs(call'[r].event, call[r].floor)
        BY <2>2, <2>3, <2>4, <2>5 DEF AsNewAs
    <2> QED
        BY <1>2, <2>1, <2>6, Moves DEF Handle, CanBeFound, AsNewAs
<1>3. CASE Latest(r) /\ call[r].floor > 0
    <2>1. call[r].at = "selected"
        BY <1>3, Moves
    <2>2. AsNewAs(IF bound THEN call[r].event ELSE memoryLatest[i], call[r].floor)
        BY <1>3, <2>1 DEF FloorCanBeFound, CanBeFound
    <2>3. call'[r].event = IF call[r].event = NoEvent THEN memoryLatest[i] ELSE call[r].event
        BY <1>3 DEF Latest, TypeOK, Handler
    <2>4. AsNewAs(call'[r].event, call[r].floor)
        BY <2>1, <2>2, <2>3 DEF NothingStored, AsNewAs
    <2> QED
        BY <1>3, <2>4, Moves DEF Handle, CanBeFound, AsNewAs
<1>4. CASE ~(call'[r].floor > 0)
    BY <1>4 DEF CanBeFound
<1>5. CASE Post(r) \/ Reject(r) \/ Compute(r) \/ Inserted(r) \/ InsertFailed(r) \/ SelectFailed(r)
    BY <1>5, Moves, PlainMoves DEF KindsAgree, CanBeFound
<1> QED
    BY <1>0, <1>1, <1>2, <1>3, <1>4, <1>5, Moves DEF Handle

LEMMA FloorCanBeFoundKept == IInv /\ Next => FloorCanBeFound'
<1> SUFFICES ASSUME IInv, Next, NEW r \in Requests, call'[r].kind = "latest"
             PROVE  CanBeFound(r)'
    BY DEF FloorCanBeFound
<1> DEFINE i == call[r].isolate
<1>0. /\ i \in Isolates /\ clock[i] \in Nat /\ call[r].floor \in Nat
      /\ memoryLatest[i] # NoEvent => memoryLatest[i].created_at \in Nat
      /\ bound' = bound
    BY DEF IInv, TypeOK, Handler, Event, Next
<1>1. CASE Post(r) \/ GetLatest(r) \/ Handle(r)
    BY <1>0, <1>1, HandlersAlone, OwnStepFinds DEF IInv
<1>2. ASSUME NEW q \in Requests \ {r}, Post(q) \/ GetLatest(q) \/ Handle(q)
      PROVE  CanBeFound(r)'
    <2>1. call'[r] = call[r] /\ rows' = rows
        BY <1>2, HandlersAlone DEF IInv
    <2>2. AsNewAs(memoryLatest[i], call[r].floor) => AsNewAs(memoryLatest'[i], call[r].floor)
        <3>1. CASE Record(q) /\ call[q].isolate = i
            <4>1. memoryLatest'[i] # NoEvent /\ memoryLatest'[i].created_at = clock[i]
                BY <1>0, <3>1, RecordIs DEF IInv, TypeOK
            <4> QED
                BY <1>0, <4>1 DEF IInv, StampedBefore, AsNewAs
        <3>2. CASE ~(Record(q) /\ call[q].isolate = i)
            <4>1. memoryLatest'[i] = memoryLatest[i]
                BY <1>0, <1>2, <3>2, RecordIs, HandlersAlone DEF IInv, TypeOK
            <4> QED
                BY <4>1
        <3> QED
            BY <3>1, <3>2
    <2> QED
        BY <1>0, <2>1, <2>2 DEF IInv, FloorCanBeFound, CanBeFound, AsNewAs
<1>3. CASE \E event \in inserts : Commit(event)
    BY <1>0, <1>3 DEF Commit, IInv, FloorCanBeFound, CanBeFound, AsNewAs
<1>4. CASE \E j \in Isolates : Tick(j)
    BY <1>0, <1>4 DEF Tick, IInv, FloorCanBeFound, CanBeFound, AsNewAs
<1>5. ASSUME NEW j \in Isolates, Restart(j)
      PROVE  CanBeFound(r)'
    <2>1. rows' = rows /\ memoryLatest' = [memoryLatest EXCEPT ![j] = NoEvent]
        BY <1>5 DEF Restart
    <2>2. CASE call'[r].at = "dead"
        BY <2>2 DEF CanBeFound
    <2>3. CASE call'[r] = call[r] /\ ~(Pending(r) /\ i = j)
        BY <1>0, <2>1, <2>3
           DEF IInv, TypeOK, FloorCanBeFound, CanBeFound, AsNewAs, Pending
    <2> QED
        BY <1>5, <2>2, <2>3, RestartIs DEF IInv
<1> QED
    BY <1>1, <1>2, <1>3, <1>4, <1>5 DEF Next, Step

-----------------------------------------------------------------------------
(* No step ends the invariant.                                             *)
THEOREM Inductive == Spec => []IInv
<1>1. IInv /\ UNCHANGED vars => IInv'
    BY DEF vars, IInv, TypeOK, KindsAgree, HasMade, NothingStored, OfThisEpoch,
           StampedBefore, MemoryKeepsUp, AnsweredIsStored, FloorCanBeFound, CanBeFound,
           Pending, AsNewAs, Event, Handler
<1>2. IInv /\ Next => IInv'
    BY TypesKept, KindsKept, HasMadeKept, NothingStoredKept, OfThisEpochKept,
       StampedBeforeKept, MemoryKeepsUpKept, AnsweredIsStoredKept, FloorCanBeFoundKept
       DEF IInv
<1> QED
    BY <1>1, <1>2, InitHolds, PTL DEF Spec

(* All variables stay of their types.                                      *)
THEOREM TypeCorrect == Spec => []TypeOK
<1>1. IInv => TypeOK
    BY DEF IInv
<1> QED
    BY <1>1, Inductive, PTL

(* A POST that was answered 200 is in the table, whatever fails or ends.   *)
THEOREM AlwaysStored == Spec => []AnsweredIsStored
<1>1. IInv => AnsweredIsStored
    BY DEF IInv
<1> QED
    BY <1>1, Inductive, PTL

(* What /api/latest serves is no older than what its client knew of, on    *)
(* every isolate, with clocks that differ, restarts and failed INSERTs.    *)
THEOREM AlwaysFresh == Spec => []LatestIsFresh
<1>1. IInv => LatestIsFresh
    BY DEF IInv, FloorCanBeFound, CanBeFound, AsNewAs, LatestIsFresh
<1> QED
    BY <1>1, Inductive, PTL
=============================================================================
