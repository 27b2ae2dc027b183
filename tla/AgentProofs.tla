----------------------------- MODULE AgentProofs -----------------------------
(***************************************************************************)
(* First the event loop: what holds of Reactor for every set of handlers,  *)
(* every set of intervals, every width of the clock and every length of a  *)
(* pass.                                                                   *)
(*                                                                         *)
(* Then the agent, which runs on that loop: each step of a handler, of a   *)
(* client or of a subprocess is a step of the loop or leaves it alone.  So *)
(* all that is proved of Reactor holds of the agent, and what is proved of *)
(* its handlers may rest on it.                                            *)
(***************************************************************************)
EXTENDS Agent, FiniteSetTheorems, TLAPS


(***************************************************************************)
(* The inductive invariant.  The arrays of a pass are empty outside their  *)
(* phase; a timeout is late by at most the ticks of this pass once the     *)
(* expiry loop has passed it by, and of one more pass before; its wrapped  *)
(* age is its real one as long as that bound is below Wrap.                *)
(***************************************************************************)
Phases ==
  /\ pc \in {"top", "scan", "deliver"} => pds = {}
  /\ pc \in {"top", "dispatch"} => expired = {}
  /\ pc \in {"top", "dispatch", "deliver"} => unscanned = {}

Examined(t) == pc \in {"top", "deliver"} \/ (pc = "scan" /\ t \notin unscanned)

Lateness(t) == IF Examined(t) THEN ticks ELSE MaxPass + ticks

Punctual ==
  \A t \in timeouts : t.age <= t.interval + Lateness(t) /\ Elapsed(t) = t.age

-----------------------------------------------------------------------------
\* A fresh timeout is a record of the right type, with age 0 and the present
\* as its epoch.
LEMMA FreshTimeout ==
  ASSUME TypeOK, NEW i \in Timers, NEW h \in Handlers, NEW d \in Intervals
  PROVE  Timeout(i, h, d) \in TimeoutType
BY DEF TypeOK, Timeout, TimeoutType

\* Ageing a set of timeouts changes nothing but their ages.
LEMMA AgedTimeouts ==
  ASSUME NEW T \in SUBSET TimeoutType
  PROVE  /\ Aged(T) \in SUBSET TimeoutType
         /\ \A t \in Aged(T) : \E o \in T :
              /\ t = [o EXCEPT !.age = o.age + 1]
              /\ t.handler = o.handler /\ t.epoch = o.epoch
              /\ t.interval = o.interval /\ t.age = o.age + 1
BY DEF Aged, TimeoutType

\* setTimeout() as the handlers use it adds at most one fresh timeout.
LEMMA SetTimeoutAdds ==
  ASSUME TypeOK, NEW h \in Handlers, MaySetTimeout(h)
  PROVE  /\ timeouts \subseteq timeouts'
         /\ timeouts' \in SUBSET TimeoutType
         /\ \A t \in timeouts' \ timeouts :
              t.handler = h /\ t.epoch = now /\ t.age = 0 /\ t.interval \in Intervals
<1>1. CASE UNCHANGED timeouts
  BY <1>1 DEF TypeOK
<1>2. CASE SetTimeout(h)
  <2>1. PICK i \in FreeTimers, d \in Intervals : timeouts' = timeouts \cup {Timeout(i, h, d)}
    BY <1>2 DEF SetTimeout
  <2>2. Timeout(i, h, d) \in TimeoutType
    BY <2>1, FreshTimeout DEF FreeTimers
  <2> QED
    BY <2>1, <2>2 DEF Timeout, TypeOK
<1> QED
  BY <1>1, <1>2 DEF MaySetTimeout
-----------------------------------------------------------------------------
\* The types and the phases hold when main() enters its loop.
LEMMA StructureInit == Init => TypeOK /\ Phases
<1> SUFFICES ASSUME Init PROVE TypeOK /\ Phases
  OBVIOUS
<1>1. ticks \in 0 .. MaxPass /\ evtHandlers \in SUBSET Handlers /\ pc \in Steps
  BY ReactorAssumption DEF Init, Steps
<1>2. wantToDie \in BOOLEAN /\ stopped \in BOOLEAN
  BY Zenon DEF Init
<1>3. /\ closed \in SUBSET evtHandlers /\ pds \in SUBSET Handlers
      /\ timeouts \in SUBSET TimeoutType /\ expired \in SUBSET TimeoutType
      /\ unscanned \in SUBSET timeouts
  BY DEF Init
<1> QED
  BY <1>1, <1>2, <1>3 DEF Init, TypeOK, Phases

\* Every step keeps the types and the phases.
LEMMA StructureStep == TypeOK /\ Phases /\ [Next]_vars => TypeOK' /\ Phases'
<1> SUFFICES ASSUME TypeOK, Phases, [Next]_vars PROVE TypeOK' /\ Phases'
  OBVIOUS
<1> USE ReactorAssumption
<1>1. CASE Poll
  BY <1>1 DEF Poll, TypeOK, Phases, Steps
<1>2. CASE EndDispatch
  BY <1>2 DEF EndDispatch, TypeOK, Phases, Steps
<1>3. CASE EndScan
  BY <1>3 DEF EndScan, TypeOK, Phases, Steps
<1>4. CASE DeleteClosed
  BY <1>4 DEF DeleteClosed, TypeOK, Phases, Steps
<1>5. CASE Shutdown
  BY <1>5 DEF Shutdown, Stop, TypeOK, Phases, Steps
<1>6. ASSUME NEW h \in pds, HandleEvent(h) PROVE TypeOK' /\ Phases'
  <2>1. timeouts \subseteq timeouts' /\ timeouts' \in SUBSET TimeoutType
    BY <1>6, SetTimeoutAdds DEF HandleEvent, TypeOK
  <2> QED
    BY <1>6, <2>1 DEF HandleEvent, Serve, TypeOK, Phases, Steps
<1>7. ASSUME NEW h \in pds, Accept(h) PROVE TypeOK' /\ Phases'
  <2>1. timeouts \subseteq timeouts' /\ timeouts' \in SUBSET TimeoutType
    BY <1>7, SetTimeoutAdds DEF Accept
  <2> QED
    BY <1>7, <2>1 DEF Accept, Serve, TypeOK, Phases, Steps
<1>8. ASSUME NEW h \in pds, AcceptNothing(h) \/ DispatchDeleted(h) PROVE TypeOK' /\ Phases'
  BY <1>8 DEF AcceptNothing, DispatchDeleted, Serve, TypeOK, Phases, Steps
<1>9. ASSUME NEW h \in pds, Reboot(h) PROVE TypeOK' /\ Phases'
  BY <1>9 DEF Reboot, Stop, Serve, TypeOK, Phases, Steps
<1>10. ASSUME NEW t \in unscanned, ScanTimeout(t) PROVE TypeOK' /\ Phases'
  BY <1>10 DEF ScanTimeout, TypeOK, Phases, Steps
<1>11. ASSUME NEW t \in expired, Deliver(t) PROVE TypeOK' /\ Phases'
  <2>1. timeouts \subseteq timeouts' /\ timeouts' \in SUBSET TimeoutType
    BY <1>11, SetTimeoutAdds DEF Deliver, TypeOK, TimeoutType
  <2> QED
    BY <1>11, <2>1 DEF Deliver, TypeOK, Phases, Steps
<1>12. CASE Tick
  <2>1. /\ timeouts' \in SUBSET TimeoutType
        /\ expired' \in SUBSET TimeoutType
        /\ unscanned' \in SUBSET timeouts'
    BY <1>12, AgedTimeouts DEF Tick, Aged, TypeOK
  <2>2. /\ expired = {} => expired' = {}
        /\ unscanned = {} => unscanned' = {}
    BY <1>12 DEF Tick, Aged
  <2> QED
    BY <1>12, <2>1, <2>2 DEF Tick, TypeOK, Phases, Steps
<1>13. CASE Signal
  BY <1>13 DEF Signal, TypeOK, Phases, Steps
<1>14. CASE UNCHANGED vars
  BY <1>14 DEF vars, TypeOK, Phases
<1> QED
  BY <1>1, <1>2, <1>3, <1>4, <1>5, <1>6, <1>7, <1>8, <1>9, <1>10, <1>11, <1>12, <1>13, <1>14
  DEF Next, LoopStep

\* Every variable keeps its type; in particular only registered handlers are
\* ever marked closed, and a timeout under examination is a pending one.
THEOREM TypeCorrect == Spec => []TypeOK
<1>1. TypeOK /\ Phases /\ [Next]_vars => (TypeOK /\ Phases)'
  BY StructureStep
<1> QED
  BY StructureInit, <1>1, PTL DEF Spec
-----------------------------------------------------------------------------
\* There is no pointer to begin with but those to the acceptors.
LEMMA PointersInit == Init => NoDanglingPointers
BY DEF Init, NoDanglingPointers, Pointers

\* A step that keeps every handler, and adds neither a pointer to a deleted
\* one nor a descriptor, dangles nothing.
LEMMA PointersKept ==
  ASSUME NoDanglingPointers,
         stopped' = stopped,
         evtHandlers \subseteq evtHandlers',
         pds' \subseteq pds \cup evtHandlers,
         \A t \in timeouts' \cup expired' :
           t.handler \in Pointers(timeouts \cup expired) \cup evtHandlers'
  PROVE  NoDanglingPointers'
BY DEF NoDanglingPointers, Pointers

\* run() deletes handlers only where it holds no pointer to them, and stop()
\* ends the obligation.
LEMMA PointersStep ==
  TypeOK /\ Phases /\ NoDanglingPointers /\ [Next]_vars => NoDanglingPointers'
<1> SUFFICES ASSUME TypeOK, Phases, NoDanglingPointers, [Next]_vars PROVE NoDanglingPointers'
  OBVIOUS
<1>1. CASE Poll
  BY <1>1, PointersKept DEF Poll, TypeOK, Pointers
<1>2. CASE EndDispatch \/ EndScan \/ Signal \/ UNCHANGED vars
  BY <1>2, PointersKept DEF EndDispatch, EndScan, Signal, vars, Pointers
<1>4. CASE DeleteClosed
  BY <1>4 DEF DeleteClosed, Phases, NoDanglingPointers, Pointers
<1>5. CASE Shutdown
  BY <1>5 DEF Shutdown, Stop, NoDanglingPointers
<1>6. ASSUME NEW h \in pds, HandleEvent(h) PROVE NoDanglingPointers'
  <2>1. \A t \in timeouts' : t \in timeouts \/ t.handler = h
    BY <1>6, SetTimeoutAdds DEF HandleEvent, TypeOK
  <2> QED
    BY <1>6, <2>1, PointersKept DEF HandleEvent, Serve, Pointers
<1>7. ASSUME NEW h \in pds, Accept(h) PROVE NoDanglingPointers'
  <2>1. PICK new \in Handlers : evtHandlers' = evtHandlers \cup {new} /\ MaySetTimeout(new)
    BY <1>7 DEF Accept
  <2>2. \A t \in timeouts' : t \in timeouts \/ t.handler = new
    BY <2>1, SetTimeoutAdds
  <2> QED
    BY <1>7, <2>1, <2>2, PointersKept DEF Accept, Serve, Pointers
<1>8. ASSUME NEW h \in pds, AcceptNothing(h) \/ DispatchDeleted(h) PROVE NoDanglingPointers'
  BY <1>8, PointersKept DEF AcceptNothing, DispatchDeleted, Serve, Pointers
<1>9. ASSUME NEW h \in pds, Reboot(h) PROVE NoDanglingPointers'
  BY <1>9 DEF Reboot, Stop, NoDanglingPointers
<1>10. ASSUME NEW t \in unscanned, ScanTimeout(t) PROVE NoDanglingPointers'
  BY <1>10, PointersKept DEF ScanTimeout, TypeOK, Pointers
<1>11. ASSUME NEW t \in expired, Deliver(t) PROVE NoDanglingPointers'
  <2>1. t.handler \in Handlers
    BY DEF TypeOK, TimeoutType
  <2>2. \A u \in timeouts' : u \in timeouts \/ u.handler = t.handler
    BY <1>11, <2>1, SetTimeoutAdds DEF Deliver
  <2> QED
    BY <1>11, <2>2, PointersKept DEF Deliver, Pointers
<1>12. CASE Tick
  <2>1. \A t \in timeouts' \cup expired' : t.handler \in Pointers(timeouts \cup expired)
    BY <1>12, AgedTimeouts DEF Tick, TypeOK, Pointers
  <2> QED
    BY <1>12, <2>1, PointersKept DEF Tick
<1> QED
  BY <1>1, <1>2, <1>4, <1>5, <1>6, <1>7, <1>8, <1>9, <1>10, <1>11, <1>12 DEF Next, LoopStep

\* As long as stop() has not run, run() never follows a pointer to a deleted
\* handler, however handlers open, close and set timeouts.
THEOREM NoUseAfterDelete == Spec => []NoDanglingPointers
<1> DEFINE Inv == TypeOK /\ Phases /\ NoDanglingPointers
<1>1. Init => Inv
  BY StructureInit, PointersInit
<1>2. Inv /\ [Next]_vars => Inv'
  BY StructureStep, PointersStep
<1> QED
  BY <1>1, <1>2, PTL DEF Spec
-----------------------------------------------------------------------------
\* No timeout is pending to begin with.
LEMMA PunctualInit == Init => Punctual /\ NeverEarly
BY DEF Init, Punctual, NeverEarly

\* A timeout set by the present step is punctual.
LEMMA FreshIsPunctual ==
  ASSUME TypeOK, now' = now, ticks' = ticks,
         NEW t \in TimeoutType, t.epoch = now, t.age = 0
  PROVE  t.age <= t.interval + Lateness(t)' /\ Elapsed(t)' = t.age
<1>0. t.interval \in Nat
  BY ReactorAssumption DEF TimeoutType
<1>1. now \in 0 .. Wrap - 1 /\ ticks \in Nat
  BY ReactorAssumption DEF TypeOK
<1>2. Lateness(t)' \in Nat
  BY <1>1, ReactorAssumption DEF Lateness
<1>3. Elapsed(t)' = 0
  BY <1>1, ReactorAssumption DEF Elapsed
<1> QED
  BY <1>0, <1>1, <1>2, <1>3

\* A step that leaves the clock, the pending timeouts and what has been
\* examined of them alone, except for fresh timeouts, stays punctual.
LEMMA PunctualKept ==
  ASSUME TypeOK, Punctual, NeverEarly, now' = now, ticks' = ticks,
         timeouts' \in SUBSET TimeoutType,
         \A t \in timeouts' \cap timeouts : Examined(t)' => Examined(t),
         \A t \in timeouts' \ timeouts : t.epoch = now /\ t.age = 0,
         expired' \subseteq expired
  PROVE  Punctual' /\ NeverEarly'
<1>1. \A t \in timeouts' : t.age <= t.interval + Lateness(t)' /\ Elapsed(t)' = t.age
  <2> TAKE t \in timeouts'
  <2>1. CASE t \in timeouts
    <3>1. t.age <= t.interval + Lateness(t) /\ Elapsed(t) = t.age /\ t \in TimeoutType
      BY <2>1 DEF Punctual, TypeOK
    <3>2. Lateness(t) <= Lateness(t)' /\ Lateness(t) \in Nat /\ Lateness(t)' \in Nat
      BY <2>1, ReactorAssumption DEF Lateness, TypeOK
    <3>3. Elapsed(t)' = Elapsed(t)
      BY DEF Elapsed
    <3>4. t.age \in Nat /\ t.interval \in Nat
      BY <3>1, ReactorAssumption DEF TimeoutType
    <3> QED
      BY <3>1, <3>2, <3>3, <3>4
  <2>2. CASE t \notin timeouts
    BY <2>2, FreshIsPunctual
  <2> QED
    BY <2>1, <2>2
<1> QED
  BY <1>1 DEF Punctual, NeverEarly

\* A tick of the clock ages a punctual timeout by one, wrap or no wrap: the
\* bound keeps the age below Wrap.
LEMMA TickIsPunctual ==
  ASSUME TypeOK, Punctual, Tick, NEW o \in timeouts, NEW t,
         t.handler = o.handler, t.epoch = o.epoch, t.interval = o.interval,
         t.age = o.age + 1,
         Examined(t)' => Examined(o)
  PROVE  t.age <= t.interval + Lateness(t)' /\ Elapsed(t)' = t.age
<1>1. /\ o.age \in Nat /\ o.interval \in Intervals /\ o.interval \in Nat
      /\ o.epoch \in 0 .. Wrap - 1 /\ now \in 0 .. Wrap - 1 /\ ticks \in 0 .. MaxPass
  BY ReactorAssumption DEF TypeOK, TimeoutType
<1>2. o.age <= o.interval + Lateness(o) /\ Elapsed(o) = o.age
  BY DEF Punctual
<1>3. ticks' = ticks + 1 /\ ticks < MaxPass /\ now' = (IF now = Wrap - 1 THEN 0 ELSE now + 1)
  BY DEF Tick
<1>4. Lateness(o) + 1 <= Lateness(t)' /\ Lateness(t)' \in Nat /\ Lateness(o) \in Nat
      /\ Lateness(t)' <= 2 * MaxPass
  BY <1>1, <1>3, ReactorAssumption DEF Lateness
<1>5. t.age <= t.interval + Lateness(t)'
  BY <1>1, <1>2, <1>4
<1>6. o.age + 1 < Wrap
  BY <1>1, <1>4, <1>5, ReactorAssumption
<1>7. Elapsed(t)' = o.age + 1
  BY <1>1, <1>2, <1>3, <1>6, ReactorAssumption DEF Elapsed
<1> QED
  BY <1>5, <1>7

\* Every step keeps the bounds on the ages and the clock's view of them.
LEMMA PunctualStep ==
  TypeOK /\ Phases /\ Punctual /\ NeverEarly /\ [Next]_vars => Punctual' /\ NeverEarly'
<1> SUFFICES ASSUME TypeOK, Phases, Punctual, NeverEarly, [Next]_vars
             PROVE  Punctual' /\ NeverEarly'
  OBVIOUS
<1>0. timeouts' \in SUBSET TimeoutType
  BY StructureStep DEF TypeOK
<1>1. CASE Poll
  <2>1. \A t \in timeouts : Lateness(t)' = MaxPass /\ Lateness(t) <= MaxPass /\ Lateness(t) \in Nat
    BY <1>1, ReactorAssumption DEF Poll, Lateness, Examined, TypeOK
  <2>2. \A t \in timeouts : t.age \in Nat /\ t.interval \in Nat /\ Elapsed(t)' = Elapsed(t)
    BY <1>1, ReactorAssumption DEF Poll, Elapsed, TypeOK, TimeoutType
  <2>3. Punctual'
    BY <1>1, <2>1, <2>2, ReactorAssumption DEF Poll, Punctual
  <2> QED
    BY <1>1, <2>3 DEF Poll, NeverEarly
<1>2. CASE EndDispatch
  BY <1>0, <1>2, PunctualKept DEF EndDispatch, Examined
<1>3. CASE EndScan
  BY <1>0, <1>3, PunctualKept DEF EndScan, Examined
<1>4. CASE DeleteClosed
  BY <1>0, <1>4, PunctualKept DEF DeleteClosed, Examined
<1>5. CASE Shutdown \/ Signal \/ UNCHANGED vars
  BY <1>0, <1>5, PunctualKept DEF Shutdown, Stop, Signal, vars, Examined
<1>6. ASSUME NEW h \in pds, HandleEvent(h) PROVE Punctual' /\ NeverEarly'
  <2>1. \A t \in timeouts' \ timeouts : t.epoch = now /\ t.age = 0
    BY <1>6, SetTimeoutAdds DEF HandleEvent, TypeOK
  <2> QED
    BY <1>0, <1>6, <2>1, PunctualKept DEF HandleEvent, Serve, Examined
<1>7. ASSUME NEW h \in pds, Accept(h) PROVE Punctual' /\ NeverEarly'
  <2>1. \A t \in timeouts' \ timeouts : t.epoch = now /\ t.age = 0
    BY <1>7, SetTimeoutAdds DEF Accept
  <2> QED
    BY <1>0, <1>7, <2>1, PunctualKept DEF Accept, Serve, Examined
<1>8. ASSUME NEW h \in pds, AcceptNothing(h) \/ DispatchDeleted(h) \/ Reboot(h)
      PROVE  Punctual' /\ NeverEarly'
  BY <1>0, <1>8, PunctualKept DEF AcceptNothing, DispatchDeleted, Reboot, Stop, Serve, Examined
<1>10. ASSUME NEW t \in unscanned, ScanTimeout(t) PROVE Punctual' /\ NeverEarly'
  <2>0. t \in timeouts
    BY DEF TypeOK
  <2>1. Elapsed(t) = t.age /\ t.age \in Nat /\ t.interval \in Nat /\ ticks \in Nat
    <3>1. t \in TimeoutType /\ ticks \in Nat
      BY <2>0, ReactorAssumption DEF TypeOK
    <3> QED
      BY <2>0, <3>1, ReactorAssumption DEF Punctual, TimeoutType
  <2>2. \A u \in timeouts' : u \in timeouts /\ (u # t => Lateness(u)' = Lateness(u))
                             /\ Elapsed(u)' = Elapsed(u)
    BY <1>10 DEF ScanTimeout, Lateness, Examined, Elapsed
  <2>3. t \in timeouts' => t.age <= t.interval /\ Lateness(t)' = ticks
    BY <1>10, <2>1 DEF ScanTimeout, IsExpired, Lateness, Examined
  <2>4. \A u \in timeouts' : u.age <= u.interval + Lateness(u)' /\ Elapsed(u)' = u.age
    <3> TAKE u \in timeouts'
    <3>1. CASE u = t
      BY <2>1, <2>2, <2>3, <3>1
    <3>2. CASE u # t
      BY <2>2, <3>2 DEF Punctual
    <3> QED
      BY <3>1, <3>2
  <2>5. \A u \in expired' : u \in expired \/ (u = t /\ t.age > t.interval)
    BY <1>10, <2>1 DEF ScanTimeout, IsExpired
  <2> QED
    BY <2>4, <2>5 DEF Punctual, NeverEarly
<1>11. ASSUME NEW t \in expired, Deliver(t) PROVE Punctual' /\ NeverEarly'
  <2>1. \A u \in timeouts' \ timeouts : u.epoch = now /\ u.age = 0
    BY <1>11, SetTimeoutAdds DEF Deliver, TypeOK, TimeoutType
  <2> QED
    BY <1>0, <1>11, <2>1, PunctualKept DEF Deliver, Examined
<1>12. CASE Tick
  <2>1. \A t \in timeouts' : t.age <= t.interval + Lateness(t)' /\ Elapsed(t)' = t.age
    <3> TAKE t \in timeouts'
    <3>1. PICK o \in timeouts : /\ t = [o EXCEPT !.age = @ + 1]
                                /\ t.handler = o.handler /\ t.epoch = o.epoch
                                /\ t.interval = o.interval /\ t.age = o.age + 1
      BY <1>12, AgedTimeouts DEF Tick, TypeOK
    <3>2. Examined(t)' => Examined(o)
      BY <1>12, <3>1 DEF Tick, Examined, Aged
    <3> QED
      BY <1>12, <3>1, <3>2, TickIsPunctual
  <2>2. \A t \in expired' : t.age > t.interval
    <3> TAKE t \in expired'
    <3>1. PICK o \in expired : t.interval = o.interval /\ t.age = o.age + 1
      BY <1>12, AgedTimeouts DEF Tick, TypeOK
    <3>2. o.age \in Nat /\ o.interval \in Nat /\ o.age > o.interval
      BY ReactorAssumption DEF TypeOK, TimeoutType, NeverEarly
    <3> QED
      BY <3>1, <3>2
  <2> QED
    BY <2>1, <2>2 DEF Punctual, NeverEarly
<1> QED
  BY <1>1, <1>2, <1>3, <1>4, <1>5, <1>6, <1>7, <1>8, <1>10, <1>11, <1>12 DEF Next, LoopStep

\* The inductive invariant behind NotEarly and NotOverlooked.
LEMMA PunctualAlways == Spec => [](TypeOK /\ Phases /\ Punctual /\ NeverEarly)
<1> DEFINE Inv == TypeOK /\ Phases /\ Punctual /\ NeverEarly
<1>1. Init => Inv
  BY StructureInit, PunctualInit
<1>2. Inv /\ [Next]_vars => Inv'
  BY StructureStep, PunctualStep
<1> QED
  BY <1>1, <1>2, PTL DEF Spec

\* No handler's timeout is delivered before more than its interval has really
\* gone by, however often the clock has wrapped.
THEOREM NotEarly == Spec => []NeverEarly
BY PunctualAlways, PTL

\* A pending timeout is at most two passes late, and its age as the wrapping
\* clock shows it is its real age, so the wrap never hides an expired timeout.
THEOREM NotOverlooked == Spec => []NeverOverlooked
<1>1. TypeOK /\ Phases /\ Punctual => NeverOverlooked
  <2> SUFFICES ASSUME TypeOK, Punctual, NEW t \in timeouts
               PROVE  t.age <= t.interval + 2 * MaxPass /\ Elapsed(t) = t.age
    BY DEF NeverOverlooked
  <2>1. t.age <= t.interval + Lateness(t) /\ t.age \in Nat /\ t.interval \in Nat
    BY ReactorAssumption DEF Punctual, TypeOK, TimeoutType
  <2>2. Lateness(t) \in Nat /\ Lateness(t) <= 2 * MaxPass
    BY ReactorAssumption DEF Lateness, TypeOK
  <2> QED
    BY <2>1, <2>2, ReactorAssumption DEF Punctual
<1> QED
  BY <1>1, PunctualAlways, PTL
-----------------------------------------------------------------------------
(***************************************************************************)
(* The handlers of the agent on the event loop.                            *)
(***************************************************************************)

\* A timeout set by a handler of the agent is one the loop lets it set.
LEMMA AddIsSet ==
  ASSUME NEW h, NEW d \in Intervals, AddTimeout(h, d)
  PROVE  SetTimeout(h)
BY DEF AddTimeout, SetTimeout

LEMMA PeriodsAreIntervals == Period \in Intervals /\ Beat \in Intervals
BY AgentAssumption

\* An acceptor of the agent does what Reactor lets an acceptor do.
LEMMA AcceptRefines == ASSUME NEW a \in pds, AgentAccept(a) PROVE Accept(a)
<1>1. PICK new \in Addresses \ evtHandlers :
        /\ evtHandlers' = evtHandlers \cup {new}
        /\ UNCHANGED timeouts \/ AddTimeout(new, Beat)
  BY DEF AgentAccept
<1>2. new \in Handlers \ (Acceptors \cup evtHandlers)
  BY <1>1 DEF Addresses
<1>3. MaySetTimeout(new)
  BY <1>1, AddIsSet, PeriodsAreIntervals DEF MaySetTimeout
<1> QED
  BY <1>1, <1>2, <1>3 DEF AgentAccept, Accept

\* handleEvent() of a heartbeat and of a session: at most the handler itself is
\* closed, and a timeout set for it.
LEMMA EventRefines ==
  ASSUME NEW h \in pds, HeartbeatEvent(h) \/ CommandEvent(h) PROVE HandleEvent(h)
<1>1. Serve(h) /\ h \in evtHandlers \ Acceptors /\ UNCHANGED <<evtHandlers, pc, stopped>>
  BY DEF HeartbeatEvent, CommandEvent, Live
<1>2. CASE HeartbeatEvent(h)
  BY <1>1, <1>2 DEF HeartbeatEvent, HandleEvent, MaySetTimeout
<1>3. CASE CommandEvent(h)
  <2>1. Lines(h) \/ Quit(h) \/ Exec(h)
    BY <1>3 DEF CommandEvent
  <2>2. closed' \in {closed, closed \cup {h}}
    BY <2>1 DEF Lines, Quit, Exec
  <2>3. UNCHANGED timeouts \/ AddTimeout(h, Period)
    BY <2>1 DEF Lines, Quit, Exec
  <2> QED
    BY <1>1, <2>2, <2>3, AddIsSet, PeriodsAreIntervals DEF HandleEvent, MaySetTimeout
<1> QED
  BY <1>2, <1>3

\* handleTimeout(): only a handler that has closed itself, or is deleted, may
\* crash the agent, for an open session without a data handler has no timeout.
LEMMA DeliverRefines ==
  ASSUME NEW t \in expired, AgentDeliver(t), t.handler \in Live \ closed => ~NoDataHandler(t)
  PROVE  Deliver(t)
<1>1. Delivering(t)
  BY DEF AgentDeliver, Thump, PollPipe, EndOfPipe, NoDataHandler, DeliverDeleted
<1>2. MaySetTimeout(t.handler)
  <2>1. UNCHANGED timeouts \/ AddTimeout(t.handler, Beat) \/ AddTimeout(t.handler, Period)
    BY DEF AgentDeliver, Thump, PollPipe, EndOfPipe, NoDataHandler, DeliverDeleted, RearmBeat, AtEnd
  <2> QED
    BY <2>1, AddIsSet, PeriodsAreIntervals DEF MaySetTimeout
<1>3. pc' \in IF t.handler \in evtHandlers \ closed THEN {pc} ELSE {pc, "crashed"}
  BY DEF AgentDeliver, Thump, PollPipe, EndOfPipe, NoDataHandler, DeliverDeleted, Live
<1> QED
  BY <1>1, <1>2, <1>3 DEF Delivering, Deliver
-----------------------------------------------------------------------------
(***************************************************************************)
(* The inductive invariant.  A handler is busy when it wants to be called  *)
(* again; then one timeout of it is pending or due, and none otherwise.    *)
(***************************************************************************)
None(T, h) == \A t \in T : t.handler # h
Only(T, h) == \E t \in T : t.handler = h /\ \A u \in T : u.handler = h => u = t

Pending(h) == Only(timeouts, h) /\ None(expired, h)
Due(h) == None(timeouts, h) /\ Only(expired, h)
Clear(h) == None(timeouts, h) /\ None(expired, h)

Busy(h) == kind[h] = "heartbeat" \/ (data[h] = "exec" /\ h \notin waiting)
Settled(h) == IF Busy(h) THEN Pending(h) \/ Due(h) ELSE Clear(h)
Timed == ~stopped => \A h \in Live \ closed : Settled(h)

Shape ==
  /\ kind \in [Addresses -> {"none", "command", "heartbeat"}]
  /\ data \in [Addresses -> {"none", "exec"}]
  /\ \A h \in Addresses : data[h] = "exec" => kind[h] = "command"
  /\ \A h \in pds \cap Addresses : data[h] = "none"
  /\ \A h \in waiting : h \in Addresses /\ kind[h] = "command"
  /\ \A g, h \in waiting : g = h
  /\ stopped => evtHandlers = {}

LoopInv == TypeOK /\ Phases /\ NoDanglingPointers
AgentInv == LoopInv /\ Shape /\ Timed
-----------------------------------------------------------------------------
\* What happens to the timeouts of one handler when a timeout is taken away
\* or added.
LEMMA TakeOther ==
  ASSUME NEW T, NEW h, NEW x, x.handler # h
  PROVE  /\ None(T, h) => None(T \ {x}, h)
         /\ Only(T, h) => Only(T \ {x}, h)
BY DEF None, Only

LEMMA TakeOwn ==
  ASSUME NEW T, NEW h, NEW x \in T, x.handler = h
  PROVE  ~None(T, h) /\ (Only(T, h) => None(T \ {x}, h))
BY DEF None, Only

LEMMA AddOther ==
  ASSUME NEW T, NEW h, NEW x, x.handler # h
  PROVE  /\ None(T, h) => None(T \cup {x}, h)
         /\ Only(T, h) => Only(T \cup {x}, h)
BY DEF None, Only

LEMMA AddOwn ==
  ASSUME NEW T, NEW h, NEW x, x.handler = h, None(T, h)
  PROVE  Only(T \cup {x}, h)
BY DEF None, Only

\* Ageing changes neither how many timeouts a handler has nor whose they are.
LEMMA AgedAlike ==
  ASSUME NEW T \in SUBSET TimeoutType, NEW h
  PROVE  /\ None(T, h) => None(Aged(T), h)
         /\ Only(T, h) => Only(Aged(T), h)
<1>1. \A t \in Aged(T) : \E o \in T : t = [o EXCEPT !.age = o.age + 1] /\ t.handler = o.handler
  BY AgedTimeouts
<1>2. None(T, h) => None(Aged(T), h)
  BY <1>1 DEF None
<1>3. ASSUME Only(T, h) PROVE Only(Aged(T), h)
  <2>1. PICK t \in T : t.handler = h /\ \A u \in T : u.handler = h => u = t
    BY <1>3 DEF Only
  <2> DEFINE s == [t EXCEPT !.age = @ + 1]
  <2>2. s \in Aged(T)
    BY <2>1 DEF Aged
  <2>3. s.handler = h
    BY <2>1 DEF TimeoutType
  <2>4. \A u \in Aged(T) : u.handler = h => u = s
    BY <1>1, <2>1
  <2> QED
    BY <2>2, <2>3, <2>4 DEF Only
<1> QED
  BY <1>2, <1>3

\* A set timeout is one more of its handler.
LEMMA AddTimeoutAdds ==
  ASSUME NEW h, NEW d, AddTimeout(h, d)
  PROVE  \E x : x.handler = h /\ timeouts' = timeouts \cup {x}
<1>1. PICK i : timeouts' = timeouts \cup {Timeout(i, h, d)}
  BY DEF AddTimeout
<1>2. Timeout(i, h, d).handler = h
  BY DEF Timeout
<1> QED
  BY <1>1, <1>2

\* A step on the timeouts of another handler leaves a settled one settled.
LEMMA SettledKept ==
  ASSUME NEW g, Settled(g), Busy(g)' = Busy(g),
         timeouts' = timeouts \/ \E x : x.handler # g /\ timeouts' = timeouts \cup {x},
         expired' = expired \/ \E x : x.handler # g /\ expired' = expired \ {x}
  PROVE  Settled(g)'
<1>1. /\ None(timeouts, g) => None(timeouts, g)'
      /\ Only(timeouts, g) => Only(timeouts, g)'
  BY AddOther
<1>2. /\ None(expired, g) => None(expired, g)'
      /\ Only(expired, g) => Only(expired, g)'
  BY TakeOther
<1> QED
  BY <1>1, <1>2 DEF Settled, Pending, Due, Clear

LEMMA AgentInvInit == AgentInit => AgentInv
<1> SUFFICES ASSUME AgentInit PROVE AgentInv
  OBVIOUS
<1>1. LoopInv
  BY StructureInit, PointersInit DEF AgentInit, LoopInv
<1>2. Shape
  BY DEF AgentInit, Init, Shape, Addresses
<1>3. Timed
  BY DEF AgentInit, Init, Timed, Live
<1> QED
  BY <1>1, <1>2, <1>3 DEF AgentInv

-----------------------------------------------------------------------------
\* The handlers keep their shape: a step that leaves kinds, data handlers and
\* pclose() alone keeps it if it polls nothing new and does not stop the loop.
LEMMA ShapeKept ==
  ASSUME Shape, UNCHANGED <<kind, data, waiting, stopped>>,
         pds' \subseteq pds, stopped => evtHandlers' = evtHandlers
  PROVE  Shape'
BY DEF Shape

LEMMA ShapeStep == LoopInv /\ Shape /\ [AgentNext]_agentVars => Shape'
<1> SUFFICES ASSUME LoopInv, Shape, [AgentNext]_agentVars PROVE Shape'
  OBVIOUS
<1>1. CASE AgentPoll
  <2>1. \A h \in pds' \cap Addresses : data[h] = "none"
    BY <1>1 DEF AgentPoll, Ready, PollsSocket, Addresses
  <2> QED
    BY <1>1, <2>1 DEF AgentPoll, Poll, Shape, handlerVars
<1>2. CASE AgentDeleteClosed /\ waiting = {}
  <2>1. /\ kind' \in [Addresses -> {"none", "command", "heartbeat"}]
        /\ data' \in [Addresses -> {"none", "exec"}]
        /\ \A h \in Addresses : data'[h] \in {data[h], "none"}
        /\ \A h \in Addresses : data'[h] = "exec" => kind'[h] = "command"
    BY <1>2 DEF AgentDeleteClosed, Shape
  <2> QED
    BY <1>2, <2>1 DEF AgentDeleteClosed, DeleteClosed, Shape
<1>3. CASE AgentShutdown /\ waiting = {}
  BY <1>3 DEF AgentShutdown, Shutdown, Stop, AllGone, Shape
<1>4. CASE (EndDispatch \/ EndScan \/ Tick \/ Signal) /\ Same
  BY <1>4, ShapeKept DEF EndDispatch, EndScan, Tick, Signal, Same, handlerVars
<1>5. ASSUME NEW t \in unscanned, ScanTimeout(t), Same PROVE Shape'
  BY <1>5, ShapeKept DEF ScanTimeout, Same, handlerVars
<1>6. ASSUME NEW a \in pds, AgentAccept(a), waiting = {} PROVE Shape'
  <2>1. PICK new \in Addresses \ evtHandlers :
          /\ kind' \in {[kind EXCEPT ![new] = "heartbeat"], [kind EXCEPT ![new] = "command"]}
          /\ data' = [data EXCEPT ![new] = "none"]
          /\ waiting' = waiting /\ stopped' = stopped /\ pds' \subseteq pds
          /\ a \in evtHandlers /\ waiting = {}
    BY <1>6 DEF AgentAccept, Serve
  <2>2. kind' \in [Addresses -> {"none", "command", "heartbeat"}]
        /\ data' \in [Addresses -> {"none", "exec"}]
    BY <2>1 DEF Shape
  <2>3. \A h \in Addresses : data'[h] = "none" \/ (data'[h] = data[h] /\ kind'[h] = kind[h])
    BY <2>1 DEF Shape
  <2> QED
    BY <2>1, <2>2, <2>3 DEF Shape
<1>7. ASSUME NEW h \in pds, HeartbeatEvent(h) PROVE Shape'
  BY <1>7, ShapeKept DEF HeartbeatEvent, Serve
<1>8. ASSUME NEW h \in pds, CommandEvent(h) PROVE Shape'
  <2>1. h \in Addresses /\ kind[h] = "command"
    BY <1>8 DEF CommandEvent, Live, Addresses, LoopInv, TypeOK
  <2>2. data' \in {data, [data EXCEPT ![h] = "exec"]}
    BY <1>8 DEF CommandEvent, Lines, Quit, Exec
  <2> QED
    BY <1>8, <2>1, <2>2 DEF CommandEvent, Serve, Shape
<1>9. ASSUME NEW h \in pds, AgentReboot(h), waiting = {} PROVE Shape'
  BY <1>9 DEF AgentReboot, Reboot, Stop, AllGone, Shape
<1>10. ASSUME NEW h \in pds, AgentDispatchDeleted(h) PROVE Shape'
  BY <1>10, ShapeKept DEF AgentDispatchDeleted, DispatchDeleted, Serve, handlerVars
<1>11. ASSUME NEW t \in expired, AgentDeliver(t), waiting = {} PROVE Shape'
  <2> DEFINE h == t.handler
  <2>1. /\ Delivering(t)
        /\ data' \in {data, [data EXCEPT ![h] = "none"]}
        /\ waiting' = waiting \/ (waiting' = {h} /\ h \in Live /\ data[h] = "exec")
    <3>1. CASE Thump(t)
      BY <3>1 DEF Thump
    <3>2. CASE PollPipe(t)
      BY <3>2 DEF PollPipe
    <3>3. CASE EndOfPipe(t)
      BY <3>3 DEF EndOfPipe, ExecDone
    <3>4. CASE NoDataHandler(t) \/ DeliverDeleted(t)
      BY <3>4 DEF NoDataHandler, DeliverDeleted
    <3> QED
      BY <1>11, <3>1, <3>2, <3>3, <3>4 DEF AgentDeliver
  <2>2. h \in Live => h \in Addresses
    BY DEF Live, Addresses, LoopInv, TypeOK
  <2>3. data' \in [Addresses -> {"none", "exec"}]
        /\ \A g \in Addresses : data'[g] \in {data[g], "none"}
    BY <2>1 DEF Shape
  <2> QED
    BY <1>11, <2>1, <2>2, <2>3 DEF Delivering, Shape
<1>12. ASSUME NEW h \in waiting, Reap(h) PROVE Shape'
  BY <1>12 DEF Reap, ExecDone, vars, Shape
<1>13. ASSUME NEW a \in pds, AgentAcceptFails(a) PROVE Shape'
  BY <1>13, ShapeKept DEF AgentAcceptFails, Serve, handlerVars
<1>14. CASE Clients
  BY <1>14, ShapeKept DEF Clients, Connect, SendLine, Leave, ChildStep, vars, handlerVars
<1>15. CASE UNCHANGED agentVars
  BY <1>15, ShapeKept DEF agentVars, vars, handlerVars
<1> QED
  BY <1>1, <1>2, <1>3, <1>4, <1>5, <1>6, <1>7, <1>8, <1>9, <1>10, <1>11, <1>12, <1>13, <1>14, <1>15
     DEF AgentNext, AgentStep
-----------------------------------------------------------------------------
\* A step that is on no handler's timeouts.
LEMMA TimedKept ==
  ASSUME Timed, stopped' = stopped, timeouts' = timeouts, expired' = expired,
         \A h \in (Live \ closed)' : h \in Live \ closed /\ Busy(h)' = Busy(h)
  PROVE  Timed'
<1> SUFFICES ASSUME ~stopped, NEW h \in (Live \ closed)' PROVE Settled(h)'
  BY DEF Timed
<1>1. Settled(h) /\ Busy(h)' = Busy(h)
  BY DEF Timed
<1> QED
  BY <1>1, SettledKept

\* A step of one handler settles that handler, if it is open afterwards, and
\* does nothing to the timeouts of others.
LEMMA TimedStep ==
  ASSUME Timed, stopped' = stopped, NEW h,
         timeouts' = timeouts \/ \E x : x.handler = h /\ timeouts' = timeouts \cup {x},
         expired' = expired \/ \E x : x.handler = h /\ expired' = expired \ {x},
         \A g \in (Live \ closed)' : g # h => g \in Live \ closed /\ Busy(g)' = Busy(g),
         ~stopped /\ h \in (Live \ closed)' => Settled(h)'
  PROVE  Timed'
<1> SUFFICES ASSUME ~stopped, NEW g \in (Live \ closed)', g # h PROVE Settled(g)'
  BY DEF Timed
<1>1. Settled(g) /\ Busy(g)' = Busy(g)
  BY DEF Timed
<1> QED
  BY <1>1, SettledKept

\* A handler whose timeout is due has no other.
LEMMA DueIsOnly ==
  ASSUME NEW h, Settled(h), NEW t \in expired, t.handler = h
  PROVE  Busy(h) /\ None(timeouts, h) /\ None(expired \ {t}, h)
BY TakeOwn DEF Settled, Pending, Due, Clear

\* The expiry loop moves the one pending timeout of a handler.
LEMMA ScanTimed ==
  ASSUME LoopInv, Timed, NEW t \in unscanned, ScanTimeout(t), Same
  PROVE  Timed'
<1> SUFFICES ASSUME ~stopped, NEW h \in Live \ closed PROVE Settled(h)'
  BY DEF Timed, ScanTimeout, Live
<1>1. Settled(h) /\ Busy(h)' = Busy(h)
  BY DEF Timed, Same, handlerVars, Busy
<1>2. t \in timeouts
  BY DEF LoopInv, TypeOK
<1>3. CASE ~IsExpired(t)
  BY <1>1, <1>3, SettledKept DEF ScanTimeout
<1>4. CASE IsExpired(t)
  <2>1. timeouts' = timeouts \ {t} /\ expired' = expired \cup {t}
    BY <1>4 DEF ScanTimeout
  <2>2. CASE t.handler = h
    <3>1. Busy(h) /\ Only(timeouts, h) /\ None(expired, h)
      BY <1>1, <1>2, <2>2, TakeOwn DEF Settled, Pending, Due, Clear
    <3>2. None(timeouts', h) /\ Only(expired', h)
      BY <1>2, <2>1, <2>2, <3>1, TakeOwn, AddOwn
    <3> QED
      BY <1>1, <3>1, <3>2 DEF Settled, Due, None, Only
  <2>3. CASE t.handler # h
    <3>1. /\ None(timeouts, h) => None(timeouts', h)
          /\ Only(timeouts, h) => Only(timeouts', h)
      BY <2>1, <2>3, TakeOther
    <3>2. /\ None(expired, h) => None(expired', h)
          /\ Only(expired, h) => Only(expired', h)
      BY <2>1, <2>3, AddOther
    <3> QED
      BY <1>1, <3>1, <3>2 DEF Settled, Pending, Due, Clear, None, Only
  <2> QED
    BY <2>2, <2>3
<1> QED
  BY <1>3, <1>4

\* The clock makes timeouts older.
LEMMA TickTimed == ASSUME LoopInv, Timed, Tick, Same PROVE Timed'
<1> SUFFICES ASSUME ~stopped, NEW h \in Live \ closed PROVE Settled(h)'
  BY DEF Timed, Tick, Live
<1>1. Settled(h) /\ Busy(h)' = Busy(h)
  BY DEF Timed, Same, handlerVars, Busy
<1>2. timeouts' = Aged(timeouts) /\ expired' = Aged(expired)
  BY DEF Tick
<1>3. timeouts \in SUBSET TimeoutType /\ expired \in SUBSET TimeoutType
  BY DEF LoopInv, TypeOK
<1>4. /\ None(timeouts, h) => None(timeouts', h)
      /\ Only(timeouts, h) => Only(timeouts', h)
      /\ None(expired, h) => None(expired', h)
      /\ Only(expired, h) => Only(expired', h)
  BY <1>2, <1>3, AgedAlike
<1> QED
  BY <1>1, <1>4 DEF Settled, Pending, Due, Clear, None, Only

\* deleteClosed() takes no timeout of an open handler.
LEMMA DeleteTimed == ASSUME LoopInv, Timed, AgentDeleteClosed PROVE Timed'
<1>1. /\ timeouts' = {t \in timeouts : t.handler \notin closed} /\ expired' = expired
      /\ stopped' = stopped /\ closed' = {} /\ Live' = Live \ closed
  BY DEF AgentDeleteClosed, DeleteClosed, Live
<1> SUFFICES ASSUME ~stopped, NEW h \in Live \ closed PROVE Settled(h)'
  BY <1>1 DEF Timed
<1>2. h \in Addresses
  BY DEF Live, Addresses, LoopInv, TypeOK
<1>3. Settled(h) /\ Busy(h)' = Busy(h)
  BY <1>2 DEF Timed, AgentDeleteClosed, Busy
<1>4. /\ None(timeouts, h) => None(timeouts', h)
      /\ Only(timeouts, h) => Only(timeouts', h)
  BY <1>1 DEF None, Only
<1> QED
  BY <1>1, <1>3, <1>4 DEF Settled, Pending, Due, Clear, None, Only

\* A new handler starts with the timeouts its constructor sets: no pointer to
\* its address was left over.
LEMMA AcceptTimed ==
  ASSUME LoopInv, Shape, Timed, NEW a \in pds, AgentAccept(a), waiting = {}
  PROVE  Timed'
<1>1. PICK new \in Addresses \ evtHandlers :
        /\ evtHandlers' = evtHandlers \cup {new}
        /\ IF a = HeartbeatAcceptor
             THEN AddTimeout(new, Beat) /\ kind' = [kind EXCEPT ![new] = "heartbeat"]
             ELSE timeouts' = timeouts /\ kind' = [kind EXCEPT ![new] = "command"]
        /\ data' = [data EXCEPT ![new] = "none"]
  BY DEF AgentAccept
<1>2. /\ a \in evtHandlers /\ expired' = expired /\ stopped' = stopped /\ closed' = closed
      /\ waiting' = {}
  BY DEF AgentAccept, Serve
<1>3. ~stopped
  BY <1>2 DEF Shape
<1>4. Clear(new)
  BY <1>1, <1>3 DEF LoopInv, NoDanglingPointers, Pointers, Clear, None
<1>5. timeouts' = timeouts \/ \E x : x.handler = new /\ timeouts' = timeouts \cup {x}
  BY <1>1, AddTimeoutAdds
<1>6. \A g \in (Live \ closed)' : g # new => g \in Live \ closed /\ Busy(g)' = Busy(g)
  <2> TAKE g \in (Live \ closed)'
  <2> HAVE g # new
  <2>1. g \in Live \ closed
    BY <1>1, <1>2 DEF Live
  <2>2. kind'[g] = kind[g] /\ data'[g] = data[g]
    BY <1>1, <2>1 DEF Shape, Live, Addresses, LoopInv, TypeOK
  <2> QED
    BY <1>2, <2>1, <2>2 DEF Busy
<1>7. Settled(new)'
  <2>1. CASE a = HeartbeatAcceptor
    <3>1. Busy(new)'
      BY <1>1, <2>1 DEF Shape, Busy
    <3>2. Only(timeouts', new) /\ None(expired', new)
      BY <1>1, <1>2, <1>4, <2>1, AddTimeoutAdds, AddOwn DEF Clear
    <3> QED
      BY <3>1, <3>2 DEF Settled, Pending, None, Only
  <2>2. CASE a # HeartbeatAcceptor
    <3>1. ~Busy(new)'
      BY <1>1, <2>2 DEF Shape, Busy
    <3> QED
      BY <1>1, <1>2, <1>4, <2>2, <3>1 DEF Settled, Clear, None
  <2> QED
    BY <2>1, <2>2
<1> QED
  BY <1>2, <1>5, <1>6, <1>7, TimedStep

\* A session that stays open sets a timeout when, and only when, it starts a
\* subprocess; before, it has none.
LEMMA CommandTimed ==
  ASSUME LoopInv, Shape, Timed, NEW h \in pds, CommandEvent(h), waiting = {}
  PROVE  Timed'
<1>1. /\ h \in Live /\ kind[h] = "command" /\ kind' = kind /\ waiting' = {}
      /\ stopped' = stopped /\ expired' = expired /\ evtHandlers' = evtHandlers
  BY DEF CommandEvent, Serve
<1>2. h \in Addresses /\ data[h] = "none"
  BY <1>1 DEF Live, Addresses, LoopInv, TypeOK, Shape
<1>3. closed \subseteq closed'
  BY DEF CommandEvent, Lines, Quit, Exec
<1>4. CASE Lines(h) \/ Quit(h)
  <2>1. timeouts' = timeouts /\ data' = data
    BY <1>4 DEF Lines, Quit
  <2> QED
    BY <1>1, <1>3, <2>1, TimedKept DEF Live, Busy
<1>5. CASE Exec(h)
  <2>1. /\ AddTimeout(h, Period)
        /\ h \in closed' \/ data' = [data EXCEPT ![h] = "exec"]
        /\ data' = data \/ data' = [data EXCEPT ![h] = "exec"]
    BY <1>5 DEF Exec
  <2>2. \E x : x.handler = h /\ timeouts' = timeouts \cup {x}
    BY <2>1, AddTimeoutAdds
  <2>3. \A g \in (Live \ closed)' : g # h => g \in Live \ closed /\ Busy(g)' = Busy(g)
    BY <1>1, <1>3, <2>1 DEF Live, Busy, Shape, Addresses, LoopInv, TypeOK
  <2>4. ASSUME ~stopped, h \in (Live \ closed)' PROVE Settled(h)'
    <3>1. Busy(h)'
      BY <1>1, <1>2, <2>1, <2>4 DEF Busy, Shape
    <3>2. Clear(h)
      BY <1>1, <1>2, <1>3, <2>4 DEF Timed, Settled, Busy
    <3>3. Only(timeouts', h) /\ None(expired', h)
      BY <1>1, <2>2, <3>2, AddOwn DEF Clear
    <3> QED
      BY <3>1, <3>3 DEF Settled, Pending, None, Only
  <2> QED
    BY <1>1, <2>2, <2>3, <2>4, TimedStep
<1> QED
  BY <1>4, <1>5 DEF CommandEvent

\* A due timeout is the only one of its handler, which sets the next one as long
\* as it is busy.
LEMMA DeliverTimed ==
  ASSUME LoopInv, Shape, Timed, NEW t \in expired, AgentDeliver(t), waiting = {}
  PROVE  Timed'
<1> DEFINE h == t.handler
<1>1. /\ expired' = expired \ {t} /\ evtHandlers' = evtHandlers /\ closed' = closed
      /\ stopped' = stopped /\ kind' = kind
  BY DEF AgentDeliver, Thump, PollPipe, EndOfPipe, NoDataHandler, DeliverDeleted, Delivering
<1>2. ASSUME ~stopped, h \in Live \ closed
      PROVE  Busy(h) /\ None(timeouts, h) /\ None(expired', h)
  BY <1>1, <1>2, DueIsOnly DEF Timed
<1>3. CASE Thump(t) \/ PollPipe(t)
  <2>1. data' = data /\ waiting' = waiting
    BY <1>3 DEF Thump, PollPipe
  <2>2. \E x : x.handler = h /\ timeouts' = timeouts \cup {x}
    BY <1>3, AddTimeoutAdds DEF Thump, PollPipe, RearmBeat
  <2>3. ASSUME ~stopped, h \in (Live \ closed)' PROVE Settled(h)'
    <3>1. Busy(h)' /\ None(timeouts, h) /\ None(expired', h)
      BY <1>1, <1>2, <2>1, <2>3 DEF Live, Busy
    <3>2. Only(timeouts', h)
      BY <2>2, <3>1, AddOwn
    <3> QED
      BY <3>1, <3>2 DEF Settled, Pending, None, Only
  <2>4. \A g \in (Live \ closed)' : g # h => g \in Live \ closed /\ Busy(g)' = Busy(g)
    BY <1>1, <2>1 DEF Live, Busy
  <2> QED
    BY <1>1, <2>2, <2>3, <2>4, TimedStep
<1>4. CASE EndOfPipe(t)
  <2>1. /\ h \in Live /\ data[h] = "exec" /\ timeouts' = timeouts
        /\ \/ data' = [data EXCEPT ![h] = "none"] /\ waiting' = waiting
           \/ data' = data /\ waiting' = {h}
    BY <1>4 DEF EndOfPipe, AtEnd, ExecDone
  <2>2. h \in Addresses /\ kind[h] = "command"
    BY <2>1 DEF Live, Addresses, LoopInv, TypeOK, Shape
  <2>3. ~Busy(h)'
    BY <1>1, <2>1, <2>2 DEF Busy, Shape
  <2>4. ASSUME ~stopped, h \in (Live \ closed)' PROVE Settled(h)'
    BY <1>1, <1>2, <2>1, <2>3, <2>4 DEF Settled, Clear, Live, None
  <2>5. \A g \in (Live \ closed)' : g # h => g \in Live \ closed /\ Busy(g)' = Busy(g)
    BY <1>1, <2>1 DEF Live, Busy, Shape, Addresses, LoopInv, TypeOK
  <2> QED
    BY <1>1, <2>1, <2>4, <2>5, TimedStep
<1>5. CASE NoDataHandler(t) \/ DeliverDeleted(t)
  <2>1. timeouts' = timeouts /\ data' = data /\ waiting' = waiting
    BY <1>5 DEF NoDataHandler, DeliverDeleted
  <2>2. h \notin Live \/ (kind[h] = "command" /\ data[h] = "none")
    BY <1>5 DEF NoDataHandler, DeliverDeleted, Live
  <2>3. ASSUME ~stopped, h \in (Live \ closed)' PROVE FALSE
    <3>1. h \in Live \ closed
      BY <1>1, <2>3 DEF Live
    <3> QED
      BY <1>2, <2>2, <2>3, <3>1 DEF Busy
  <2>4. \A g \in (Live \ closed)' : g # h => g \in Live \ closed /\ Busy(g)' = Busy(g)
    BY <1>1, <2>1 DEF Live, Busy
  <2> QED
    BY <1>1, <2>1, <2>3, <2>4, TimedStep
<1> QED
  BY <1>3, <1>4, <1>5 DEF AgentDeliver

\* pclose() returns: the handler that waited has no timeout and needs none.
LEMMA ReapTimed ==
  ASSUME Shape, Timed, NEW h \in waiting, Reap(h)
  PROVE  Timed'
<1>1. /\ waiting = {h} /\ waiting' = {} /\ kind[h] = "command" /\ h \in Addresses
  BY DEF Reap, Shape
<1>2. /\ data' = [data EXCEPT ![h] = "none"] /\ kind' = kind /\ timeouts' = timeouts
      /\ expired' = expired /\ stopped' = stopped /\ evtHandlers' = evtHandlers
      /\ closed' = closed
  BY DEF Reap, ExecDone, vars
<1>3. \A g \in Live : Busy(g)' = Busy(g)
  BY <1>1, <1>2 DEF Busy, Shape
<1> QED
  BY <1>2, <1>3, TimedKept DEF Live

LEMMA TimedAlways == AgentInv /\ [AgentNext]_agentVars => Timed'
<1> SUFFICES ASSUME LoopInv, Shape, Timed, [AgentNext]_agentVars PROVE Timed'
  BY DEF AgentInv
<1>1. CASE AgentPoll
  BY <1>1, TimedKept DEF AgentPoll, Poll, handlerVars, Live, Busy
<1>2. CASE AgentDeleteClosed
  BY <1>2, DeleteTimed
<1>3. CASE AgentShutdown
  BY <1>3 DEF AgentShutdown, Shutdown, Stop, Timed
<1>4. CASE (EndDispatch \/ EndScan \/ Signal) /\ Same
  BY <1>4, TimedKept DEF EndDispatch, EndScan, Signal, Same, handlerVars, Live, Busy
<1>5. CASE Tick /\ Same
  BY <1>5, TickTimed
<1>6. ASSUME NEW t \in unscanned, ScanTimeout(t), Same PROVE Timed'
  BY <1>6, ScanTimed
<1>7. ASSUME NEW a \in pds, AgentAccept(a), waiting = {} PROVE Timed'
  BY <1>7, AcceptTimed
<1>8. ASSUME NEW h \in pds, HeartbeatEvent(h) PROVE Timed'
  BY <1>8, TimedKept DEF HeartbeatEvent, Serve, Live, Busy
<1>9. ASSUME NEW h \in pds, CommandEvent(h), waiting = {} PROVE Timed'
  BY <1>9, CommandTimed
<1>10. ASSUME NEW h \in pds, AgentReboot(h) PROVE Timed'
  BY <1>10 DEF AgentReboot, Reboot, Stop, Timed
<1>11. ASSUME NEW h \in pds, AgentDispatchDeleted(h) PROVE Timed'
  BY <1>11, TimedKept DEF AgentDispatchDeleted, DispatchDeleted, Serve, handlerVars, Live, Busy
<1>12. ASSUME NEW t \in expired, AgentDeliver(t), waiting = {} PROVE Timed'
  BY <1>12, DeliverTimed
<1>13. ASSUME NEW h \in waiting, Reap(h) PROVE Timed'
  BY <1>13, ReapTimed
<1>14. ASSUME NEW a \in pds, AgentAcceptFails(a) PROVE Timed'
  BY <1>14, TimedKept DEF AgentAcceptFails, Serve, handlerVars, Live, Busy
<1>15. CASE Clients
  BY <1>15, TimedKept DEF Clients, Connect, SendLine, Leave, ChildStep, vars, handlerVars, Live, Busy
<1>16. CASE UNCHANGED agentVars
  BY <1>16, TimedKept DEF agentVars, vars, handlerVars, Live, Busy
<1> QED
  BY <1>1, <1>2, <1>3, <1>4, <1>5, <1>6, <1>7, <1>8, <1>9, <1>10, <1>11, <1>12, <1>13, <1>14, <1>15, <1>16
     DEF AgentNext, AgentStep
-----------------------------------------------------------------------------
\* Every step of the agent is one of the loop, or leaves it alone.
LEMMA StepRefines == AgentInv /\ [AgentNext]_agentVars => [Next]_vars
<1> SUFFICES ASSUME AgentInv, [AgentNext]_agentVars PROVE [Next]_vars
  OBVIOUS
<1>1. CASE AgentPoll \/ AgentDeleteClosed \/ AgentShutdown
  BY <1>1 DEF AgentPoll, AgentDeleteClosed, AgentShutdown, Next, LoopStep
<1>2. CASE EndDispatch \/ EndScan \/ Tick \/ Signal
  BY <1>2 DEF Next, LoopStep
<1>3. ASSUME NEW t \in unscanned, ScanTimeout(t) PROVE Next
  BY <1>3 DEF Next, LoopStep
<1>4. ASSUME NEW a \in pds, AgentAccept(a) PROVE Next
  BY <1>4, AcceptRefines DEF Next, LoopStep
<1>5. ASSUME NEW h \in pds, HeartbeatEvent(h) \/ CommandEvent(h) PROVE Next
  BY <1>5, EventRefines DEF Next, LoopStep
<1>6. ASSUME NEW h \in pds, AgentReboot(h) \/ AgentDispatchDeleted(h) PROVE Next
  BY <1>6 DEF AgentReboot, AgentDispatchDeleted, Next, LoopStep
<1>7. ASSUME NEW a \in pds, AgentAcceptFails(a) PROVE Next
  BY <1>7 DEF AgentAcceptFails, AcceptNothing, Next, LoopStep
<1>8. ASSUME NEW t \in expired, AgentDeliver(t) PROVE Next
  <2>1. ASSUME t.handler \in Live \ closed, NoDataHandler(t) PROVE FALSE
    <3>1. ~stopped
      BY <2>1 DEF AgentInv, Shape, Live
    <3>2. Busy(t.handler)
      BY <2>1, <3>1, DueIsOnly DEF AgentInv, Timed
    <3> QED
      BY <2>1, <3>2 DEF NoDataHandler, Busy
  <2> QED
    BY <1>8, <2>1, DeliverRefines DEF Next, LoopStep
<1>9. CASE Clients \/ UNCHANGED agentVars \/ \E h \in waiting : Reap(h)
  BY <1>9 DEF Clients, Connect, SendLine, Leave, ChildStep, Reap, agentVars
<1> QED
  BY <1>1, <1>2, <1>3, <1>4, <1>5, <1>6, <1>7, <1>8, <1>9 DEF AgentNext, AgentStep

LEMMA AgentInvariant == AgentSpec => []AgentInv
<1>1. AgentInv /\ [AgentNext]_agentVars => AgentInv'
  <2> SUFFICES ASSUME AgentInv, [AgentNext]_agentVars PROVE AgentInv'
    OBVIOUS
  <2>1. [Next]_vars
    BY StepRefines
  <2>2. LoopInv'
    BY <2>1, StructureStep, PointersStep DEF AgentInv, LoopInv
  <2> QED
    BY <2>2, ShapeStep, TimedAlways DEF AgentInv
<1> QED
  BY AgentInvInit, <1>1, PTL DEF AgentSpec

\* The agent implements the event loop of Reactor, with handlers that do what
\* it lets handlers do: every theorem about Reactor is one about the agent.
THEOREM AgentRunsOnReactor == AgentSpec => RunsOnReactor
<1>1. AgentInit => Init
  BY DEF AgentInit
<1>2. AgentInv /\ [AgentNext]_agentVars => [Next]_vars
  BY StepRefines
<1> QED
  BY <1>1, <1>2, AgentInvariant, PTL DEF AgentSpec, RunsOnReactor, Spec

\* Until stop() runs, each heartbeat and each session that polls a subprocess
\* has exactly one timeout under way, and no other open handler has any, for
\* any number of clients.
THEOREM OneTimerEach == AgentSpec => []OneTimer
<1>1. AgentInv => OneTimer
  <2> SUFFICES ASSUME Timed, ~stopped, NEW h \in Live \ closed
               PROVE  Cardinality(TimersOf(h)) = IF Busy(h) THEN 1 ELSE 0
    BY DEF AgentInv, OneTimer, Busy
  <2>1. CASE Busy(h)
    <3>1. \E t : TimersOf(h) = {t}
      BY <2>1 DEF Timed, Settled, Pending, Due, Only, None, TimersOf
    <3> QED
      BY <2>1, <3>1, FS_Singleton
  <2>2. CASE ~Busy(h)
    <3>1. TimersOf(h) = {}
      BY <2>2 DEF Timed, Settled, Clear, None, TimersOf
    <3> QED
      BY <2>2, <3>1, FS_EmptySet
  <2> QED
    BY <2>1, <2>2
<1> QED
  BY <1>1, AgentInvariant, PTL
-----------------------------------------------------------------------------
(***************************************************************************)
(* What can crash the agent.  A session that is closed but not yet deleted *)
(* has a timeout only if the event that closed it set one, so it was set   *)
(* in this pass: it can expire in this pass only if the pass outlasts it.  *)
(***************************************************************************)
Recent ==
  ~stopped =>
    \A h \in Live \cap closed :
      kind[h] = "command" =>
        /\ data[h] = "none"
        /\ \A t \in timeouts \cup expired : t.handler = h => t.interval = Period /\ t.age <= ticks

Swept == (pc = "top" => closed = {}) /\ closed \cap pds = {}
Backlogs == backlog \in [Acceptors -> Int]

LEMMA SweptStep == LoopInv /\ Swept /\ [AgentNext]_agentVars => Swept'
<1> SUFFICES ASSUME LoopInv, Swept, [AgentNext]_agentVars PROVE Swept'
  OBVIOUS
<1>1. CASE AgentPoll \/ AgentDeleteClosed \/ AgentShutdown
  BY <1>1 DEF AgentPoll, Poll, AgentDeleteClosed, DeleteClosed, AgentShutdown, Shutdown, Stop, Swept
<1>2. CASE EndDispatch \/ EndScan \/ \E t \in unscanned : ScanTimeout(t)
  BY <1>2 DEF EndDispatch, EndScan, ScanTimeout, Swept
<1>3. ASSUME NEW h \in pds,
             \/ AgentAccept(h) \/ HeartbeatEvent(h) \/ CommandEvent(h) \/ AgentReboot(h)
             \/ AgentDispatchDeleted(h) \/ AgentAcceptFails(h)
      PROVE  Swept'
  <2>1. pds' = pds \ {h} /\ pc' # "top"
    BY <1>3 DEF AgentAccept, HeartbeatEvent, CommandEvent, AgentReboot, Reboot,
                AgentDispatchDeleted, DispatchDeleted, AgentAcceptFails, Serve
  <2>2. closed' \in {closed, closed \cup {h}, {}}
    <3>1. CASE HeartbeatEvent(h)
      BY <3>1 DEF HeartbeatEvent
    <3>2. CASE CommandEvent(h)
      BY <3>2 DEF CommandEvent, Lines, Quit, Exec
    <3>3. CASE AgentAccept(h) \/ AgentReboot(h) \/ AgentDispatchDeleted(h) \/ AgentAcceptFails(h)
      BY <3>3 DEF AgentAccept, AgentReboot, Reboot, Stop, AgentDispatchDeleted, DispatchDeleted,
                  AgentAcceptFails
    <3> QED
      BY <1>3, <3>1, <3>2, <3>3
  <2> QED
    BY <2>1, <2>2 DEF Swept
<1>4. ASSUME NEW t \in expired, AgentDeliver(t) PROVE Swept'
  BY <1>4 DEF AgentDeliver, Thump, PollPipe, EndOfPipe, NoDataHandler, DeliverDeleted, Delivering, Swept
<1>5. CASE \/ Clients \/ ((Tick \/ Signal) /\ Same) \/ UNCHANGED agentVars
           \/ \E h \in waiting : Reap(h)
  BY <1>5 DEF Clients, Connect, SendLine, Leave, ChildStep, Tick, Signal, Reap, agentVars, vars, Swept
<1> QED
  BY <1>1, <1>2, <1>3, <1>4, <1>5 DEF AgentNext, AgentStep

LEMMA BacklogsStep == LoopInv /\ Backlogs /\ [AgentNext]_agentVars => Backlogs'
<1> SUFFICES ASSUME Backlogs, [AgentNext]_agentVars PROVE Backlogs'
  OBVIOUS
<1> DEFINE Moved ==
             \/ backlog' = backlog \/ backlog' = [a \in Acceptors |-> 0]
             \/ \E a : \/ backlog' = [backlog EXCEPT ![a] = @ - 1]
                      \/ backlog' = [backlog EXCEPT ![a] = @ + 1]
<1>1. Moved
  <2>1. CASE AgentPoll \/ AgentDeleteClosed \/ AgentShutdown
    BY <2>1 DEF AgentPoll, AgentDeleteClosed, AgentShutdown, AllGone, clientVars
  <2>2. CASE Same
    BY <2>2 DEF Same, clientVars
  <2>3. ASSUME NEW h \in pds,
               AgentAccept(h) \/ AgentReboot(h) \/ AgentAcceptFails(h)
        PROVE  Moved
    BY <2>3 DEF AgentAccept, AgentReboot, AgentAcceptFails, AllGone
  <2>6. ASSUME NEW h \in pds,
               HeartbeatEvent(h) \/ CommandEvent(h) \/ AgentDispatchDeleted(h)
        PROVE  backlog' = backlog
    BY <2>6 DEF HeartbeatEvent, CommandEvent, AgentDispatchDeleted, clientVars
  <2>4. ASSUME NEW t \in expired, AgentDeliver(t) PROVE backlog' = backlog
    BY <2>4 DEF AgentDeliver, Thump, PollPipe, EndOfPipe, NoDataHandler, DeliverDeleted, Delivering,
                clientVars
  <2>5. CASE Clients \/ UNCHANGED agentVars \/ \E h \in waiting : Reap(h)
    BY <2>5 DEF Clients, Connect, SendLine, Leave, ChildStep, Reap, agentVars, clientVars
  <2> QED
    BY <2>1, <2>2, <2>3, <2>4, <2>5, <2>6 DEF AgentNext, AgentStep
<1> QED
  BY <1>1 DEF Backlogs

\* The timeout of an event that also closes its session is new.
LEMMA EventRecent ==
  ASSUME AgentInv, Swept, Recent, NEW h \in pds, CommandEvent(h)
  PROVE  Recent'
<1>1. /\ h \in Live /\ h \in Addresses /\ kind[h] = "command" /\ data[h] = "none" /\ kind' = kind
      /\ evtHandlers' = evtHandlers /\ stopped' = stopped /\ expired' = expired /\ ticks' = ticks
      /\ ticks \in Nat /\ data \in [Addresses -> {"none", "exec"}] /\ h \notin closed
  BY ReactorAssumption DEF CommandEvent, Serve, Live, Addresses, AgentInv, LoopInv, TypeOK, Shape, Swept
<1>2. ~stopped => Clear(h)
  BY <1>1 DEF AgentInv, Timed, Settled, Busy
<1>3. CASE Lines(h) \/ Quit(h)
  <2>1. timeouts' = timeouts /\ data' = data /\ closed' \in {closed, closed \cup {h}}
    BY <1>3 DEF Lines, Quit
  <2> QED
    BY <1>1, <1>2, <2>1 DEF Recent, Live, Clear, None
<1>4. CASE Exec(h)
  <2>1. /\ AddTimeout(h, Period) /\ closed \subseteq closed'
        /\ \/ closed' = closed \cup {h} /\ data' = data
           \/ closed' = closed /\ data' = [data EXCEPT ![h] = "exec"]
    BY <1>4 DEF Exec
  <2>2. PICK i : timeouts' = timeouts \cup {Timeout(i, h, Period)}
    BY <2>1 DEF AddTimeout
  <2> DEFINE x == Timeout(i, h, Period)
  <2>3. x.handler = h /\ x.interval = Period /\ x.age = 0
    BY DEF Timeout
  <2> HIDE DEF x
  <2>4. CASE closed' = closed \cup {h} /\ data' = data
    BY <1>1, <1>2, <2>2, <2>3, <2>4 DEF Recent, Live, Clear, None, x
  <2>5. CASE closed' = closed /\ data' = [data EXCEPT ![h] = "exec"]
    <3> SUFFICES ASSUME ~stopped, NEW g \in Live \cap closed, kind[g] = "command"
                 PROVE  /\ data'[g] = "none"
                        /\ \A t \in timeouts' \cup expired' : t.handler = g =>
                             t.interval = Period /\ t.age <= ticks
      BY <1>1, <2>5 DEF Recent, Live
    <3>1. g # h /\ data'[g] = data[g]
      BY <1>1, <2>5
    <3> QED
      BY <1>1, <2>2, <2>3, <3>1 DEF Recent, x
  <2> QED
    BY <2>1, <2>4, <2>5
<1> QED
  BY <1>3, <1>4 DEF CommandEvent

LEMMA RecentStep == AgentInv /\ Swept /\ Recent /\ [AgentNext]_agentVars => Recent'
<1> SUFFICES ASSUME AgentInv, Swept, Recent, [AgentNext]_agentVars PROVE Recent'
  OBVIOUS
<1>0. closed \subseteq evtHandlers /\ kind \in [Addresses -> {"none", "command", "heartbeat"}]
      /\ data \in [Addresses -> {"none", "exec"}] /\ Live \subseteq Addresses
      /\ timeouts \in SUBSET TimeoutType /\ expired \in SUBSET TimeoutType /\ ticks \in Nat
  BY ReactorAssumption DEF AgentInv, LoopInv, TypeOK, Shape, Live, Addresses
<1>1. CASE AgentPoll \/ AgentDeleteClosed \/ AgentShutdown
  BY <1>1 DEF AgentPoll, Poll, AgentDeleteClosed, DeleteClosed, AgentShutdown, Shutdown, Stop, Swept, Recent
<1>2. CASE (EndDispatch \/ EndScan \/ Signal) /\ Same
  BY <1>2 DEF EndDispatch, EndScan, Signal, Same, handlerVars, Recent, Live
<1>3. ASSUME NEW t \in unscanned, ScanTimeout(t), Same PROVE Recent'
  <2>1. t \in timeouts
    BY DEF AgentInv, LoopInv, TypeOK
  <2>2. timeouts' \cup expired' = timeouts \cup expired
    BY <1>3, <2>1 DEF ScanTimeout
  <2> QED
    BY <1>3, <2>2 DEF ScanTimeout, Same, handlerVars, Recent, Live
<1>4. CASE Tick /\ Same
  <2> SUFFICES ASSUME ~stopped, NEW h \in Live \cap closed, kind[h] = "command",
                      NEW t \in Aged(timeouts) \cup Aged(expired), t.handler = h
               PROVE  t.interval = Period /\ t.age <= ticks + 1
    BY <1>4 DEF Tick, Same, handlerVars, Recent, Live
  <2>1. PICK o \in timeouts \cup expired :
          t.handler = o.handler /\ t.interval = o.interval /\ t.age = o.age + 1 /\ o \in TimeoutType
    BY <1>0, AgedTimeouts
  <2>2. o.interval = Period /\ o.age <= ticks
    BY <2>1 DEF Recent
  <2>3. o.age \in Nat
    BY <2>1 DEF TimeoutType
  <2> QED
    BY <1>0, <2>1, <2>2, <2>3
<1>5. ASSUME NEW a \in pds, AgentAccept(a) PROVE Recent'
  <2>1. PICK new \in Addresses \ evtHandlers :
          /\ evtHandlers' = evtHandlers \cup {new}
          /\ timeouts' = timeouts \/ AddTimeout(new, Beat)
          /\ kind' \in {[kind EXCEPT ![new] = "heartbeat"], [kind EXCEPT ![new] = "command"]}
          /\ data' = [data EXCEPT ![new] = "none"]
    BY <1>5 DEF AgentAccept
  <2>2. closed' = closed /\ stopped' = stopped /\ ticks' = ticks /\ expired' = expired
    BY <1>5 DEF AgentAccept, Serve
  <2>3. timeouts' = timeouts \/ \E x : x.handler = new /\ timeouts' = timeouts \cup {x}
    BY <2>1, AddTimeoutAdds
  <2> SUFFICES ASSUME ~stopped, NEW h \in Live' \cap closed, kind'[h] = "command"
               PROVE  /\ data'[h] = "none"
                      /\ \A t \in timeouts' \cup expired : t.handler = h =>
                           t.interval = Period /\ t.age <= ticks
    BY <2>2 DEF Recent
  <2>4. h # new /\ h \in Live /\ kind'[h] = kind[h] /\ data'[h] = data[h]
    BY <1>0, <2>1 DEF Live
  <2> QED
    BY <2>3, <2>4 DEF Recent
<1>6. ASSUME NEW h \in pds, HeartbeatEvent(h) PROVE Recent'
  <2>1. /\ kind[h] = "heartbeat" /\ closed' \in {closed, closed \cup {h}} /\ kind' = kind
        /\ data' = data /\ timeouts' = timeouts /\ evtHandlers' = evtHandlers
        /\ stopped' = stopped /\ expired' = expired /\ ticks' = ticks
    BY <1>6 DEF HeartbeatEvent, Serve
  <2> QED
    BY <2>1 DEF Recent, Live
<1>7. ASSUME NEW h \in pds, CommandEvent(h) PROVE Recent'
  BY <1>7, EventRecent
<1>8. ASSUME NEW h \in pds, AgentReboot(h) PROVE Recent'
  BY <1>8 DEF AgentReboot, Reboot, Stop, Recent
<1>9. ASSUME NEW h \in pds, AgentDispatchDeleted(h) \/ AgentAcceptFails(h) PROVE Recent'
  BY <1>9 DEF AgentDispatchDeleted, DispatchDeleted, AgentAcceptFails, Serve, handlerVars, Recent, Live
<1>10. ASSUME NEW t \in expired, AgentDeliver(t) PROVE Recent'
  <2> DEFINE h == t.handler
  <2>1. /\ expired' = expired \ {t} /\ kind' = kind /\ evtHandlers' = evtHandlers /\ closed' = closed
        /\ stopped' = stopped /\ ticks' = ticks
    BY <1>10 DEF AgentDeliver, Thump, PollPipe, EndOfPipe, NoDataHandler, DeliverDeleted, Delivering
  <2>2. CASE Thump(t) \/ PollPipe(t)
    <3>1. kind[h] = "heartbeat" \/ (h \in Live /\ data[h] = "exec")
      BY <2>2 DEF Thump, PollPipe
    <3>2. data' = data /\ \E x : x.handler = h /\ timeouts' = timeouts \cup {x}
      BY <2>2, AddTimeoutAdds DEF Thump, PollPipe, RearmBeat
    <3> QED
      BY <2>1, <3>1, <3>2 DEF Recent, Live
  <2>3. CASE EndOfPipe(t) \/ NoDataHandler(t) \/ DeliverDeleted(t)
    <3>1. timeouts' = timeouts /\ \A g \in Addresses : data'[g] \in {data[g], "none"}
      BY <1>0, <2>3 DEF EndOfPipe, AtEnd, ExecDone, NoDataHandler, DeliverDeleted
    <3> QED
      BY <1>0, <2>1, <3>1 DEF Recent, Live
  <2> QED
    BY <1>10, <2>2, <2>3 DEF AgentDeliver
<1>11. ASSUME NEW h \in waiting, Reap(h) PROVE Recent'
  <2>1. \A g \in Addresses : data'[g] \in {data[g], "none"}
    BY <1>0, <1>11 DEF Reap, ExecDone
  <2> QED
    BY <1>0, <1>11, <2>1 DEF Reap, vars, Recent, Live
<1>12. CASE Clients \/ UNCHANGED agentVars
  BY <1>12 DEF Clients, Connect, SendLine, Leave, ChildStep, agentVars, vars, handlerVars, Recent, Live
<1> QED
  BY <1>1, <1>2, <1>3, <1>4, <1>5, <1>6, <1>7, <1>8, <1>9, <1>10, <1>11, <1>12
     DEF AgentNext, AgentStep

\* The three ways to crash.
LEMMA CrashStep ==
  ASSUME AgentInv, NeverEarly, Recent, Backlogs, AgentNext, pc' = "crashed", pc # "crashed"
  PROVE  \/ stopped' \/ \E a \in Acceptors : backlog'[a] < backlog[a]
         \/ \E t \in expired : t.handler \in closed /\ ticks > Period /\ kind[t.handler] = "command"
<1> DEFINE Known == \/ stopped' \/ \E a \in Acceptors : backlog'[a] < backlog[a]
                    \/ \E t \in expired : /\ t.handler \in closed /\ ticks > Period
                                          /\ kind[t.handler] = "command"
<1>1. ASSUME NEW a \in pds, AgentAcceptFails(a) PROVE Known
  <2>1. a \in Acceptors /\ backlog' = [backlog EXCEPT ![a] = @ - 1]
    BY <1>1 DEF AgentAcceptFails
  <2>2. backlog[a] \in Int /\ backlog'[a] = backlog[a] - 1
    BY <2>1 DEF Backlogs
  <2> QED
    BY <2>1, <2>2
<1>2. ASSUME NEW h \in pds, AgentReboot(h) \/ AgentDispatchDeleted(h) PROVE Known
  BY <1>2 DEF AgentReboot, Reboot, Stop, AgentDispatchDeleted, DispatchDeleted, AgentInv, LoopInv,
              NoDanglingPointers
<1>3. ASSUME NEW t \in expired, AgentDeliver(t) PROVE Known
  <2> DEFINE h == t.handler
  <2>1. NoDataHandler(t) \/ DeliverDeleted(t)
    BY <1>3 DEF AgentDeliver, Thump, PollPipe, EndOfPipe
  <2>2. stopped' = stopped
    BY <2>1 DEF NoDataHandler, DeliverDeleted, Delivering
  <2>3. CASE DeliverDeleted(t)
    BY <2>2, <2>3 DEF DeliverDeleted, AgentInv, LoopInv, NoDanglingPointers, Pointers
  <2>4. CASE NoDataHandler(t)
    <3> SUFFICES ASSUME ~stopped PROVE Known
      BY <2>2
    <3>1. h \in Live /\ kind[h] = "command" /\ data[h] = "none"
      BY <2>4 DEF NoDataHandler
    <3>2. h \in closed
      BY <3>1, DueIsOnly DEF AgentInv, Timed, Busy
    <3>3. t.interval = Period /\ t.age <= ticks
      BY <3>1, <3>2 DEF Recent
    <3>4. t.age > t.interval
      BY DEF NeverEarly
    <3>5. t.age \in Nat /\ Period \in Nat /\ ticks \in Nat
      BY ReactorAssumption, PeriodsAreIntervals DEF AgentInv, LoopInv, TypeOK, TimeoutType
    <3> QED
      BY <3>1, <3>2, <3>3, <3>4, <3>5
  <2> QED
    BY <2>1, <2>3, <2>4
<1>4. ASSUME AgentPoll \/ AgentDeleteClosed \/ AgentShutdown \/ EndDispatch \/ EndScan \/ Tick \/ Signal
      PROVE  FALSE
  BY <1>4 DEF AgentPoll, Poll, AgentDeleteClosed, DeleteClosed, AgentShutdown, Shutdown, EndDispatch,
              EndScan, Tick, Signal
<1>5. ASSUME NEW t \in unscanned, ScanTimeout(t) PROVE FALSE
  BY <1>5 DEF ScanTimeout
<1>6. ASSUME NEW h \in pds, AgentAccept(h) \/ HeartbeatEvent(h) \/ CommandEvent(h) PROVE FALSE
  BY <1>6 DEF AgentAccept, HeartbeatEvent, CommandEvent
<1>7. ASSUME Clients \/ \E h \in waiting : Reap(h) PROVE FALSE
  BY <1>7 DEF Clients, Connect, SendLine, Leave, ChildStep, Reap, vars
<1> QED
  BY <1>1, <1>2, <1>3, <1>4, <1>5, <1>6, <1>7 DEF AgentNext, AgentStep

\* Nothing else crashes the agent than a connection that cannot be accepted,
\* rebt, and the timeout of an exec whose client left in the event that started
\* it, in a pass that takes longer than that timeout.
THEOREM CrashIsKnown == AgentSpec => CrashKnown
<1> DEFINE Inv == Swept /\ Recent /\ Backlogs
           Known == \/ stopped' \/ \E a \in Acceptors : backlog'[a] < backlog[a]
                    \/ \E t \in expired :
                         t.handler \in closed /\ ticks > Period /\ kind[t.handler] = "command"
<1>1. AgentInit => Inv
  BY DEF AgentInit, Init, Swept, Recent, Backlogs
<1>2. AgentInv /\ Inv /\ [AgentNext]_agentVars => Inv'
  BY SweptStep, RecentStep, BacklogsStep DEF AgentInv
<1>3. AgentSpec => []NeverEarly
  BY AgentRunsOnReactor, NotEarly, PTL DEF RunsOnReactor
<1>4. AgentInv /\ Inv /\ NeverEarly /\ [AgentNext]_agentVars
        => [pc' = "crashed" /\ pc # "crashed" => Known]_agentVars
  BY CrashStep
<1> HIDE DEF Inv, Known
<1>5. AgentSpec => [][pc' = "crashed" /\ pc # "crashed" => Known]_agentVars
  BY AgentInvariant, <1>1, <1>2, <1>3, <1>4, PTL DEF AgentSpec
<1> QED
  BY <1>5 DEF CrashKnown, Known
=============================================================================
