------------------------------ MODULE Reactor ------------------------------
(***************************************************************************)
(* The event loop of the agent (src/src/Reactor.cpp), which owns every     *)
(* EventHandler and every pending timeout, driven by main()                *)
(* (src/src/SUTAgent.cpp).  One pass of run() is five steps: poll, call    *)
(* handleEvent() for each ready descriptor, collect the expired timeouts,  *)
(* call handleTimeout() for each of them, delete the closed handlers.      *)
(*                                                                         *)
(* Handlers are pointers.  A pointer outside evtHandlers is dangling: the  *)
(* object is deleted (or was never created).  An address may be allocated  *)
(* again once its handler is deleted.  What a handler does when called is  *)
(* left to the modules of the handlers; here it may do any of the things   *)
(* some handler of the agent does to the reactor: nothing, close itself,   *)
(* set a timeout, register a new handler, or stop the reactor.             *)
(*                                                                         *)
(* mEvtHandlers, mTimeouts and the arrays of one pass are sets: handlers   *)
(* touch only their own state, so the order of the vectors is not          *)
(* observable, and every order is a behaviour of the model.                *)
(***************************************************************************)
EXTENDS Integers

CONSTANTS
  Handlers,   \* addresses of EventHandler objects
  Acceptors,  \* the handlers main() registers before the loop
  Timers,     \* identities of Timeout objects (bounds how many are pending)
  Intervals,  \* the intervals, in ticks, that handlers ask for
  Wrap,       \* PR_IntervalNow() counts modulo Wrap (2^32 in the program)
  MaxPass     \* bound: clock ticks during one pass of run()

ASSUME ReactorAssumption ==
  /\ Acceptors \subseteq Handlers
  /\ Wrap \in Nat /\ MaxPass \in Nat
  /\ Intervals \subseteq Nat
  /\ \A d \in Intervals : d + 2 * MaxPass < Wrap

VARIABLES
  evtHandlers,  \* mEvtHandlers: registered and not yet deleted
  closed,       \* the handlers with mClosed set
  timeouts,     \* mTimeouts
  pds,          \* this pass: polled handlers whose out_flags are still unserved
  unscanned,    \* this pass: timeouts the expiry loop has not looked at
  expired,      \* expiredHandlers of this pass, as the timeouts they came from
  now,          \* PR_IntervalNow()
  ticks,        \* clock ticks since this pass began (cut off at MaxPass)
  pc,           \* the step main() and run() are at
  wantToDie,    \* set by the signal handler
  stopped       \* history: stop() has run

vars == <<evtHandlers, closed, timeouts, pds, unscanned, expired, now, ticks,
          pc, wantToDie, stopped>>

Steps == {"top", "dispatch", "scan", "deliver", "done", "crashed"}
Halted == pc \in {"done", "crashed"}

(***************************************************************************)
(* Timeouts.  age is a history field: the ticks that have really gone by   *)
(* since the timeout was set, which the wrapping clock only approximates.  *)
(***************************************************************************)
Timeout(i, h, d) == [id |-> i, handler |-> h, epoch |-> now, interval |-> d, age |-> 0]

\* Faulty variant: a clock that has wrapped yields 0.
ElapsedSaturating(t) == IF now >= t.epoch THEN now - t.epoch ELSE 0

\* The unsigned subtraction PR_IntervalNow() - epoch.
Elapsed(t) == IF now >= t.epoch THEN now - t.epoch ELSE now - t.epoch + Wrap

\* Faulty variant: the comparison is not strict.
IsExpiredNonStrict(t) == Elapsed(t) >= t.interval

IsExpired(t) == Elapsed(t) > t.interval

\* A Timeout object is gone once the expiry loop has erased it.
FreeTimers == {i \in Timers : \A t \in timeouts : t.id # i}

SetTimeout(h) ==
  \E i \in FreeTimers, d \in Intervals : timeouts' = timeouts \cup {Timeout(i, h, d)}

MaySetTimeout(h) == UNCHANGED timeouts \/ SetTimeout(h)

Pointers(T) == {t.handler : t \in T}
-----------------------------------------------------------------------------
\* main() has registered the two acceptors and no timeout is pending.
Init ==
  /\ evtHandlers = Acceptors
  /\ closed = {}
  /\ timeouts = {} /\ expired = {} /\ unscanned = {}
  /\ pds = {}
  /\ now \in 0 .. Wrap - 1
  /\ ticks = 0
  /\ pc = "top"
  /\ wantToDie = FALSE
  /\ stopped = FALSE

Poll ==
  /\ pc = "top" /\ ~wantToDie
  /\ pds' \in SUBSET evtHandlers
  /\ ticks' = 0
  /\ pc' = "dispatch"
  /\ UNCHANGED <<evtHandlers, closed, timeouts, unscanned, expired, now, wantToDie, stopped>>

\* The next ready descriptor of the loop over pds.
Serve(h) ==
  /\ pc = "dispatch" /\ h \in pds
  /\ pds' = pds \ {h}
  /\ UNCHANGED <<unscanned, expired, now, ticks, wantToDie>>

\* handleEvent() of a session or heartbeat returns, with or without a timeout
\* set, perhaps closed.
HandleEvent(h) ==
  /\ Serve(h) /\ h \in evtHandlers \ Acceptors
  /\ closed' \in {closed, closed \cup {h}}
  /\ MaySetTimeout(h)
  /\ UNCHANGED <<evtHandlers, pc, stopped>>

\* An acceptor creates a handler, whose constructor registers it and may set a
\* timeout.
Accept(h) ==
  /\ Serve(h) /\ h \in evtHandlers \cap Acceptors
  /\ \E new \in Handlers \ (Acceptors \cup evtHandlers) :
       /\ evtHandlers' = evtHandlers \cup {new}
       /\ MaySetTimeout(new)
  /\ UNCHANGED <<closed, pc, stopped>>

\* An acceptor polled without PR_POLL_READ returns at once; one whose
\* PR_Accept() fails goes on with a null descriptor and crashes.
AcceptNothing(h) ==
  /\ Serve(h) /\ h \in evtHandlers \cap Acceptors
  /\ pc' \in {pc, "crashed"}
  /\ UNCHANGED <<evtHandlers, closed, timeouts, stopped>>

\* stop(): every handler is closed and deleted, mTimeouts is left as it is.
Stop ==
  /\ evtHandlers' = {}
  /\ closed' = {}
  /\ stopped' = TRUE
  /\ UNCHANGED timeouts

\* The rebt command stops the reactor from inside run(); the handler that did
\* so goes on executing although it is deleted, which may crash.
Reboot(h) ==
  /\ Serve(h) /\ h \in evtHandlers \ Acceptors
  /\ Stop
  /\ pc' \in {pc, "crashed"}

\* handleMap still holds the address of a handler deleted since the poll.
DispatchDeleted(h) ==
  /\ Serve(h) /\ h \notin evtHandlers
  /\ pc' \in {pc, "crashed"}
  /\ UNCHANGED <<evtHandlers, closed, timeouts, stopped>>

EndDispatch ==
  /\ pc = "dispatch" /\ pds = {}
  /\ unscanned' = timeouts
  /\ pc' = "scan"
  /\ UNCHANGED <<evtHandlers, closed, timeouts, pds, expired, now, ticks, wantToDie, stopped>>

\* Faulty variant: looking at a timeout that has not expired starts it anew.
ScanRestarting(t) ==
  /\ pc = "scan" /\ t \in unscanned
  /\ unscanned' = unscanned \ {t}
  /\ timeouts' = (timeouts \ {t}) \cup
       (IF IsExpired(t) THEN {} ELSE {Timeout(t.id, t.handler, t.interval)})
  /\ expired' = expired \cup (IF IsExpired(t) THEN {t} ELSE {})
  /\ UNCHANGED <<evtHandlers, closed, pds, now, ticks, pc, wantToDie, stopped>>

\* One round of the expiry loop; expired() reads the clock each time.
ScanTimeout(t) ==
  /\ pc = "scan" /\ t \in unscanned
  /\ unscanned' = unscanned \ {t}
  /\ IF IsExpired(t)
       THEN timeouts' = timeouts \ {t} /\ expired' = expired \cup {t}
       ELSE UNCHANGED <<timeouts, expired>>
  /\ UNCHANGED <<evtHandlers, closed, pds, now, ticks, pc, wantToDie, stopped>>

EndScan ==
  /\ pc = "scan" /\ unscanned = {}
  /\ pc' = "deliver"
  /\ UNCHANGED <<evtHandlers, closed, timeouts, pds, unscanned, expired, now, ticks,
                 wantToDie, stopped>>

\* Faulty variant: the deliveries run over the list that handlers add to.
DeliverLive(t) ==
  /\ pc = "deliver" /\ t \in expired
  /\ \E new \in {{}} \cup {{Timeout(i, t.handler, d)} : i \in FreeTimers, d \in Intervals} :
       expired' = (expired \ {t}) \cup new
  /\ UNCHANGED <<evtHandlers, closed, timeouts, pds, unscanned, now, ticks, pc, wantToDie,
                 stopped>>

\* handleTimeout() may set the next timeout; on a handler that has closed itself
\* in this pass, or is deleted, it may crash.
Deliver(t) ==
  /\ pc = "deliver" /\ t \in expired
  /\ expired' = expired \ {t}
  /\ MaySetTimeout(t.handler)
  /\ pc' \in IF t.handler \in evtHandlers \ closed THEN {pc} ELSE {pc, "crashed"}
  /\ UNCHANGED <<evtHandlers, closed, pds, unscanned, now, ticks, wantToDie, stopped>>

\* Faulty variants: the timeouts stay behind; a handler is kept while it has a
\* timeout; mClosed of a deleted handler is still looked at.
DeleteKeepingTimeouts ==
  /\ pc = "deliver" /\ expired = {}
  /\ evtHandlers' = evtHandlers \ closed
  /\ closed' = {}
  /\ pc' = "top"
  /\ UNCHANGED <<timeouts, pds, unscanned, expired, now, ticks, wantToDie, stopped>>

DeleteIdleClosed ==
  /\ pc = "deliver" /\ expired = {}
  /\ evtHandlers' = evtHandlers \ (closed \ Pointers(timeouts))
  /\ closed' = closed \cap Pointers(timeouts)
  /\ pc' = "top"
  /\ UNCHANGED <<timeouts, pds, unscanned, expired, now, ticks, wantToDie, stopped>>

DeleteKeepingFlags ==
  /\ pc = "deliver" /\ expired = {}
  /\ evtHandlers' = evtHandlers \ closed
  /\ timeouts' = {t \in timeouts : t.handler \notin closed}
  /\ pc' = "top"
  /\ UNCHANGED <<closed, pds, unscanned, expired, now, ticks, wantToDie, stopped>>

\* deleteClosed(): the closed handlers go, and their timeouts with them.
DeleteClosed ==
  /\ pc = "deliver" /\ expired = {}
  /\ evtHandlers' = evtHandlers \ closed
  /\ timeouts' = {t \in timeouts : t.handler \notin closed}
  /\ closed' = {}
  /\ pc' = "top"
  /\ UNCHANGED <<pds, unscanned, expired, now, ticks, wantToDie, stopped>>

\* main() leaves its loop.
Shutdown ==
  /\ pc = "top" /\ wantToDie
  /\ Stop
  /\ pc' = "done"
  /\ UNCHANGED <<pds, unscanned, expired, now, ticks, wantToDie>>

Signal ==
  /\ ~wantToDie /\ ~Halted
  /\ wantToDie' = TRUE
  /\ UNCHANGED <<evtHandlers, closed, timeouts, pds, unscanned, expired, now, ticks,
                 pc, stopped>>

Aged(T) == {[t EXCEPT !.age = @ + 1] : t \in T}

\* One tick of the interval clock.
Tick ==
  /\ ~Halted /\ ticks < MaxPass
  /\ ticks' = ticks + 1
  /\ now' = IF now = Wrap - 1 THEN 0 ELSE now + 1
  /\ timeouts' = Aged(timeouts)
  /\ unscanned' = Aged(unscanned)
  /\ expired' = Aged(expired)
  /\ UNCHANGED <<evtHandlers, closed, pds, pc, wantToDie, stopped>>

LoopStep ==
  \/ Poll \/ EndDispatch \/ EndScan \/ DeleteClosed \/ Shutdown
  \/ \E h \in pds : 
       HandleEvent(h) \/ Accept(h) \/ AcceptNothing(h) \/ Reboot(h) \/ DispatchDeleted(h)
  \/ \E t \in unscanned : ScanTimeout(t)
  \/ \E t \in expired : Deliver(t)

Next == LoopStep \/ Tick \/ Signal

\* The only thread runs whenever it can, and time passes.
Fairness == WF_vars(LoopStep) /\ WF_vars(Tick)

Spec == Init /\ [][Next]_vars
FairSpec == Spec /\ Fairness
-----------------------------------------------------------------------------
TimeoutType ==
  [id : Timers, handler : Handlers, epoch : 0 .. Wrap - 1, interval : Intervals, age : Nat]

TypeOK ==
  /\ evtHandlers \in SUBSET Handlers
  /\ closed \in SUBSET evtHandlers
  /\ timeouts \in SUBSET TimeoutType
  /\ expired \in SUBSET TimeoutType
  /\ unscanned \in SUBSET timeouts
  /\ pds \in SUBSET Handlers
  /\ now \in 0 .. Wrap - 1
  /\ ticks \in 0 .. MaxPass
  /\ pc \in Steps
  /\ wantToDie \in BOOLEAN /\ stopped \in BOOLEAN

\* Until stop() runs, nothing the loop still holds -- a pending timeout, an
\* expired one about to be delivered, a ready descriptor about to be served --
\* points to a deleted handler: run() deletes only after the last delivery of
\* the pass, and takes the handler's timeouts along.
NoDanglingPointers ==
  ~stopped => Pointers(timeouts \cup expired) \cup pds \subseteq evtHandlers

\* handleTimeout() is never called early, even when the clock has wrapped
\* between setTimeout() and expired() (the comparison in expired() is strict).
NeverEarly == \A t \in expired : t.age > t.interval

\* No timeout is overlooked because of the wrap: a timeout still pending is at
\* most two passes late, and its wrapped age is the real one.
NeverOverlooked ==
  \A t \in timeouts : t.age <= t.interval + 2 * MaxPass /\ Elapsed(t) = t.age

\* Reactor.h promises registered handlers automatic cleanup: no timeout should
\* outlive its handler while run() can still deliver it.
AutomaticCleanup == ~Halted => Pointers(timeouts) \subseteq evtHandlers

\* A handler that closed itself is deleted (at the end of its pass, or by
\* stop()), even one that set another timeout after it was closed.
ClosedIsDeleted == \A h \in Handlers : h \in closed ~> h \notin closed \/ pc = "crashed"

\* A pending timeout is collected or cancelled, unless the agent ends.
TimeoutServed ==
  \A i \in Timers :
    (\E t \in timeouts : t.id = i) ~> Halted \/ \A t \in timeouts : t.id # i

\* After a signal main() leaves its loop: every pass of run() ends, whatever
\* timeouts its handlers set meanwhile.
SignalEndsLoop == wantToDie ~> Halted
=============================================================================
