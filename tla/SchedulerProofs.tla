-------------------------- MODULE SchedulerProofs --------------------------
(***************************************************************************)
(* Theorems about module Scheduler, for every value of its constants.       *)
(***************************************************************************)
EXTENDS Scheduler, TLAPS

-----------------------------------------------------------------------------
(***************************************************************************)
(* The inductive invariant                                                  *)
(***************************************************************************)

\* Where the threads can be.
Control ==
    /\ pc \in {"wait", "fire", "exited"} <=> firing = {}
    /\ owner = "engine" <=> pc = "body"
    /\ owner # "engine" => Idle("engine")
    /\ owner = "main" => phase \in {"setup", "running"}
    /\ owner # "main" /\ phase # "setup" => Idle("main")
    /\ pc = "exited" => ~Running
    /\ phase = "stopped" => pc = "exited" /\ present = {}
    /\ InCallback => \A e \in firing : e.sub \in present

\* What an event knows of its subscription: no event has a generation the
\* subscription has yet to reach, and none belongs to an id not yet given out.
EventsKnown ==
    \A e \in Events :
        /\ e.sub < nextId
        /\ e.sub \in present => e.gen <= subs[e.sub].gen

\* The subscriptions to arm were subscribed, are armed once, and their closures
\* of earlier generations are dead already.
Pending ==
    \A t, u \in Threads : \A a \in toArm[t], b \in toArm[u] :
        /\ a.sub < nextId
        /\ a.sub \in present => LiveEvents(a.sub) = {}
        /\ a.sub = b.sub => t = u /\ a = b

\* The deadline of a live closure, or the one an arm will compute, is later
\* than the last one fired.
Ahead ==
    /\ \A s \in present : subs[s].dt \in Nat \ {0} /\ subs[s].lastFire >= 0
    /\ \A t \in Threads : \A a \in toArm[t] :
         a.sub \in present => a.base + subs[a.sub].dt > subs[a.sub].lastFire
    /\ \A e \in Events :
         e.sub \in present /\ e.gen = subs[e.sub].gen =>
           IF e \in firing /\ pc # "check"
           THEN e.at >= subs[e.sub].lastFire ELSE e.at > subs[e.sub].lastFire

Inv ==
    /\ TypeOK /\ Control /\ EventsKnown /\ OneLiveChain
    /\ ActiveIsArmed /\ PausedIsResumable /\ Pending /\ Ahead

\* A subscription is never rescheduled into the past, nor at the deadline it
\* has just been fired for.
LEMMA NextDeadlineLater ==
  ASSUME NEW at \in Int, NEW dt \in Nat \ {0}, NEW t \in Nat
  PROVE  NextDeadline(at, dt, t) \in Int /\ NextDeadline(at, dt, t) > at
                                          /\ NextDeadline(at, dt, t) > t
<1>1. CASE at + dt > t
  BY <1>1 DEF NextDeadline
<1>2. CASE ~(at + dt > t)
  <2> DEFINE k == (t - at) \div dt
  <2>1. t - at \in Nat /\ t - at >= dt
    BY <1>2
  <2>2. k \in Nat /\ dt * k <= t - at /\ t - at < dt * (k + 1)
    BY <2>1
  <2>3. dt * (k + 1) \in Nat
    BY <2>2
  <2> QED BY <1>2, <2>1, <2>2, <2>3 DEF NextDeadline
<1> QED BY <1>1, <1>2

-----------------------------------------------------------------------------
(***************************************************************************)
(* Each call of the scheduler preserves the invariant                       *)
(***************************************************************************)

\* subscribe() gives out the next id and queues its first event.
LEMMA SubscribeInv ==
  ASSUME Inv, NEW t \in Threads, NEW dt \in Dts, NEW g \in Tags, NEW first \in Firsts,
         Subscribe(t, dt, g, first)
  PROVE  Inv'
<1> DEFINE new == [dt |-> dt, active |-> TRUE, tag |-> g, paused |-> FALSE,
                   lastFire |-> Never, gen |-> 0]
           req == [sub |-> nextId, base |-> IF first > 0 THEN Origin + first - dt ELSE now]
<1>a. /\ nextId \in SubIds /\ nextId \notin present
      /\ nextId' = nextId + 1 /\ present' = present \cup {nextId}
      /\ dt \in Nat \ {0} /\ first \in Nat
  BY SchedulerAssumption DEF Inv, TypeOK, Subscribe, SubIds
<1>b. /\ subs' = [subs EXCEPT ![nextId] = new]
      /\ toArm[t] = {} /\ toArm' = [toArm EXCEPT ![t] = {req}]
  BY DEF Subscribe, MayCall, Idle
<1>c. /\ new \in Subscription /\ req \in ArmRequest
      /\ new.dt = dt /\ new.gen = 0 /\ new.lastFire = 0 /\ ~new.paused
  BY <1>a DEF Subscription, Never, ArmRequest, Origin, Inv, TypeOK
<1>d. /\ Events' = Events /\ \A e \in Events : e.sub # nextId
  BY <1>a DEF Inv, EventsKnown, Subscribe, engineVars, Events, SubIds
<1>e. \A s \in SubIds : s # nextId => LiveEvents(s)' = LiveEvents(s)
  BY <1>b, <1>d DEF LiveEvents, Inv
<1>f. PendingSubs' = PendingSubs \cup {nextId}
  BY <1>a, <1>b, <1>c DEF PendingSubs, Inv, TypeOK
<1>1. TypeOK'
  <2>1. subs' \in [SubIds -> Subscription]
    BY <1>a, <1>b, <1>c DEF Inv, TypeOK
  <2>2. \A r \in SubIds \ present' : subs'[r] = Blank
    BY <1>b DEF Inv, TypeOK, Subscribe
  <2>3. toArm' \in [Threads -> SUBSET ArmRequest]
    BY <1>b, <1>c DEF Inv, TypeOK
  <2>4. nextId' \in Nat \ {0} /\ present' \subseteq SubIds /\ \A r \in present' : r < nextId'
    BY <1>a DEF Inv, TypeOK, Subscribe, SubIds
  <2> QED BY <2>1, <2>2, <2>3, <2>4 DEF Inv, TypeOK, Subscribe, engineVars
<1>g. \A e \in Events : subs'[e.sub] = subs[e.sub] /\ (e.sub \in present' <=> e.sub \in present)
  BY <1>a, <1>b, <1>d DEF Inv, Subscribe
<1>3. EventsKnown'
  BY <1>a, <1>d, <1>g DEF Inv, TypeOK, EventsKnown, Subscribe, SubIds, Event, Events, Threads
<1>5. ActiveIsArmed'
  BY <1>a, <1>b, <1>e, <1>f DEF Inv, TypeOK, ActiveIsArmed, Subscribe
<1>6. PausedIsResumable'
  BY <1>a, <1>b, <1>c DEF Inv, TypeOK, PausedIsResumable, Subscribe
<1>7. Pending'
  <2>1. ASSUME NEW s \in SubIds, s = nextId PROVE LiveEvents(s)' = {}
    BY <1>d, <2>1 DEF LiveEvents
  <2>2. \A u \in Threads : \A a \in toArm[u] : a.sub # nextId /\ a.sub \in SubIds
    BY <1>a DEF Inv, TypeOK, Pending, ArmRequest, SubIds
  <2>3. \A u \in Threads : \A a \in toArm'[u] : a \in toArm[u] \/ (u = t /\ a = req)
    BY <1>b DEF Inv
  <2>4. ASSUME NEW u \in Threads, NEW a \in toArm'[u]
        PROVE  a.sub < nextId' /\ (a.sub \in present' => LiveEvents(a.sub)' = {})
    <3>1. CASE a = req
      BY <1>a, <2>1, <3>1 DEF SubIds
    <3>2. CASE a \in toArm[u]
      BY <1>a, <1>e, <2>2, <3>2 DEF Inv, Pending, SubIds
    <3> QED BY <2>3, <3>1, <3>2
  <2>5. ASSUME NEW u \in Threads, NEW v \in Threads, NEW a \in toArm'[u], NEW b \in toArm'[v],
               a.sub = b.sub
        PROVE  u = v /\ a = b
    BY <2>2, <2>3, <2>5 DEF Inv, Pending
  <2> QED BY <2>4, <2>5 DEF Pending
<1>8. Ahead'
  <2>1. \A s \in present' : subs'[s].dt \in Nat \ {0} /\ subs'[s].lastFire >= 0
    BY <1>a, <1>b, <1>c DEF Inv, TypeOK, Ahead, Subscribe
  <2>2. req.base + dt > 0
    BY <1>a DEF Origin, Inv, TypeOK
  <2>3. \A u \in Threads : \A a \in toArm'[u] :
          a.sub \in present' => a.base + subs'[a.sub].dt > subs'[a.sub].lastFire
    <3>1. \A u \in Threads : \A a \in toArm[u] : a.sub # nextId /\ a.sub \in SubIds
      BY <1>a DEF Inv, TypeOK, Pending, ArmRequest, SubIds
    <3> QED BY <1>a, <1>b, <1>c, <2>2, <3>1 DEF Inv, TypeOK, Ahead, Subscribe
  <2>5. UNCHANGED <<firing, pc>>
    BY DEF Subscribe, engineVars
  <2>6. \A e \in Events' : e.sub \in present' /\ e.gen = subs'[e.sub].gen =>
           IF e \in firing' /\ pc' # "check"
           THEN e.at >= subs'[e.sub].lastFire ELSE e.at > subs'[e.sub].lastFire
    BY <1>d, <1>g, <2>5 DEF Inv, Ahead
  <2> QED BY <2>1, <2>3, <2>6 DEF Ahead
<1>20. Control'
  BY DEF Inv, Control, Idle, Running, Threads, InCallback, Subscribe, MayCall, Idle, engineVars
<1>21. OneLiveChain'
  BY DEF Inv, OneLiveChain, Events, Subscribe, engineVars
<1> QED BY <1>1, <1>20, <1>3, <1>21, <1>5, <1>6, <1>7, <1>8 DEF Inv

\* unsubscribe() marks a subscription, and leaves its event in the queue.
LEMMA UnsubscribeInv ==
  ASSUME Inv, NEW t \in Threads, NEW s \in SubIds, Unsubscribe(t, s)
  PROVE  Inv'
<1>1. TypeOK'
  <2>1. subs' \in [SubIds -> Subscription]
    <3>1. [subs[s] EXCEPT !.active = FALSE] \in Subscription
      <4>1. subs[s] \in Subscription
        BY DEF Inv, TypeOK
      <4> QED BY <4>1 DEF Subscription
    <3> QED BY <3>1 DEF Inv, TypeOK, Unsubscribe
  <2>2. \A r \in SubIds \ present' : subs'[r] = Blank
    BY DEF Inv, TypeOK, Unsubscribe
  <2> QED BY <2>1, <2>2 DEF Inv, TypeOK, Unsubscribe, engineVars
<1>2. Control'
  BY DEF Inv, Control, Idle, Running, InCallback, Unsubscribe, Idle, engineVars
<1>3. EventsKnown'
  BY DEF Inv, EventsKnown, Events, Unsubscribe, engineVars
<1>4. OneLiveChain'
  BY DEF Inv, OneLiveChain, Events, Unsubscribe, engineVars
<1>5. ActiveIsArmed'
  BY DEF Inv, ActiveIsArmed, LiveEvents, Events, PendingSubs, Unsubscribe,
     PendingSubs, engineVars
<1>6. PausedIsResumable'
  BY DEF Inv, PausedIsResumable, Unsubscribe
<1>7. Pending'
  BY DEF Inv, Pending, LiveEvents, Events, Unsubscribe, engineVars
<1>8. Ahead'
  BY DEF Inv, Ahead, Events, Unsubscribe, engineVars
<1> QED BY <1>1, <1>2, <1>3, <1>4, <1>5, <1>6, <1>7, <1>8 DEF Inv

\* update_dt() changes the interval only.
LEMMA UpdateDtInv ==
  ASSUME Inv, NEW t \in Threads, NEW s \in SubIds, NEW dt \in Dts, UpdateDt(t, s, dt)
  PROVE  Inv'
<1>1. TypeOK'
  <2>1. subs' \in [SubIds -> Subscription]
    <3>1. [subs[s] EXCEPT !.dt = dt] \in Subscription
      BY SchedulerAssumption DEF Inv, TypeOK, Subscription
    <3> QED BY <3>1 DEF Inv, TypeOK, UpdateDt
  <2>2. \A r \in SubIds \ present' : subs'[r] = Blank
    BY DEF Inv, TypeOK, UpdateDt
  <2> QED BY <2>1, <2>2 DEF Inv, TypeOK, UpdateDt, engineVars
<1>2. Control'
  BY DEF Inv, Control, Idle, Running, InCallback, UpdateDt, Idle, engineVars
<1>3. EventsKnown'
  BY DEF Inv, EventsKnown, Events, UpdateDt, engineVars
<1>4. OneLiveChain'
  BY DEF Inv, OneLiveChain, Events, UpdateDt, engineVars
<1>5. ActiveIsArmed'
  BY DEF Inv, ActiveIsArmed, LiveEvents, Events, PendingSubs, UpdateDt, PendingSubs, engineVars
<1>6. PausedIsResumable'
  BY DEF Inv, PausedIsResumable, UpdateDt
<1>7. Pending'
  BY DEF Inv, Pending, LiveEvents, Events, UpdateDt, engineVars
<1>8. Ahead'
  BY SchedulerAssumption DEF Inv, Ahead, Events, UpdateDt, PendingSubs, engineVars
<1> QED BY <1>1, <1>2, <1>3, <1>4, <1>5, <1>6, <1>7, <1>8 DEF Inv

\* pause_process() marks the subscriptions of the process.
LEMMA PauseProcessInv ==
  ASSUME Inv, NEW t \in Threads, NEW n \in Names, PauseProcess(t, n)
  PROVE  Inv'
<1>a. \A s \in SubIds :
        subs'[s] = IF s \in PauseMarks(n) THEN [subs[s] EXCEPT !.paused = TRUE] ELSE subs[s]
  BY DEF PauseProcess
<1>b. subs' \in [SubIds -> Subscription]
  <2>1. ASSUME NEW s \in SubIds PROVE [subs[s] EXCEPT !.paused = TRUE] \in Subscription
    <3>1. subs[s] \in Subscription
      BY DEF Inv, TypeOK
    <3> QED BY <3>1 DEF Subscription
  <2> QED BY <2>1 DEF Inv, TypeOK, PauseProcess
<1>c. \A s \in SubIds : subs'[s].gen = subs[s].gen /\ subs'[s].active = subs[s].active
                        /\ (~subs'[s].paused => ~subs[s].paused)
  <2> SUFFICES ASSUME NEW s \in SubIds
               PROVE  subs'[s].gen = subs[s].gen /\ subs'[s].active = subs[s].active
                      /\ (~subs'[s].paused => ~subs[s].paused)
    OBVIOUS
  <2>1. subs[s] \in Subscription
    BY DEF Inv, TypeOK
  <2> QED BY <1>a, <2>1 DEF Subscription
<1>1. TypeOK'
  <2>1. \A r \in SubIds \ present' : subs'[r] = Blank
    BY <1>a DEF Inv, TypeOK, PauseProcess, PauseMarks
  <2> QED BY <1>b, <2>1 DEF Inv, TypeOK, PauseProcess, engineVars
<1>5. ActiveIsArmed'
  <2>1. \A s \in SubIds : LiveEvents(s)' = LiveEvents(s)
    BY <1>c DEF PauseProcess, engineVars, LiveEvents, Events
  <2>2. PendingSubs' = PendingSubs
    BY DEF PauseProcess, PendingSubs
  <2> QED BY <1>c, <2>1, <2>2 DEF Inv, TypeOK, ActiveIsArmed, PauseProcess
<1>20. Control'
  BY DEF Inv, Control, Idle, Running, InCallback, PauseProcess, Idle, PauseMarks, engineVars
<1>21. EventsKnown'
  BY DEF Inv, TypeOK, EventsKnown, Events, PauseProcess, PauseMarks, engineVars
<1>22. OneLiveChain'
  BY DEF Inv, OneLiveChain, Events, PauseProcess, PauseMarks, engineVars
<1>23. PausedIsResumable'
  BY DEF Inv, TypeOK, PausedIsResumable, NotPaused, Origin, Tags, PauseProcess, PauseMarks
<1>24. Pending'
  BY DEF Inv, TypeOK, Pending, LiveEvents, Events, PauseProcess, PauseMarks, engineVars
<1>25. Ahead'
  BY DEF Inv, TypeOK, Ahead, Events, PauseProcess, PauseMarks, engineVars
<1> QED BY <1>1, <1>20, <1>21, <1>22, <1>5, <1>23, <1>24, <1>25 DEF Inv

\* resume_process() makes the queued closures stale, and has to arm new ones.
LEMMA ResumeProcessInv ==
  ASSUME Inv, NEW t \in Threads, NEW n \in Names, ResumeProcess(t, n)
  PROVE  Inv'
<1> DEFINE req(s) == [sub |-> s, base |-> ResumeBase(s, now - pausedAt[n])]
<1>a. \A s \in SubIds :
        subs'[s] = IF s \in ResumeMarks(n)
                   THEN Unpaused(subs[s]) ELSE subs[s]
  BY DEF ResumeProcess
<1>b. \A s \in SubIds :
        /\ s \in ResumeMarks(n) =>
             /\ subs'[s].gen = subs[s].gen + 1 /\ ~subs'[s].paused /\ s \notin PendingSubs
             /\ subs'[s] \in Subscription
        /\ s \notin ResumeMarks(n) => subs'[s] = subs[s]
        /\ subs'[s].dt = subs[s].dt /\ subs'[s].lastFire = subs[s].lastFire
        /\ subs'[s].active = subs[s].active /\ subs'[s].tag = subs[s].tag
  <2>1. ResumeMarks(n) \cap PendingSubs = {}
    BY DEF ResumeProcess, SetUp, ResumeMarks
  <2>2. ASSUME NEW s \in SubIds, s \in ResumeMarks(n)
        PROVE  /\ subs'[s].gen = subs[s].gen + 1 /\ ~subs'[s].paused
               /\ subs'[s] \in Subscription
               /\ subs'[s].dt = subs[s].dt /\ subs'[s].lastFire = subs[s].lastFire
               /\ subs'[s].active = subs[s].active /\ subs'[s].tag = subs[s].tag
    <3>1. subs[s] \in Subscription
      BY DEF Inv, TypeOK
    <3>2. subs'[s] = Unpaused(subs[s])
      BY <1>a, <2>2
    <3> DEFINE r == [subs[s] EXCEPT !.paused = FALSE]
    <3>3. /\ r \in Subscription /\ ~r.paused /\ r.gen = subs[s].gen /\ r.dt = subs[s].dt
          /\ r.lastFire = subs[s].lastFire /\ r.active = subs[s].active
          /\ r.tag = subs[s].tag
      BY <3>1 DEF Subscription
    <3>4. subs'[s] = [r EXCEPT !.gen = @ + 1]
      BY <3>2 DEF Unpaused
    <3> HIDE DEF r
    <3> QED BY <3>3, <3>4 DEF Subscription
  <2> QED BY <1>a, <2>1, <2>2
<1>c. /\ UNCHANGED <<now, nextId, present, queue, firing, arming, pc>>
      /\ Events' = Events
      /\ ResumeMarks(n) \subseteq present /\ present \subseteq SubIds
      /\ \A e \in Events : e \in Event
  BY DEF ResumeProcess, engineVars, Events, ResumeMarks, Inv, TypeOK, Threads
<1>d. /\ toArm[t] = {}
      /\ toArm' = [toArm EXCEPT ![t] = {req(s) : s \in ResumeMarks(n)}]
  BY DEF ResumeProcess, MayCall, Idle
<1>e. \A s \in ResumeMarks(n) :
        /\ req(s) \in ArmRequest
        /\ req(s).base + subs[s].dt > subs[s].lastFire
  <2> SUFFICES ASSUME NEW s \in ResumeMarks(n)
               PROVE  /\ req(s) \in ArmRequest
                      /\ req(s).base + subs[s].dt > subs[s].lastFire
    OBVIOUS
  <2>1. /\ s \in SubIds /\ s \in present
        /\ now \in Nat /\ now >= 1 /\ pausedAt[n] \in Nat /\ pausedAt[n] <= now
        /\ subs[s].dt \in Nat \ {0} /\ subs[s].lastFire \in Int /\ subs[s].lastFire >= 0
    BY <1>c DEF Inv, TypeOK, Ahead, Origin, Subscription
  <2>2. CASE subs[s].lastFire # Never
    BY <2>1, <2>2 DEF ResumeBase, ArmRequest
  <2>3. CASE subs[s].lastFire = Never
    BY <2>1, <2>3 DEF ResumeBase, ArmRequest, Never
  <2> QED BY <2>2, <2>3
<1>f. \A u \in Threads : \A a \in toArm'[u] :
        \/ a \in toArm[u] /\ a.sub \notin ResumeMarks(n) /\ subs'[a.sub] = subs[a.sub]
        \/ u = t /\ a.sub \in ResumeMarks(n) /\ a = req(a.sub)
  <2>1. \A u \in Threads : \A a \in toArm'[u] :
          a \in toArm[u] \/ (u = t /\ \E s \in ResumeMarks(n) : a = req(s))
    BY <1>d DEF Inv
  <2>2. \A u \in Threads : \A a \in toArm[u] : a.sub \in SubIds /\ a.sub \in PendingSubs
    BY DEF Inv, TypeOK, ArmRequest, PendingSubs
  <2> QED BY <1>b, <1>c, <2>1, <2>2
<1>1. TypeOK'
  <2>1. subs' \in [SubIds -> Subscription]
    <3>1. \A s \in SubIds : subs'[s] \in Subscription
      BY <1>b DEF Inv, TypeOK
    <3>2. subs' = [s \in SubIds |-> subs'[s]]
      BY DEF ResumeProcess
    <3> QED BY <3>1, <3>2
  <2>2. \A r \in SubIds \ present' : subs'[r] = Blank
    BY <1>b, <1>c DEF Inv, TypeOK
  <2>3. toArm' \in [Threads -> SUBSET ArmRequest]
    BY <1>d, <1>e DEF Inv, TypeOK
  <2>4. pausedAt' \in [Names -> Nat] /\ \A m \in Names : pausedAt'[m] <= now
    <3>1. pausedAt' = [pausedAt EXCEPT ![n] = 0]
      BY DEF ResumeProcess, NotPaused
    <3> QED BY <3>1 DEF Inv, TypeOK
  <2> QED BY <2>1, <2>2, <2>3, <2>4 DEF Inv, TypeOK, ResumeProcess, engineVars
<1>3. EventsKnown'
  BY <1>b, <1>c DEF Inv, TypeOK, EventsKnown, Subscription, Event
<1>5. ActiveIsArmed'
  <2>1. \A s \in ResumeMarks(n) : s \in PendingSubs'
    <3>1. \A s \in ResumeMarks(n) : req(s) \in toArm'[t] /\ req(s).sub = s
      BY <1>d DEF Inv, TypeOK
    <3> QED BY <3>1, <1>c DEF PendingSubs
  <2>2. \A s \in SubIds : s \in PendingSubs => s \in PendingSubs'
    BY <1>d DEF PendingSubs, Inv
  <2>3. \A s \in SubIds : s \notin ResumeMarks(n) => LiveEvents(s)' = LiveEvents(s)
    BY <1>b, <1>c DEF LiveEvents
  <2> QED BY <1>b, <1>c, <2>1, <2>2, <2>3 DEF Inv, ActiveIsArmed
<1>6. PausedIsResumable'
  <2>1. ASSUME NEW s \in present', subs'[s].active, subs'[s].paused
        PROVE  subs'[s].tag \in Names /\ pausedAt'[subs'[s].tag] # NotPaused
    <3>1. s \in present /\ s \notin ResumeMarks(n) /\ subs'[s] = subs[s]
      BY <1>b, <1>c, <2>1
    <3>2. subs[s].tag \in Names /\ pausedAt[subs[s].tag] # NotPaused /\ subs[s].tag # n
      BY <2>1, <3>1 DEF Inv, PausedIsResumable, ResumeMarks
    <3> QED BY <3>1, <3>2 DEF ResumeProcess, Inv
  <2> QED BY <2>1 DEF PausedIsResumable
<1>7. Pending'
  <2>1. ASSUME NEW u \in Threads, NEW a \in toArm'[u]
        PROVE  a.sub < nextId' /\ (a.sub \in present' => LiveEvents(a.sub)' = {})
    <3>1. CASE a.sub \in ResumeMarks(n)
      <4>1. a.sub \in SubIds /\ a.sub \in present /\ a.sub < nextId
        BY <1>c, <3>1 DEF Inv, TypeOK
      <4>2. \A e \in Events : e.sub = a.sub => e.gen <= subs[a.sub].gen /\ e.gen \in Nat
        BY <1>c, <4>1 DEF Inv, EventsKnown, Event
      <4>3. subs'[a.sub].gen = subs[a.sub].gen + 1 /\ subs[a.sub].gen \in Nat
        BY <1>b, <3>1, <4>1 DEF Inv, TypeOK, Subscription
      <4> QED BY <1>c, <4>1, <4>2, <4>3 DEF LiveEvents
    <3>2. CASE a.sub \notin ResumeMarks(n)
      BY <1>c, <1>f, <3>2 DEF Inv, Pending, LiveEvents
    <3> QED BY <3>1, <3>2
  <2>2. ASSUME NEW u \in Threads, NEW v \in Threads, NEW a \in toArm'[u], NEW b \in toArm'[v],
               a.sub = b.sub
        PROVE  u = v /\ a = b
    BY <1>f, <2>2 DEF Inv, Pending
  <2> QED BY <2>1, <2>2 DEF Pending
<1>8. Ahead'
  <2>1. \A s \in present' : subs'[s].dt \in Nat \ {0} /\ subs'[s].lastFire >= 0
    BY <1>b, <1>c DEF Inv, Ahead
  <2>2. \A u \in Threads : \A a \in toArm'[u] :
          a.sub \in present' => a.base + subs'[a.sub].dt > subs'[a.sub].lastFire
    BY <1>b, <1>c, <1>e, <1>f DEF Inv, Ahead
  <2>3. \A e \in Events' : e.sub \in present' /\ e.gen = subs'[e.sub].gen =>
           subs'[e.sub] = subs[e.sub] \/ e.gen > subs[e.sub].gen
    BY <1>b, <1>c DEF Inv, TypeOK, Subscription
  <2>4. \A e \in Events' : e.sub \in present' /\ e.gen = subs'[e.sub].gen =>
           subs'[e.sub] = subs[e.sub]
    BY <1>b, <1>c, <2>3 DEF Inv, TypeOK, EventsKnown, Subscription
  <2> QED BY <1>c, <2>1, <2>2, <2>4 DEF Inv, Ahead
<1>20. Control'
  BY DEF Inv, Control, Idle, Running, InCallback, ResumeProcess, MayCall, Idle, engineVars
<1>21. OneLiveChain'
  BY DEF Inv, OneLiveChain, Events, ResumeProcess, engineVars
<1> QED BY <1>1, <1>20, <1>3, <1>21, <1>5, <1>6, <1>7, <1>8 DEF Inv

\* What was unsubscribed meanwhile is not armed.
LEMMA ArmSkipInv ==
  ASSUME Inv, NEW t \in Threads, ArmSkip(t)
  PROVE  Inv'
<1>1. TypeOK'
  BY DEF Inv, TypeOK, ArmSkip, engineVars
<1>2. Control'
  BY DEF Inv, Control, Idle, Running, InCallback, ArmSkip, engineVars
<1>3. EventsKnown'
  BY DEF Inv, EventsKnown, Events, ArmSkip, engineVars
<1>4. OneLiveChain'
  BY DEF Inv, OneLiveChain, Events, ArmSkip, engineVars
<1>5. ActiveIsArmed'
  BY DEF Inv, ActiveIsArmed, LiveEvents, Events, PendingSubs, ArmSkip, engineVars
<1>6. PausedIsResumable'
  BY DEF Inv, PausedIsResumable, ArmSkip
<1>7. Pending'
  BY DEF Inv, Pending, LiveEvents, Events, ArmSkip, engineVars
<1>8. Ahead'
  BY DEF Inv, Ahead, Events, ArmSkip, engineVars
<1> QED BY <1>1, <1>2, <1>3, <1>4, <1>5, <1>6, <1>7, <1>8 DEF Inv

\* A subscription is armed: it has an event of a new generation.
LEMMA ArmInv ==
  ASSUME Inv, NEW t \in Threads, Arm(t)
  PROVE  Inv'
<1>1. PICK a \in toArm[t] :
        /\ a.sub \in present /\ subs[a.sub].active /\ arming[t] = {}
        /\ subs' = [subs EXCEPT ![a.sub].gen = @ + 1]
        /\ toArm' = [toArm EXCEPT ![t] = @ \ {a}]
        /\ arming' = [arming EXCEPT ![t] =
             {[id |-> arms[a.sub], sub |-> a.sub, gen |-> subs[a.sub].gen + 1,
               at |-> a.base + subs[a.sub].dt]}]
        /\ arms' = [arms EXCEPT ![a.sub] = @ + 1]
        /\ UNCHANGED <<now, phase, owner, present, nextId, pausedAt, queue, pc, firing, pauses>>
  BY DEF Arm
<1> DEFINE s == a.sub
           ev == [id |-> arms[s], sub |-> s, gen |-> subs[s].gen + 1, at |-> a.base + subs[s].dt]
<1>2. /\ s \in SubIds /\ subs[s] \in Subscription /\ ev \in Event
      /\ subs'[s].gen = subs[s].gen + 1
      /\ subs'[s] = [subs[s] EXCEPT !.gen = @ + 1]
      /\ \A r \in SubIds : r # s => subs'[r] = subs[r]
  BY <1>1 DEF Inv, TypeOK, ArmRequest, Event, Subscription
<1>3. TypeOK'
  <2>1. subs' \in [SubIds -> Subscription]
    <3>1. [subs[s] EXCEPT !.gen = @ + 1] \in Subscription
      BY <1>2 DEF Subscription
    <3> QED BY <1>1, <1>2, <3>1 DEF Inv, TypeOK
  <2>2. \A r \in SubIds \ present' : subs'[r] = Blank
    BY <1>1, <1>2 DEF Inv, TypeOK
  <2>3. /\ toArm' \in [Threads -> SUBSET ArmRequest]
        /\ arming' \in [Threads -> SUBSET Event]
        /\ \A u \in Threads : \A e, f \in arming'[u] : e = f
    BY <1>1, <1>2 DEF Inv, TypeOK
  <2>4. arms' \in [SubIds -> Nat]
    BY <1>1, <1>2 DEF Inv, TypeOK
  <2> QED BY <1>1, <2>1, <2>2, <2>3, <2>4 DEF Inv, TypeOK
<1>4. ActiveIsArmed'
  <2>1. Events \subseteq Events' /\ ev \in Events'
    BY <1>1 DEF Events, Inv, TypeOK, Threads
  <2>2. ev \in LiveEvents(s)'
    BY <1>2, <2>1 DEF LiveEvents
  <2>3. \A r \in SubIds : r # s => LiveEvents(r) \subseteq LiveEvents(r)'
    BY <1>2, <2>1 DEF LiveEvents
  <2>4. \A r \in SubIds : r # s /\ r \in PendingSubs => r \in PendingSubs'
    BY <1>1 DEF PendingSubs, Inv
  <2> QED BY <1>1, <1>2, <2>2, <2>3, <2>4 DEF Inv, TypeOK, ActiveIsArmed
<1>20. Control'
  BY DEF Inv, Control, Idle, Running, InCallback, Arm
<1>21. EventsKnown'
  BY DEF Inv, TypeOK, EventsKnown, Events, Threads, Subscription, Event, Arm
<1>22. OneLiveChain'
  BY DEF Inv, TypeOK, OneLiveChain, EventsKnown, Events, Subscription, Arm
<1>23. PausedIsResumable'
  BY DEF Inv, PausedIsResumable, Arm
<1>24. Pending'
  BY DEF Inv, TypeOK, Pending, LiveEvents, Events, Arm
<1>25. Ahead'
  BY DEF Inv, TypeOK, Ahead, EventsKnown, Events, Subscription, Arm
<1> QED BY <1>3, <1>20, <1>21, <1>22, <1>4, <1>23, <1>24, <1>25 DEF Inv

\* An event is put into the queue.
LEMMA AddEventInv ==
  ASSUME Inv, NEW t \in Threads, AddEvent(t)
  PROVE  Inv'
<1>1. TypeOK'
  BY DEF Inv, TypeOK, AddEvent
<1>2. Control'
  BY DEF Inv, Control, Idle, Running, InCallback, AddEvent
<1>3. EventsKnown'
  BY DEF Inv, EventsKnown, Events, Threads, AddEvent
<1>4. OneLiveChain'
  BY DEF Inv, TypeOK, OneLiveChain, Events, Threads, AddEvent
<1>5. ActiveIsArmed'
  BY DEF Inv, ActiveIsArmed, LiveEvents, Events, PendingSubs, AddEvent
<1>6. PausedIsResumable'
  BY DEF Inv, PausedIsResumable, AddEvent
<1>7. Pending'
  BY DEF Inv, Pending, LiveEvents, Events, Threads, AddEvent
<1>8. Ahead'
  BY DEF Inv, Ahead, Events, Threads, AddEvent
<1> QED BY <1>1, <1>2, <1>3, <1>4, <1>5, <1>6, <1>7, <1>8 DEF Inv

-----------------------------------------------------------------------------
(***************************************************************************)
(* Each step of the engine thread, and stop(), preserve the invariant       *)
(***************************************************************************)

\* The clock thread takes the first event.
LEMMA PopInv ==
  ASSUME Inv, Pop
  PROVE  Inv'
<1>1. TypeOK'
  BY DEF Inv, TypeOK, Pop, DueEvents
<1>2. Control'
  BY DEF Inv, Control, Idle, InCallback, Pop, DueEvents
<1>3. EventsKnown'
  BY DEF Inv, EventsKnown, Events, Pop, DueEvents
<1>4. OneLiveChain'
  BY DEF Inv, OneLiveChain, Events, Pop, DueEvents
<1>5. ActiveIsArmed'
  BY DEF Inv, ActiveIsArmed, LiveEvents, Events, PendingSubs, Control, Pop, DueEvents
<1>6. PausedIsResumable'
  BY DEF Inv, PausedIsResumable, Pop, DueEvents
<1>7. Pending'
  BY DEF Inv, Pending, LiveEvents, Events, Pop, DueEvents
<1>8. Ahead'
  BY DEF Inv, Ahead, Events, Control, Pop, DueEvents
<1> QED BY <1>1, <1>2, <1>3, <1>4, <1>5, <1>6, <1>7, <1>8 DEF Inv

\* A closure that no longer speaks for its subscription is dropped.
LEMMA DropInv ==
  ASSUME Inv, Drop
  PROVE  Inv'
<1>1. TypeOK'
  BY DEF Inv, TypeOK, Drop, Fireable
<1>2. Control'
  BY DEF Inv, Control, Idle, Drop, Fireable
<1>3. EventsKnown'
  BY DEF Inv, EventsKnown, Events, Drop, Fireable
<1>4. OneLiveChain'
  BY DEF Inv, OneLiveChain, Events, Drop, Fireable
<1>5. ActiveIsArmed'
  BY DEF Inv, TypeOK, ActiveIsArmed, LiveEvents, Events, PendingSubs, Drop, Fireable
<1>6. PausedIsResumable'
  BY DEF Inv, PausedIsResumable, Drop, Fireable
<1>7. Pending'
  BY DEF Inv, Pending, LiveEvents, Events, Drop, Fireable
<1>8. Ahead'
  BY DEF Inv, Ahead, Events, Drop, Fireable
<1> QED BY <1>1, <1>2, <1>3, <1>4, <1>5, <1>6, <1>7, <1>8 DEF Inv

\* The callback of the event begins.
LEMMA BeginInv ==
  ASSUME Inv, Begin
  PROVE  Inv'
<1>1. TypeOK'
  <2>1. PICK e \in firing : e \in Event /\ e.sub \in SubIds /\ e.at \in Int /\ e.sub \in present
           /\ subs' = [subs EXCEPT ![e.sub].lastFire = e.at]
    BY DEF Inv, TypeOK, Begin, Fireable, Event
  <2>2. subs' \in [SubIds -> Subscription]
    <3>1. [subs[e.sub] EXCEPT !.lastFire = e.at] \in Subscription
      BY <2>1 DEF Inv, TypeOK, Subscription
    <3> QED BY <2>1, <3>1 DEF Inv, TypeOK
  <2>3. \A r \in SubIds \ present' : subs'[r] = Blank
    BY <2>1 DEF Inv, TypeOK, Begin
  <2> QED BY <2>2, <2>3 DEF Inv, TypeOK, Begin
<1>2. Control'
  BY DEF Inv, TypeOK, Control, Idle, Begin, Fireable
<1>3. EventsKnown'
  BY DEF Inv, EventsKnown, Events, Begin, Fireable
<1>4. OneLiveChain'
  BY DEF Inv, OneLiveChain, Events, Begin, Fireable
<1>5. ActiveIsArmed'
  BY DEF Inv, ActiveIsArmed, LiveEvents, Events, PendingSubs, Begin, Fireable
<1>6. PausedIsResumable'
  BY DEF Inv, PausedIsResumable, Begin, Fireable
<1>7. Pending'
  BY DEF Inv, Pending, LiveEvents, Events, Begin, Fireable
<1>8. Ahead'
  BY DEF Inv, TypeOK, Ahead, Pending, LiveEvents, OneLiveChain, Events, Subscription,
     Event, Begin, Fireable
<1> QED BY <1>1, <1>2, <1>3, <1>4, <1>5, <1>6, <1>7, <1>8 DEF Inv

\* A callback that returned false ends its subscription.
LEMMA EraseInv ==
  ASSUME Inv, Erase
  PROVE  Inv'
<1>1. ActiveIsArmed'
  <2>1. \A s \in present' : s \in present /\ s \in SubIds /\ subs'[s] = subs[s]
                            /\ \A e \in firing : e.sub # s
    BY DEF Erase, Inv, TypeOK
  <2>2. \A s \in present' : LiveEvents(s) \subseteq LiveEvents(s)'
    BY <2>1 DEF Erase, LiveEvents, Events
  <2>3. PendingSubs' = PendingSubs
    BY DEF Erase, PendingSubs
  <2> QED BY <2>1, <2>2, <2>3 DEF Inv, ActiveIsArmed
<1>2. TypeOK'
  BY DEF Inv, TypeOK, Subscription, Blank, Tags, Origin, Never, Erase
<1>3. Control'
  BY DEF Inv, Control, Idle, Erase
<1>4. EventsKnown'
  BY DEF Inv, TypeOK, EventsKnown, Events, Erase
<1>5. OneLiveChain'
  BY DEF Inv, OneLiveChain, Events, Erase
<1>6. PausedIsResumable'
  BY DEF Inv, TypeOK, PausedIsResumable, Erase
<1>7. Pending'
  BY DEF Inv, TypeOK, Pending, LiveEvents, Events, Erase
<1>8. Ahead'
  BY DEF Inv, TypeOK, Ahead, Events, Erase
<1> QED BY <1>2, <1>3, <1>4, <1>5, <1>1, <1>6, <1>7, <1>8 DEF Inv

\* A callback that goes on is queued again.
LEMMA RescheduleInv ==
  ASSUME Inv, Reschedule
  PROVE  Inv'
<1>1. PICK e \in firing : queue' = queue \cup
                            {[e EXCEPT !.at = NextDeadline(e.at, subs[e.sub].dt, now)]}
  BY DEF Reschedule
<1> DEFINE ev == [e EXCEPT !.at = NextDeadline(e.at, subs[e.sub].dt, now)]
<1>2. /\ firing = {e} /\ firing' = {} /\ e \in Event
      /\ UNCHANGED <<now, phase, owner, subs, present, nextId, pausedAt, arms, toArm,
                     arming, pauses>>
      /\ pc = "reschedule" /\ pc' = "fire"
  BY DEF Reschedule, Inv, TypeOK
<1>3. ev.id = e.id /\ ev.sub = e.sub /\ ev.gen = e.gen
      /\ ev.at = NextDeadline(e.at, subs[e.sub].dt, now)
  BY <1>2
<1>4. e.sub \in SubIds /\ e.sub \in present
  BY <1>2 DEF Inv, Control, Event, InCallback
<1>5. ev \in Event /\ ev.at > e.at
  BY <1>2, <1>3, <1>4, NextDeadlineLater DEF Inv, TypeOK, Ahead, Event
<1>6. /\ \A f \in Events' : f = ev \/ (f \in Events /\ f # e)
      /\ \A f \in Events : f = e \/ f \in Events'
      /\ ev \in Events' /\ e \in Events
  BY <1>1, <1>2 DEF Inv, Events, OneLiveChain, Threads
<1>7. TypeOK'
  BY <1>1, <1>2, <1>5 DEF Inv, TypeOK
<1>8. ActiveIsArmed'
  <2>1. \A s \in SubIds : LiveEvents(s) # {} => LiveEvents(s)' # {}
    BY <1>2, <1>3, <1>6 DEF LiveEvents
  <2> QED BY <1>2, <2>1 DEF Inv, TypeOK, ActiveIsArmed, PendingSubs
<1>9. OneLiveChain'
  <2>1. \A f \in Events' : f.sub = ev.sub /\ f.gen = ev.gen => f = ev
    BY <1>3, <1>6 DEF Inv, OneLiveChain
  <2>2. \A t \in Threads : ev \notin arming[t]
    BY <1>2, <1>3 DEF Inv, OneLiveChain, Events, Threads
  <2> QED BY <1>1, <1>2, <1>6, <2>1, <2>2 DEF Inv, OneLiveChain
<1>10. Ahead'
  <2>1. \A f \in Events' : f.sub \in present /\ f.gen = subs[f.sub].gen =>
           f.at > subs[f.sub].lastFire
    BY <1>2, <1>3, <1>4, <1>5, <1>6 DEF Inv, TypeOK, Ahead, Event, Subscription
  <2> QED BY <1>2, <2>1 DEF Inv, Ahead
<1>20. Control'
  BY DEF Inv, Control, Idle, Reschedule
<1>21. EventsKnown'
  BY DEF Inv, TypeOK, EventsKnown, Events, Event, Reschedule
<1>22. PausedIsResumable'
  BY DEF Inv, PausedIsResumable, Reschedule
<1>23. Pending'
  BY DEF Inv, TypeOK, Pending, LiveEvents, Events, Event, Reschedule
<1> QED BY <1>7, <1>20, <1>21, <1>9, <1>8, <1>22, <1>23, <1>10 DEF Inv

\* stop() clears the table once the engine thread has ended.
LEMMA StopClearInv ==
  ASSUME Inv, StopClear
  PROVE  Inv'
<1>1. TypeOK'
  BY DEF Inv, TypeOK, Subscription, Blank, Tags, Origin, Never, StopClear, engineVars
<1>2. Control'
  BY DEF Inv, Control, Idle, Running, StopClear, engineVars
<1>3. EventsKnown'
  BY DEF Inv, EventsKnown, Events, StopClear, engineVars
<1>4. OneLiveChain'
  BY DEF Inv, OneLiveChain, Events, StopClear, engineVars
<1>5. ActiveIsArmed'
  BY DEF Inv, ActiveIsArmed, StopClear
<1>6. PausedIsResumable'
  BY DEF Inv, PausedIsResumable, StopClear
<1>7. Pending'
  BY DEF Inv, Pending, StopClear
<1>8. Ahead'
  BY DEF Inv, Ahead, StopClear
<1> QED BY <1>1, <1>2, <1>3, <1>4, <1>5, <1>6, <1>7, <1>8 DEF Inv

\* A step that leaves the table, the queue and the calls alone, and neither
\* reaches nor leaves the closure's check, disturbs only the types and the
\* control part.
LEMMA ControlStep ==
  ASSUME Inv,
         UNCHANGED <<subs, present, nextId, pausedAt, queue, firing, toArm, arming>>,
         pc = "check" <=> pc' = "check"
  PROVE  /\ EventsKnown' /\ OneLiveChain' /\ ActiveIsArmed'
         /\ PausedIsResumable' /\ Pending' /\ Ahead'
<1>1. EventsKnown' /\ OneLiveChain'
  BY DEF Inv, EventsKnown, OneLiveChain, Events
<1>2. ActiveIsArmed'
  BY DEF Inv, ActiveIsArmed, LiveEvents, Events, PendingSubs
<1>3. PausedIsResumable'
  BY DEF Inv, PausedIsResumable
<1>4. Pending'
  BY DEF Inv, Pending, LiveEvents, Events
<1>5. Ahead'
  BY DEF Inv, Ahead, Events
<1> QED BY <1>1, <1>2, <1>3, <1>4, <1>5

\* The steps of the threads that control the scheduler.
LEMMA ControlActionsInv ==
  ASSUME Inv,
         \/ MainLock \/ MainUnlock \/ SetUpDone \/ Stop
         \/ EngineWake \/ FireLoopEnds \/ EngineExit \/ CallbackLock
         \/ (\E keep \in BOOLEAN : CallbackReturn(keep)) \/ Time
  PROVE  Inv'
<1>1. CASE MainLock
  <2>1. TypeOK'
    BY <1>1 DEF Inv, TypeOK, MainLock, engineVars, Threads
  <2>2. Control'
    BY <1>1 DEF Inv, Control, Idle, Running, InCallback, MainLock, engineVars
  <2> QED BY <1>1, <2>1, <2>2, ControlStep DEF Inv, MainLock, engineVars
<1>2. CASE MainUnlock
  <2>1. TypeOK'
    BY <1>2 DEF Inv, TypeOK, MainUnlock, engineVars
  <2>2. Control'
    BY <1>2 DEF Inv, Control, Idle, Running, MayCall, InCallback, MainUnlock, engineVars
  <2> QED BY <1>2, <2>1, <2>2, ControlStep DEF Inv, MainUnlock, engineVars
<1>3. CASE SetUpDone
  <2>1. TypeOK'
    BY <1>3 DEF Inv, TypeOK, SetUpDone, engineVars
  <2>2. Control'
    BY <1>3 DEF Inv, Control, Idle, Running, InCallback, SetUpDone, engineVars
  <2> QED BY <1>3, <2>1, <2>2, ControlStep DEF Inv, SetUpDone, engineVars
<1>4. CASE Stop
  <2>1. TypeOK'
    BY <1>4 DEF Inv, TypeOK, Stop, engineVars
  <2>2. Control'
    BY <1>4 DEF Inv, Control, Idle, Running, InCallback, Stop, engineVars
  <2> QED BY <1>4, <2>1, <2>2, ControlStep DEF Inv, Stop, engineVars
<1>5. CASE EngineWake
  <2>1. TypeOK'
    BY <1>5 DEF Inv, TypeOK, EngineWake
  <2>2. Control'
    BY <1>5 DEF Inv, Control, Idle, EngineWake
  <2> QED BY <1>5, <2>1, <2>2, ControlStep DEF Inv, EngineWake
<1>6. CASE FireLoopEnds
  <2>1. TypeOK'
    BY <1>6 DEF Inv, TypeOK, FireLoopEnds
  <2>2. Control'
    BY <1>6 DEF Inv, Control, Idle, FireLoopEnds
  <2> QED BY <1>6, <2>1, <2>2, ControlStep DEF Inv, FireLoopEnds
<1>7. CASE EngineExit
  <2>1. TypeOK'
    BY <1>7 DEF Inv, TypeOK, EngineExit
  <2>2. Control'
    BY <1>7 DEF Inv, Control, Idle, Running, EngineExit
  <2> QED BY <1>7, <2>1, <2>2, ControlStep DEF Inv, EngineExit
<1>8. CASE CallbackLock
  <2>1. TypeOK'
    BY <1>8 DEF Inv, TypeOK, CallbackLock, Threads
  <2>2. Control'
    BY <1>8 DEF Inv, Control, Idle, InCallback, CallbackLock
  <2> QED BY <1>8, <2>1, <2>2, ControlStep DEF Inv, CallbackLock
<1>9. CASE \E keep \in BOOLEAN : CallbackReturn(keep)
  <2>1. TypeOK'
    BY <1>9 DEF Inv, TypeOK, CallbackReturn
  <2>2. Control'
    BY <1>9 DEF Inv, Control, Idle, MayCall, InCallback, CallbackReturn
  <2> QED BY <1>9, <2>1, <2>2, ControlStep DEF Inv, CallbackReturn
<1>10. CASE Time
  <2>1. TypeOK'
    BY <1>10 DEF Inv, TypeOK, Time, engineVars, Origin
  <2>2. Control'
    BY <1>10 DEF Inv, Control, Idle, Running, InCallback, Time, engineVars
  <2> QED BY <1>10, <2>1, <2>2, ControlStep DEF Inv, Time, engineVars
<1> QED BY <1>1, <1>2, <1>3, <1>4, <1>5, <1>6, <1>7, <1>8, <1>9, <1>10

-----------------------------------------------------------------------------
(***************************************************************************)
(* The theorems                                                             *)
(***************************************************************************)

\* The tables and the queue are empty at the start.
LEMMA InitInv == Init => Inv
<1> SUFFICES ASSUME Init PROVE Inv
  OBVIOUS
<1>1. TypeOK
  BY DEF Init, TypeOK, Origin, NotPaused, Subscription, Blank, Tags, Never
<1>2. Control
  BY DEF Init, Control, Idle, Threads
<1>3. EventsKnown /\ OneLiveChain
  BY DEF Init, EventsKnown, OneLiveChain, Events, Threads
<1>4. ActiveIsArmed /\ PausedIsResumable
  BY DEF Init, ActiveIsArmed, PausedIsResumable
<1>5. Pending /\ Ahead
  BY DEF Init, Pending, Ahead
<1> QED BY <1>1, <1>2, <1>3, <1>4, <1>5 DEF Inv

\* Every step keeps the invariant.
LEMMA NextInv == Inv /\ [Next]_vars => Inv'
<1> SUFFICES ASSUME Inv, [Next]_vars PROVE Inv'
  OBVIOUS
<1>1. ASSUME NEW t \in Threads, Call(t) PROVE Inv'
  BY <1>1, SubscribeInv, UnsubscribeInv, UpdateDtInv, PauseProcessInv, ResumeProcessInv,
     ArmSkipInv, ArmInv, AddEventInv DEF Call
<1>2. CASE MainLock \/ MainUnlock \/ SetUpDone \/ Stop \/ Time
  BY <1>2, ControlActionsInv
<1>3. CASE StopClear
  BY <1>3, StopClearInv
<1>4. CASE EngineStep
  BY <1>4, PopInv, DropInv, BeginInv, EraseInv, RescheduleInv, ControlActionsInv DEF EngineStep
<1>5. CASE UNCHANGED vars
  <2>1. UNCHANGED <<subs, present, nextId, pausedAt, queue, firing, toArm, arming, pc>>
    BY <1>5 DEF vars
  <2>2. TypeOK'
    BY <1>5 DEF Inv, TypeOK, vars
  <2>3. Control'
    BY <1>5 DEF Inv, Control, Idle, Running, InCallback, vars
  <2> QED BY <2>1, <2>2, <2>3, ControlStep DEF Inv
<1> QED BY <1>1, <1>2, <1>3, <1>4, <1>5 DEF Next

\* The inductive invariant holds in every reachable state.
THEOREM Invariance == Spec => []Inv
<1>1. Init => Inv
  BY InitInv
<1>2. Inv /\ [Next]_vars => Inv'
  BY NextInv
<1> QED BY <1>1, <1>2, PTL DEF Spec

\* The variables keep their types, and the engine thread holds one event at most.
THEOREM TypeCorrect == Spec => []TypeOK
BY Invariance, PTL DEF Inv

\* subscribe(), pause_process(), resume_process() and the self-rescheduling
\* closures never leave a subscription with two live chains of ticks.
THEOREM SingleChain == Spec => []OneLiveChain
BY Invariance, PTL DEF Inv

\* Nor with none, as long as it is neither cancelled nor paused; and a paused
\* one can be resumed.
THEOREM NeverSilent == Spec => [](ActiveIsArmed /\ PausedIsResumable)
BY Invariance, PTL DEF Inv

\* When stop() has returned nothing fires any more.
THEOREM QuietAfterStop == Spec => []StoppedIsQuiet
<1>1. Inv => StoppedIsQuiet
  BY DEF Inv, Control, StoppedIsQuiet
<1> QED BY <1>1, Invariance, PTL

\* No tick is delivered twice or out of order: the deadlines for which the
\* callbacks of a subscription begin are strictly increasing.
THEOREM TicksIncrease == Spec => NoTickTwice
<1>1. Inv /\ [Next]_vars =>
        [pc = "check" /\ pc' = "callback" =>
           \A e \in firing : e.at > subs[e.sub].lastFire]_vars
  <2> SUFFICES ASSUME Inv, Next, pc = "check", pc' = "callback", NEW e \in firing
               PROVE  e.at > subs[e.sub].lastFire
    BY DEF vars
  <2>1. Begin
    BY DEF Next, Call, EngineStep, Subscribe, Unsubscribe, UpdateDt, PauseProcess,
       ResumeProcess, ArmSkip, Arm, AddEvent, MainLock, MainUnlock, SetUpDone, Stop,
       StopClear, EngineWake, Pop, FireLoopEnds, EngineExit, Drop, CallbackLock,
       CallbackReturn, Erase, Reschedule, Time, engineVars
  <2>2. e.sub \in present /\ subs[e.sub].gen = e.gen
    BY <2>1 DEF Begin, Fireable, Inv, TypeOK
  <2> QED BY <2>2 DEF Inv, Ahead, Events
<1> QED BY <1>1, Invariance, PTL DEF Spec, NoTickTwice

-----------------------------------------------------------------------------
(***************************************************************************)
(* The scheduler implements TickSource                                      *)
(***************************************************************************)
Busy == IF InCallback THEN {e.sub : e \in firing} ELSE {}
States == [s \in SubIds |-> StateOf(s)]
TagsOf == [s \in SubIds |-> subs[s].tag]
HeldNow == {n \in Names : pausedAt[n] # NotPaused}

\* A step that changes neither the table nor the callback that runs is a
\* stuttering step of the interface.
LEMMA Stutter ==
  ASSUME \A s \in SubIds : StateOf(s)' = StateOf(s) /\ subs'[s].tag = subs[s].tag,
         UNCHANGED pausedAt, UNCHANGED Busy
  PROVE  UNCHANGED Interface!vars
BY DEF Interface!vars, Busy

\* subscribe() is the abstract one.
LEMMA RefineSubscribe ==
  ASSUME Inv, NEW t \in Threads, NEW dt \in Dts, NEW g \in Tags, NEW first \in Firsts,
         Subscribe(t, dt, g, first)
  PROVE  \E s \in SubIds : \E n \in Names \cup {NoTag} : Interface!Subscribe(s, n)
<1>1. /\ nextId \in SubIds /\ nextId \notin present /\ phase # "stopped"
      /\ nextId' = nextId + 1 /\ present' = present \cup {nextId}
  BY DEF Inv, TypeOK, Control, Subscribe, SubIds, MayCall, Threads
<1>2. /\ subs'[nextId].active /\ ~subs'[nextId].paused /\ subs'[nextId].tag = g
      /\ \A s \in SubIds : s # nextId => subs'[s] = subs[s]
  BY <1>1 DEF Subscribe, Inv, TypeOK
<1>3. UNCHANGED <<phase, pausedAt, Busy>>
  BY DEF Subscribe, engineVars, Busy, InCallback
<1>4. \A s \in SubIds : StateOf(s)' = IF s = nextId THEN "live" ELSE StateOf(s)
  BY <1>1, <1>2, <1>3 DEF StateOf, SubIds
<1>5. StateOf(nextId) = "none"
  BY <1>1 DEF StateOf, SubIds
<1>6. Interface!Subscribe(nextId, g)
  BY <1>1, <1>2, <1>3, <1>4, <1>5 DEF Interface!Subscribe, Busy
<1> QED BY <1>1, <1>6 DEF Tags

\* unsubscribe() is the abstract one.
LEMMA RefineUnsubscribe ==
  ASSUME Inv, NEW t \in Threads, NEW s \in SubIds, Unsubscribe(t, s)
  PROVE  Interface!Unsubscribe(s) \/ UNCHANGED Interface!vars
<1>1. /\ s \in present /\ UNCHANGED <<phase, nextId, present, pausedAt, Busy>>
      /\ ~subs'[s].active /\ subs'[s].tag = subs[s].tag
      /\ \A r \in SubIds : r # s => subs'[r] = subs[r]
  BY DEF Unsubscribe, engineVars, Busy, InCallback, Inv, TypeOK
<1>2. \A r \in SubIds : StateOf(r)' = IF r = s THEN "cancelled" ELSE StateOf(r)
  BY <1>1 DEF StateOf
<1>3. StateOf(s) \in {"live", "paused", "cancelled"}
  BY <1>1 DEF StateOf
<1>4. CASE StateOf(s) = "cancelled"
  BY <1>1, <1>2, <1>4, Stutter
<1>5. CASE StateOf(s) # "cancelled"
  BY <1>1, <1>2, <1>3, <1>5 DEF Interface!Unsubscribe, Busy
<1> QED BY <1>4, <1>5

\* pause_process() is the abstract one.
LEMMA RefinePause ==
  ASSUME Inv, NEW t \in Threads, NEW n \in Names, PauseProcess(t, n)
  PROVE  Interface!PauseProcess(n)
<1>1. /\ UNCHANGED <<phase, nextId, present, Busy>>
      /\ pausedAt' = [pausedAt EXCEPT ![n] = now] /\ now # NotPaused
  BY DEF PauseProcess, engineVars, Busy, InCallback, Inv, TypeOK, Origin, NotPaused
<1>2. ASSUME NEW s \in SubIds
      PROVE  /\ subs'[s].tag = subs[s].tag
             /\ StateOf(s)' = IF subs[s].tag = n /\ StateOf(s) = "live"
                              THEN "paused" ELSE StateOf(s)
  <2>1. subs[s] \in Subscription
    BY DEF Inv, TypeOK
  <2>2. subs'[s] = IF s \in PauseMarks(n) THEN [subs[s] EXCEPT !.paused = TRUE] ELSE subs[s]
    BY DEF PauseProcess
  <2> QED BY <1>1, <2>1, <2>2 DEF StateOf, PauseMarks
<1>3. {m \in Names : pausedAt'[m] # NotPaused}
        = {m \in Names : pausedAt[m] # NotPaused} \cup {n}
  BY <1>1 DEF Inv, TypeOK
<1> QED BY <1>1, <1>2, <1>3 DEF Interface!PauseProcess, Busy

\* resume_process() is the abstract one.
LEMMA RefineResume ==
  ASSUME Inv, NEW t \in Threads, NEW n \in Names, ResumeProcess(t, n)
  PROVE  Interface!ResumeProcess(n)
<1>1. /\ UNCHANGED <<phase, nextId, present, Busy>>
      /\ pausedAt[n] # NotPaused
      /\ pausedAt' = [pausedAt EXCEPT ![n] = NotPaused]
  BY DEF ResumeProcess, engineVars, Busy, InCallback
<1>2. ASSUME NEW s \in SubIds
      PROVE  /\ subs'[s].tag = subs[s].tag
             /\ StateOf(s)' = IF subs[s].tag = n /\ StateOf(s) = "paused"
                              THEN "live" ELSE StateOf(s)
  <2>1. subs[s] \in Subscription
    BY DEF Inv, TypeOK
  <2>2. subs'[s] = IF s \in ResumeMarks(n) THEN Unpaused(subs[s]) ELSE subs[s]
    BY DEF ResumeProcess
  <2>3. Unpaused(subs[s]).tag = subs[s].tag /\ Unpaused(subs[s]).active = subs[s].active
        /\ Unpaused(subs[s]).paused = FALSE
    BY <2>1 DEF Unpaused
  <2> QED BY <1>1, <2>2, <2>3 DEF StateOf, ResumeMarks
<1>3. {m \in Names : pausedAt'[m] # NotPaused}
        = {m \in Names : pausedAt[m] # NotPaused} \ {n}
  BY <1>1 DEF Inv, TypeOK
<1> QED BY <1>1, <1>2, <1>3 DEF Interface!ResumeProcess, Busy

\* A callback that begins is an abstract tick.
LEMMA RefineBegin ==
  ASSUME Inv, Begin
  PROVE  \E s \in SubIds : Interface!Begin(s)
<1>1. PICK e \in firing : Fireable(e) /\ subs' = [subs EXCEPT ![e.sub].lastFire = e.at]
  BY DEF Begin
<1>2. /\ firing = {e} /\ e.sub \in SubIds /\ Busy = {} /\ Busy' = {e.sub}
      /\ UNCHANGED <<phase, nextId, present, pausedAt>>
  BY <1>1 DEF Inv, TypeOK, Begin, Event, Busy, InCallback
<1>3. \A s \in SubIds : /\ subs'[s].tag = subs[s].tag /\ subs'[s].active = subs[s].active
                        /\ subs'[s].paused = subs[s].paused
  BY <1>1, <1>2 DEF Inv
<1>4. \A s \in SubIds : StateOf(s)' = StateOf(s)
  BY <1>2, <1>3 DEF StateOf
<1>5. StateOf(e.sub) = "live"
  BY <1>1 DEF StateOf, Fireable
<1>6. Interface!Begin(e.sub)
  BY <1>2, <1>3, <1>4, <1>5 DEF Interface!Begin, Busy
<1> QED BY <1>2, <1>6

\* The erasure after a callback is the abstract one.
LEMMA RefineErase ==
  ASSUME Inv, Erase
  PROVE  \E s \in SubIds : Interface!Drop(s)
<1>1. PICK e \in firing : firing = {e} /\ e.sub \in SubIds /\ e.sub \in present
  BY DEF Erase, Inv, TypeOK, Control, InCallback
<1>2. /\ Busy = {e.sub} /\ Busy' = {}
      /\ UNCHANGED <<phase, nextId, pausedAt>> /\ present' = present \ {e.sub}
      /\ e.sub < nextId
      /\ subs' = [s \in SubIds |-> IF s \in present' THEN subs[s] ELSE Blank]
  BY <1>1 DEF Erase, Busy, InCallback, Inv, TypeOK
<1>3. \A s \in SubIds : subs'[s] = IF s = e.sub THEN Blank ELSE subs[s]
  BY <1>1, <1>2 DEF Inv, TypeOK
<1>4. \A s \in SubIds : /\ StateOf(s)' = IF s = e.sub THEN "gone" ELSE StateOf(s)
                        /\ subs'[s].tag = IF s = e.sub THEN NoTag ELSE subs[s].tag
  BY <1>1, <1>2, <1>3 DEF StateOf, Blank
<1>5. Interface!Drop(e.sub)
  BY <1>1, <1>2, <1>4 DEF Interface!Drop, Busy
<1> QED BY <1>1, <1>5

\* stop() is the abstract one.
LEMMA RefineStopClear ==
  ASSUME Inv, StopClear
  PROVE  Interface!Stop
<1>1. /\ Busy = {} /\ Busy' = {} /\ UNCHANGED pausedAt
      /\ phase' = "stopped" /\ present' = {} /\ subs' = [s \in SubIds |-> Blank]
  BY DEF StopClear, engineVars, Busy, InCallback
<1>2. \A s \in SubIds : StateOf(s)' = "gone" /\ subs'[s].tag = NoTag
  BY <1>1 DEF StateOf, Blank
<1> QED BY <1>1, <1>2 DEF Interface!Stop, Busy

\* Queueing the next event is not seen from outside.
LEMMA RefineReschedule ==
  ASSUME Inv, Reschedule
  PROVE  Interface!Keep
<1>1. /\ Busy # {} /\ Busy' = {}
      /\ UNCHANGED <<phase, subs, present, nextId, pausedAt>>
  BY DEF Reschedule, Busy, InCallback
<1>2. \A s \in SubIds : StateOf(s)' = StateOf(s)
  BY <1>1 DEF StateOf
<1> QED BY <1>1, <1>2 DEF Interface!Keep, Busy

\* The initial states of the scheduler are initial states of the interface.
LEMMA RefineInit == Init => Interface!Init
BY DEF Init, Interface!Init, StateOf, Blank, SubIds

\* And each of its steps is a step of the interface or a stuttering step.
LEMMA RefineNext == Inv /\ Inv' /\ [Next]_vars => [Interface!Next]_(Interface!vars)
<1> SUFFICES ASSUME Inv, Inv', [Next]_vars PROVE [Interface!Next]_(Interface!vars)
  OBVIOUS
<1>1. ASSUME NEW t \in Threads, Call(t) PROVE [Interface!Next]_(Interface!vars)
  <2>1. CASE \E dt \in Dts, tag \in Tags, first \in Firsts : Subscribe(t, dt, tag, first)
    BY <2>1, RefineSubscribe DEF Interface!Next
  <2>2. CASE \E s \in SubIds : Unsubscribe(t, s)
    BY <2>2, RefineUnsubscribe DEF Interface!Next
  <2>3. CASE \E s \in SubIds, dt \in Dts : UpdateDt(t, s, dt)
    <3>1. PICK s \in SubIds, dt \in Dts : UpdateDt(t, s, dt)
      BY <2>3
    <3>2. \A r \in SubIds : /\ subs'[r].tag = subs[r].tag /\ subs'[r].active = subs[r].active
                            /\ subs'[r].paused = subs[r].paused
      BY <3>1 DEF UpdateDt, Inv
    <3> QED BY <3>1, <3>2, Stutter DEF UpdateDt, engineVars, Busy, InCallback, StateOf
  <2>4. CASE \E n \in Names : PauseProcess(t, n)
    BY <2>4, RefinePause DEF Interface!Next
  <2>5. CASE \E n \in Names : ResumeProcess(t, n)
    BY <2>5, RefineResume DEF Interface!Next
  <2>6. CASE ArmSkip(t) \/ AddEvent(t)
    BY <2>6, Stutter DEF ArmSkip, AddEvent, engineVars, Busy, InCallback, StateOf
  <2>7. CASE Arm(t)
    <3>1. \A r \in SubIds : /\ subs'[r].tag = subs[r].tag /\ subs'[r].active = subs[r].active
                            /\ subs'[r].paused = subs[r].paused
      BY <2>7 DEF Arm, Inv
    <3> QED BY <2>7, <3>1, Stutter DEF Arm, Busy, InCallback, StateOf
  <2> QED BY <1>1, <2>1, <2>2, <2>3, <2>4, <2>5, <2>6, <2>7 DEF Call
<1>2. CASE MainLock \/ MainUnlock \/ SetUpDone \/ Stop \/ Time
  BY <1>2, Stutter DEF MainLock, MainUnlock, SetUpDone, Stop, Time, engineVars, Busy,
     InCallback, StateOf
<1>3. CASE StopClear
  BY <1>3, RefineStopClear DEF Interface!Next
<1>4. CASE EngineStep
  <2>1. CASE EngineWake \/ Pop \/ FireLoopEnds \/ EngineExit \/ Drop
    BY <2>1, Stutter DEF EngineWake, Pop, FireLoopEnds, EngineExit, Drop, Busy, InCallback,
       StateOf
  <2>2. CASE CallbackLock \/ \E keep \in BOOLEAN : CallbackReturn(keep)
    BY <2>2, Stutter DEF CallbackLock, CallbackReturn, Busy, InCallback, StateOf
  <2>3. CASE Begin
    BY <2>3, RefineBegin DEF Interface!Next
  <2>4. CASE Erase
    BY <2>4, RefineErase DEF Interface!Next
  <2>5. CASE Reschedule
    BY <2>5, RefineReschedule DEF Interface!Next
  <2> QED BY <1>4, <2>1, <2>2, <2>3, <2>4, <2>5 DEF EngineStep
<1>5. CASE UNCHANGED vars
  BY <1>5, Stutter DEF vars, Busy, InCallback, StateOf
<1> QED BY <1>1, <1>2, <1>3, <1>4, <1>5 DEF Next

\* sys_clock_scheduler implements the interface the evaluator programs against:
\* a callback begins only for a subscription that is live at that moment, one
\* at a time, and pause and resume take a process's subscriptions together.
THEOREM Implementation == Spec => ImplementsTickSource
<1>1. Init => Interface!Init
  BY RefineInit
<1>2. Inv /\ Inv' /\ [Next]_vars => [Interface!Next]_(Interface!vars)
  BY RefineNext
<1> QED BY <1>1, <1>2, Invariance, PTL DEF Spec, ImplementsTickSource, Interface!Spec

=============================================================================
