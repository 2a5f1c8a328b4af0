-------------------------- MODULE AudioClockProofs --------------------------
(***************************************************************************)
(* Theorems about module AudioClock, for every value of its constants.      *)
(***************************************************************************)
EXTENDS AudioClock, TLAPS

-----------------------------------------------------------------------------
(***************************************************************************)
(* The inductive invariant                                                  *)
(***************************************************************************)

InCall == pc \in {"callback", "body", "erase", "store"}

\* Where the threads can be, and what the worker has in its hands.
Control ==
    /\ owner = "worker" <=> pc = "body"
    /\ owner = "main" => phase \in {"setup", "running"}
    /\ pc = "exited" => ~Running
    /\ phase = "stopped" => pc = "exited"
    /\ pc \in {"poll", "exited"} => batch = {}
    /\ \A s \in batch : s < nextId
    /\ InCall => cur \in present /\ cur \notin batch /\ prev = begun[cur]

\* A pause lies in the past, and the pause of a subscription that can still be
\* called is recorded under its tag.
Marks ==
    /\ \A n \in Names : pausedAt[n] <= now
    /\ \A s \in present : subs[s].active /\ subs[s].paused =>
         subs[s].tag \in Names /\ pausedAt[subs[s].tag] # NotPaused

\* The deadline to come is later than the last one called, but for the
\* subscription whose callback runs: its deadline is stored after it.
Ahead ==
    /\ \A s \in present : subs[s].dt > 0 /\ (~(InCall /\ s = cur) => subs[s].next > begun[s])
    /\ \A s \in SubIds : s >= nextId => begun[s] = 0

\* What is left of the batch is due: a pause freezes the deadline in the past
\* of the pause, so that the shift of the resume leaves it in the past.
Reached ==
    \A s \in batch : s \in present /\ subs[s].active =>
        subs[s].next <= IF subs[s].paused THEN pausedAt[subs[s].tag] ELSE now

Inv == TypeOK /\ Control /\ Marks /\ Ahead /\ Reached

\* The deadline stored after a callback is later than the one it was called for.
LEMMA NextFireLater ==
  ASSUME NEW p \in Nat, NEW dt \in Nat \ {0}, NEW t \in Nat
  PROVE  NextFire(p, dt, t) \in Nat /\ NextFire(p, dt, t) > p
<1>1. CASE p + dt > t
  BY <1>1 DEF NextFire
<1>2. CASE ~(p + dt > t)
  <2> DEFINE k == (t - p) \div dt
  <2>1. t - p \in Nat
    BY <1>2
  <2>2. k \in Nat
    BY <2>1
  <2>3. dt * (k + 1) \in Nat \ {0}
    BY <2>2
  <2> QED BY <1>2, <2>3 DEF NextFire
<1> QED BY <1>1, <1>2

\* A resume clears the pause, moves the deadline and keeps the rest.
LEMMA ShiftedEntry ==
  ASSUME NEW e \in SubsEntry, NEW d \in Nat
  PROVE  /\ Shifted(e, d) \in SubsEntry
         /\ Shifted(e, d).active = e.active /\ Shifted(e, d).tag = e.tag
         /\ Shifted(e, d).dt = e.dt /\ Shifted(e, d).next = e.next + d
         /\ ~Shifted(e, d).paused
<1> DEFINE f == [e EXCEPT !.paused = FALSE]
<1>1. /\ f \in SubsEntry /\ f.active = e.active /\ f.tag = e.tag
      /\ f.dt = e.dt /\ f.next = e.next /\ ~f.paused
  BY DEF SubsEntry
<1>2. Shifted(e, d) = [f EXCEPT !.next = f.next + d]
  BY DEF Shifted
<1> HIDE DEF f
<1>3. f.next + d \in Nat
  BY <1>1 DEF SubsEntry
<1> QED BY <1>1, <1>2, <1>3 DEF SubsEntry

-----------------------------------------------------------------------------
(***************************************************************************)
(* Each call preserves the invariant                                        *)
(***************************************************************************)

\* A subscription gets the next id and a deadline of its own.
LEMMA SubscribeInv ==
  ASSUME Inv, NEW t \in Threads, NEW dt \in Dts, NEW g \in Tags, NEW first \in Firsts,
         Subscribe(t, dt, g, first)
  PROVE  Inv'
<1> DEFINE new == [dt |-> dt, active |-> TRUE, tag |-> g, paused |-> FALSE,
                   next |-> IF first > 0 THEN first ELSE now + dt]
<1>1. /\ nextId \in SubIds /\ nextId \notin present /\ nextId \notin batch
      /\ nextId' = nextId + 1 /\ present' = present \cup {nextId}
      /\ subs' = [subs EXCEPT ![nextId] = new]
      /\ dt \in Nat \ {0} /\ first \in Nat /\ now \in Nat \ {0}
      /\ UNCHANGED <<now, phase, owner, pausedAt, workerVars, pauses, begun>>
  BY AudioClockAssumption DEF Inv, TypeOK, Control, Subscribe, SubIds
<1>2. /\ new \in SubsEntry /\ new.next > 0 /\ new.dt = dt /\ ~new.paused
      /\ subs'[nextId] = new
  BY <1>1 DEF SubsEntry, Inv, TypeOK
<1>3. \A s \in SubIds : s # nextId => subs'[s] = subs[s]
  BY <1>1 DEF Inv, TypeOK
<1>4. TypeOK'
  <2>1. subs' \in [SubIds -> SubsEntry]
    BY <1>1, <1>2 DEF Inv, TypeOK
  <2>2. \A r \in SubIds \ present' : subs'[r] = Blank
    BY <1>1, <1>3 DEF Inv, TypeOK
  <2>3. nextId' \in 1..(MaxSubs + 1) /\ present' \subseteq SubIds /\ \A r \in present' : r < nextId'
    BY <1>1, AudioClockAssumption DEF Inv, TypeOK, SubIds
  <2> QED BY <1>1, <2>1, <2>2, <2>3 DEF Inv, TypeOK, workerVars
<1>5. Control'
  BY <1>1 DEF Inv, TypeOK, Control, InCall, Running, workerVars, SubIds
<1>6. Marks'
  BY <1>1, <1>2, <1>3 DEF Inv, TypeOK, Marks
<1>7. Ahead'
  <2>1. begun[nextId] = 0
    BY <1>1 DEF Inv, Ahead, TypeOK
  <2> QED BY <1>1, <1>2, <1>3, <2>1 DEF Inv, TypeOK, Ahead, Control, InCall, SubIds, workerVars
<1>8. Reached'
  BY <1>1, <1>3 DEF Inv, TypeOK, Reached, workerVars
<1> QED BY <1>4, <1>5, <1>6, <1>7, <1>8 DEF Inv

\* unsubscribe() marks a subscription; the record stays.
LEMMA UnsubscribeInv ==
  ASSUME Inv, NEW t \in Threads, NEW s \in SubIds, Unsubscribe(t, s)
  PROVE  Inv'
<1>1. /\ subs' = [subs EXCEPT ![s].active = FALSE]
      /\ UNCHANGED <<now, phase, owner, present, nextId, pausedAt, workerVars, pauses, begun>>
      /\ s \in present
  BY DEF Unsubscribe
<1>2. \A r \in SubIds : /\ subs'[r].dt = subs[r].dt /\ subs'[r].next = subs[r].next
                        /\ subs'[r].tag = subs[r].tag /\ subs'[r].paused = subs[r].paused
                        /\ subs'[r].active => subs[r].active
  BY <1>1 DEF Inv, TypeOK
<1>3. TypeOK'
  <2>1. subs' \in [SubIds -> SubsEntry]
    BY <1>1 DEF Inv, TypeOK, SubsEntry
  <2> QED BY <1>1, <2>1 DEF Inv, TypeOK, workerVars
<1>4. Control'
  BY <1>1 DEF Inv, Control, InCall, Running, workerVars
<1>5. Marks' /\ Ahead' /\ Reached'
  BY <1>1, <1>2 DEF Inv, TypeOK, Marks, Ahead, Reached, InCall, workerVars
<1> QED BY <1>3, <1>4, <1>5 DEF Inv

\* update_dt() changes the interval only.
LEMMA UpdateDtInv ==
  ASSUME Inv, NEW t \in Threads, NEW s \in SubIds, NEW dt \in Dts, UpdateDt(t, s, dt)
  PROVE  Inv'
<1>1. /\ subs' = [subs EXCEPT ![s].dt = dt] /\ dt \in Nat /\ dt > 0
      /\ UNCHANGED <<now, phase, owner, present, nextId, pausedAt, workerVars, pauses, begun>>
      /\ s \in present
  BY AudioClockAssumption DEF UpdateDt
<1>2. \A r \in SubIds : /\ subs'[r].next = subs[r].next /\ subs'[r].active = subs[r].active
                        /\ subs'[r].tag = subs[r].tag /\ subs'[r].paused = subs[r].paused
                        /\ subs'[r].dt = IF r = s THEN dt ELSE subs[r].dt
  BY <1>1 DEF Inv, TypeOK
<1>3. TypeOK'
  <2>1. subs' \in [SubIds -> SubsEntry]
    BY <1>1 DEF Inv, TypeOK, SubsEntry
  <2> QED BY <1>1, <2>1 DEF Inv, TypeOK, workerVars
<1>4. Control'
  BY <1>1 DEF Inv, Control, InCall, Running, workerVars
<1>5. Marks' /\ Ahead' /\ Reached'
  BY <1>1, <1>2 DEF Inv, TypeOK, Marks, Ahead, Reached, InCall, workerVars
<1> QED BY <1>3, <1>4, <1>5 DEF Inv

\* A pause marks a deadline of the batch that has come already, and a second
\* pause of the same process only moves its mark later.
LEMMA PauseProcessInv ==
  ASSUME Inv, NEW t \in Threads, NEW n \in Names, PauseProcess(t, n)
  PROVE  Inv'
<1>1. /\ pausedAt' = [pausedAt EXCEPT ![n] = now] /\ now \in Nat \ {0}
      /\ pauses < MaxPauses /\ pauses' = pauses + 1
      /\ UNCHANGED <<now, phase, owner, present, nextId, workerVars, begun>>
  BY DEF PauseProcess, Inv, TypeOK
<1>2. \A r \in SubIds :
         subs'[r] = IF r \in PauseMarks(n) THEN [subs[r] EXCEPT !.paused = TRUE] ELSE subs[r]
  BY DEF PauseProcess
<1>3. ASSUME NEW r \in SubIds
      PROVE  /\ subs'[r] \in SubsEntry
             /\ subs'[r].next = subs[r].next /\ subs'[r].active = subs[r].active
             /\ subs'[r].tag = subs[r].tag /\ subs'[r].dt = subs[r].dt
             /\ subs'[r].paused => subs[r].paused \/ r \in PauseMarks(n)
             /\ subs[r].paused => subs'[r].paused
  <2>1. subs[r] \in SubsEntry
    BY DEF Inv, TypeOK
  <2> QED BY <1>2, <2>1 DEF SubsEntry
<1>4. TypeOK'
  <2>1. subs' \in [SubIds -> SubsEntry]
    BY <1>3 DEF PauseProcess
  <2>2. \A r \in SubIds \ present : subs'[r] = Blank
    BY <1>2 DEF Inv, TypeOK, PauseMarks
  <2> QED BY <1>1, <2>1, <2>2, AudioClockAssumption DEF Inv, TypeOK, workerVars
<1>5. Control'
  BY <1>1 DEF Inv, Control, InCall, Running, workerVars
<1>6. \A m \in Names : pausedAt'[m] = IF m = n THEN now ELSE pausedAt[m]
  BY <1>1 DEF Inv, TypeOK
<1>7. Marks'
  BY <1>1, <1>3, <1>6 DEF Inv, TypeOK, Marks, PauseMarks, NotPaused
<1>8. Ahead'
  BY <1>1, <1>3 DEF Inv, TypeOK, Ahead, InCall, workerVars
<1>9. Reached'
  <2> SUFFICES ASSUME NEW s \in batch, s \in present, subs'[s].active
               PROVE  subs'[s].next <= IF subs'[s].paused THEN pausedAt'[subs'[s].tag] ELSE now
    BY <1>1 DEF Reached, workerVars
  <2>1. /\ s \in SubIds /\ subs[s].active /\ subs[s].next \in Nat
        /\ subs[s].next <= IF subs[s].paused THEN pausedAt[subs[s].tag] ELSE now
    BY <1>3 DEF Inv, TypeOK, Reached, SubsEntry
  <2>2. CASE subs[s].paused
    <3>1. subs[s].tag \in Names /\ pausedAt[subs[s].tag] \in Nat /\ pausedAt[subs[s].tag] <= now
      BY <2>1, <2>2 DEF Inv, TypeOK, Marks
    <3> QED BY <1>1, <1>3, <1>6, <2>1, <2>2, <3>1
  <2>3. CASE ~subs[s].paused
    BY <1>1, <1>3, <1>6, <2>1, <2>3 DEF PauseMarks
  <2> QED BY <2>2, <2>3
<1> QED BY <1>4, <1>5, <1>7, <1>8, <1>9 DEF Inv

\* A resume shifts by what passed since the pause: a deadline that had come
\* before it stays in the past, and no deadline moves to an earlier one.
LEMMA ResumeProcessInv ==
  ASSUME Inv, NEW t \in Threads, NEW n \in Names, ResumeProcess(t, n)
  PROVE  Inv'
<1> DEFINE d == now - pausedAt[n]
<1>1. /\ pausedAt' = [pausedAt EXCEPT ![n] = NotPaused]
      /\ UNCHANGED <<now, phase, owner, present, nextId, workerVars, pauses, begun>>
      /\ d \in Nat /\ now \in Nat /\ pausedAt[n] \in Nat
  BY DEF ResumeProcess, Inv, TypeOK, Marks
<1>2. \A r \in SubIds : subs'[r] = IF r \in ResumeMarks(n) THEN Shifted(subs[r], d) ELSE subs[r]
  BY DEF ResumeProcess
<1>3. ASSUME NEW r \in SubIds
      PROVE  /\ subs'[r] \in SubsEntry
             /\ subs'[r].active = subs[r].active
             /\ subs'[r].tag = subs[r].tag /\ subs'[r].dt = subs[r].dt
             /\ subs'[r].next = IF r \in ResumeMarks(n) THEN subs[r].next + d ELSE subs[r].next
             /\ subs'[r].paused <=> subs[r].paused /\ r \notin ResumeMarks(n)
  <2>1. subs[r] \in SubsEntry
    BY DEF Inv, TypeOK
  <2>2. CASE r \in ResumeMarks(n)
    <3>1. subs'[r] = Shifted(subs[r], d) /\ subs[r].paused
      BY <1>2, <2>2 DEF ResumeMarks
    <3>2. /\ Shifted(subs[r], d) \in SubsEntry
          /\ Shifted(subs[r], d).active = subs[r].active /\ Shifted(subs[r], d).tag = subs[r].tag
          /\ Shifted(subs[r], d).dt = subs[r].dt /\ Shifted(subs[r], d).next = subs[r].next + d
          /\ ~Shifted(subs[r], d).paused
      BY <1>1, <2>1, ShiftedEntry
    <3> HIDE DEF d
    <3>3. subs'[r].paused <=> subs[r].paused /\ r \notin ResumeMarks(n)
      BY <2>2, <3>1, <3>2
    <3> QED BY <2>2, <3>1, <3>2, <3>3
  <2>3. CASE r \notin ResumeMarks(n)
    BY <1>2, <2>1, <2>3
  <2> QED BY <2>2, <2>3
<1>4. TypeOK'
  <2>1. subs' \in [SubIds -> SubsEntry]
    BY <1>3 DEF ResumeProcess
  <2>2. \A r \in SubIds \ present : subs'[r] = Blank
    BY <1>2 DEF Inv, TypeOK, ResumeMarks
  <2> QED BY <1>1, <2>1, <2>2 DEF Inv, TypeOK, workerVars, NotPaused
<1>5. Control'
  BY <1>1 DEF Inv, Control, InCall, Running, workerVars
<1>6. \A m \in Names : pausedAt'[m] = IF m = n THEN 0 ELSE pausedAt[m]
  BY <1>1 DEF Inv, TypeOK, NotPaused
<1>7. Marks'
  BY <1>1, <1>3, <1>6 DEF Inv, TypeOK, Marks, ResumeMarks, NotPaused
<1>8. Ahead'
  BY <1>1, <1>3 DEF Inv, TypeOK, Ahead, InCall, workerVars, SubsEntry
<1>9. Reached'
  <2> SUFFICES ASSUME NEW s \in batch, s \in present, subs'[s].active
               PROVE  subs'[s].next <= IF subs'[s].paused THEN pausedAt'[subs'[s].tag] ELSE now
    BY <1>1 DEF Reached, workerVars
  <2>1. /\ s \in SubIds /\ subs[s].active /\ subs[s].next \in Nat
        /\ subs[s].next <= IF subs[s].paused THEN pausedAt[subs[s].tag] ELSE now
    BY <1>3 DEF Inv, TypeOK, Reached, SubsEntry
  <2>2. CASE s \in ResumeMarks(n)
    BY <1>1, <1>3, <2>1, <2>2 DEF ResumeMarks
  <2>3. CASE s \notin ResumeMarks(n)
    BY <1>3, <1>6, <2>1, <2>3 DEF ResumeMarks, Inv, Marks
  <2> QED BY <2>2, <2>3
<1> QED BY <1>4, <1>5, <1>7, <1>8, <1>9 DEF Inv

-----------------------------------------------------------------------------
(***************************************************************************)
(* Each step of the worker and of the main thread preserves it              *)
(***************************************************************************)

\* What is due is collected: a subscription that is due is not paused.
LEMMA CollectInv ==
  ASSUME Inv, Collect
  PROVE  Inv'
<1>1. /\ pc = "poll" /\ pc' = "batch" /\ at' = now /\ batch' = Due
      /\ UNCHANGED <<now, phase, owner, subs, present, nextId, pausedAt, cur, prev, pauses, begun>>
  BY DEF Collect
<1>2. TypeOK'
  BY <1>1 DEF Inv, TypeOK, Due
<1>3. Control'
  BY <1>1 DEF Inv, TypeOK, Control, InCall, Running, Due
<1>4. Marks' /\ Ahead'
  BY <1>1 DEF Inv, Marks, Ahead, InCall
<1>5. Reached'
  <2>1. \A s \in Due : subs[s].next \in Nat /\ subs[s].next <= now /\ ~subs[s].paused
    BY DEF Due, Inv, TypeOK, SubsEntry
  <2> QED BY <1>1, <2>1 DEF Reached
<1> QED BY <1>2, <1>3, <1>4, <1>5 DEF Inv

\* The next callback of the batch begins.
LEMMA BeginInv ==
  ASSUME Inv, Begin
  PROVE  Inv'
<1>1. PICK s \in batch : /\ Callable(s) /\ batch' = batch \ {s} /\ cur' = s
                         /\ prev' = subs[s].next
                         /\ begun' = [begun EXCEPT ![s] = subs[s].next]
  BY DEF Begin
<1>2. /\ pc = "batch" /\ pc' = "callback" /\ s \in SubIds /\ s \in present /\ s < nextId
      /\ subs[s].next \in Nat
      /\ UNCHANGED <<now, phase, owner, subs, present, nextId, pausedAt, at, pauses>>
  BY <1>1 DEF Begin, Callable, Inv, TypeOK, Control, SubsEntry
<1>3. /\ begun'[s] = subs[s].next
      /\ \A r \in SubIds : r # s => begun'[r] = begun[r]
  BY <1>1, <1>2 DEF Inv, TypeOK
<1>4. TypeOK'
  BY <1>1, <1>2 DEF Inv, TypeOK
<1>5. Control'
  BY <1>1, <1>2, <1>3 DEF Inv, TypeOK, Control, InCall, Running
<1>6. Marks' /\ Reached'
  BY <1>1, <1>2 DEF Inv, Marks, Reached
<1>7. Ahead'
  BY <1>1, <1>2, <1>3 DEF Inv, TypeOK, Ahead, InCall, SubIds
<1> QED BY <1>4, <1>5, <1>6, <1>7 DEF Inv

\* After its callback a subscription that asked for it is erased.
LEMMA EraseInv ==
  ASSUME Inv, Erase
  PROVE  Inv'
<1>1. /\ present' = present \ {cur} /\ subs' = [subs EXCEPT ![cur] = Blank]
      /\ pc = "erase" /\ pc' = "batch" /\ cur' = 0 /\ prev' = 0
      /\ cur \in present /\ cur \in SubIds /\ cur \notin batch
      /\ UNCHANGED <<now, phase, owner, nextId, pausedAt, at, batch, pauses, begun>>
  BY DEF Erase, Inv, TypeOK, Control, InCall
<1>2. \A s \in SubIds : subs'[s] = IF s = cur THEN Blank ELSE subs[s]
  BY <1>1 DEF Inv, TypeOK
<1>3. TypeOK'
  <2>1. Blank \in SubsEntry
    BY DEF Blank, SubsEntry, Tags
  <2> QED BY <1>1, <1>2, <2>1 DEF Inv, TypeOK
<1>4. Control'
  BY <1>1 DEF Inv, Control, InCall, Running
<1>5. Marks' /\ Ahead' /\ Reached'
  BY <1>1, <1>2 DEF Inv, TypeOK, Marks, Ahead, Reached, InCall
<1> QED BY <1>3, <1>4, <1>5 DEF Inv

\* The deadline that is stored is later than the one the callback was called
\* for, whatever a pause and a resume within the callback made of it.
LEMMA StoreInv ==
  ASSUME Inv, Store
  PROVE  Inv'
<1> DEFINE f == NextFire(prev, subs[cur].dt, at)
<1>1. /\ subs' = [subs EXCEPT ![cur].next = f]
      /\ pc = "store" /\ pc' = "batch" /\ cur' = 0 /\ prev' = 0
      /\ cur \in present /\ cur \in SubIds /\ cur \notin batch /\ prev = begun[cur]
      /\ UNCHANGED <<now, phase, owner, present, nextId, pausedAt, at, batch, pauses, begun>>
  BY DEF Store, Inv, TypeOK, Control, InCall
<1>2. subs[cur].dt \in Nat \ {0}
  BY <1>1 DEF Inv, TypeOK, Ahead, SubsEntry
<1>3. f \in Nat /\ f > begun[cur]
  BY <1>1, <1>2, NextFireLater DEF Inv, TypeOK
<1> HIDE DEF f
<1>4. \A s \in SubIds :
        /\ subs'[s].dt = subs[s].dt /\ subs'[s].active = subs[s].active
        /\ subs'[s].tag = subs[s].tag /\ subs'[s].paused = subs[s].paused
        /\ subs'[s].next = IF s = cur THEN f ELSE subs[s].next
  BY <1>1 DEF Inv, TypeOK
<1>5. TypeOK'
  <2>1. subs' \in [SubIds -> SubsEntry]
    BY <1>1, <1>3 DEF Inv, TypeOK, SubsEntry
  <2> QED BY <1>1, <2>1 DEF Inv, TypeOK
<1>6. Control'
  BY <1>1 DEF Inv, Control, InCall, Running
<1>7. Marks' /\ Ahead' /\ Reached'
  BY <1>1, <1>3, <1>4 DEF Inv, TypeOK, Marks, Ahead, Reached, InCall
<1> QED BY <1>5, <1>6, <1>7 DEF Inv

\* stop() empties the table when the worker is gone.
LEMMA StopClearInv ==
  ASSUME Inv, StopClear
  PROVE  Inv'
<1>1. /\ phase' = "stopped" /\ present' = {} /\ subs' = [s \in SubIds |-> Blank]
      /\ pc = "exited" /\ phase = "joining"
      /\ UNCHANGED <<now, owner, nextId, pausedAt, workerVars, pauses, begun>>
  BY DEF StopClear
<1>2. TypeOK'
  <2>1. Blank \in SubsEntry
    BY DEF Blank, SubsEntry, Tags
  <2> QED BY <1>1, <2>1 DEF Inv, TypeOK, workerVars
<1>3. Control'
  BY <1>1 DEF Inv, Control, InCall, Running, workerVars
<1>4. Marks' /\ Ahead' /\ Reached'
  BY <1>1 DEF Inv, Control, Marks, Ahead, Reached, workerVars
<1> QED BY <1>2, <1>3, <1>4 DEF Inv

\* The steps that leave the subscriptions as they are: eval_mutex_, the phases,
\* the end of a batch, and time.
LEMMA ControlActionsInv ==
  ASSUME Inv,
         \/ MainLock \/ MainUnlock \/ SetUpDone \/ Stop \/ Time
         \/ WorkerExit \/ Skip \/ BatchEnds \/ CallbackLock
         \/ \E keep \in BOOLEAN : CallbackReturn(keep)
  PROVE  Inv'
<1>1. /\ UNCHANGED <<subs, present, nextId, pausedAt, cur, prev, pauses, begun>>
      /\ batch' \subseteq batch
      /\ now' = now \/ Time
  BY DEF MainLock, MainUnlock, SetUpDone, Stop, Time, WorkerExit, Skip, BatchEnds,
     CallbackLock, CallbackReturn, workerVars
<1>2. now' \in 1..MaxTime /\ now' >= now
  <2>1. now \in 1..MaxTime /\ (Time => now < MaxTime /\ now' = now + 1)
    BY DEF Inv, TypeOK, Time
  <2> QED BY <1>1, <2>1, AudioClockAssumption
<1>3. InCall' = InCall
  BY DEF InCall, MainLock, MainUnlock, SetUpDone, Stop, Time, WorkerExit, Skip, BatchEnds,
     CallbackLock, CallbackReturn, workerVars
<1>4. TypeOK'
  <2>1. CASE MainLock \/ MainUnlock \/ SetUpDone \/ Stop \/ Time
    BY <1>1, <1>2, <2>1 DEF Inv, TypeOK, Threads, MainLock, MainUnlock, SetUpDone, Stop, Time,
       workerVars
  <2>2. CASE WorkerExit \/ Skip \/ BatchEnds \/ CallbackLock \/ \E keep \in BOOLEAN : CallbackReturn(keep)
    BY <1>1, <1>2, <2>2 DEF Inv, TypeOK, Threads, WorkerExit, Skip, BatchEnds, CallbackLock,
       CallbackReturn
  <2> QED BY <2>1, <2>2
<1>5. Control'
  <2>1. CASE MainLock \/ MainUnlock \/ SetUpDone \/ Stop \/ Time
    BY <1>1, <1>3, <2>1 DEF Inv, TypeOK, Control, InCall, Running, MainLock, MainUnlock,
       SetUpDone, Stop, Time, workerVars
  <2>2. CASE WorkerExit \/ Skip \/ BatchEnds \/ CallbackLock \/ \E keep \in BOOLEAN : CallbackReturn(keep)
    BY <1>1, <1>3, <2>2 DEF Inv, TypeOK, Control, InCall, Running, WorkerExit, Skip, BatchEnds,
       CallbackLock, CallbackReturn
  <2> QED BY <2>1, <2>2
<1>6. Marks'
  BY <1>1, <1>2 DEF Inv, TypeOK, Marks
<1>7. Ahead'
  BY <1>1, <1>3 DEF Inv, Ahead
<1>8. Reached'
  <2> SUFFICES ASSUME NEW s \in batch, s \in present, subs[s].active
               PROVE  subs[s].next <= IF subs[s].paused THEN pausedAt[subs[s].tag] ELSE now'
    BY <1>1 DEF Reached
  <2>1. subs[s].next \in Nat /\ subs[s].next <= IF subs[s].paused THEN pausedAt[subs[s].tag] ELSE now
    BY DEF Inv, TypeOK, Reached, SubsEntry
  <2> QED BY <1>2, <2>1 DEF Inv, TypeOK
<1> QED BY <1>4, <1>5, <1>6, <1>7, <1>8 DEF Inv

-----------------------------------------------------------------------------
(***************************************************************************)
(* The theorems                                                             *)
(***************************************************************************)

\* The tables are empty at the start.
LEMMA InitInv == Init => Inv
<1> SUFFICES ASSUME Init PROVE Inv
  OBVIOUS
<1>1. TypeOK
  <2>1. Blank \in SubsEntry
    BY DEF Blank, SubsEntry, Tags
  <2> QED BY <2>1, AudioClockAssumption DEF Init, TypeOK, NotPaused
<1>2. Control
  BY DEF Init, Control, InCall
<1>3. Marks /\ Ahead /\ Reached
  BY DEF Init, Marks, NotPaused, Ahead, Reached
<1> QED BY <1>1, <1>2, <1>3 DEF Inv

\* Every step keeps the invariant.
LEMMA NextInv == Inv /\ [Next]_vars => Inv'
<1> SUFFICES ASSUME Inv, [Next]_vars PROVE Inv'
  OBVIOUS
<1>1. ASSUME NEW t \in Threads, Call(t) PROVE Inv'
  BY <1>1, SubscribeInv, UnsubscribeInv, UpdateDtInv, PauseProcessInv, ResumeProcessInv DEF Call
<1>2. CASE MainLock \/ MainUnlock \/ SetUpDone \/ Stop \/ Time
  BY <1>2, ControlActionsInv
<1>3. CASE StopClear
  BY <1>3, StopClearInv
<1>4. CASE WorkerStep
  BY <1>4, CollectInv, BeginInv, EraseInv, StoreInv, ControlActionsInv DEF WorkerStep
<1>5. CASE UNCHANGED vars
  BY <1>5 DEF vars, workerVars, Inv, TypeOK, Control, InCall, Running, Marks, Ahead, Reached
<1> QED BY <1>1, <1>2, <1>3, <1>4, <1>5 DEF Next

\* The inductive invariant holds: every deadline to come lies after the last one
\* called, and what is left of a batch is due.
THEOREM Invariance == Spec => []Inv
<1>1. Init => Inv
  BY InitInv
<1>2. Inv /\ [Next]_vars => Inv'
  BY NextInv
<1> QED BY <1>1, <1>2, PTL DEF Spec

\* A callback is begun for a deadline that has come and is later than every
\* deadline its subscription was called for before, although fire_due_() looks
\* at deadlines only when it collects the batch and callbacks of the batch
\* pause, resume, cancel and reschedule what is left of it.
THEOREM NeitherEarlyNorTwice == Spec => TicksInTime
<1> DEFINE Step == \A s \in SubIds : pc = "batch" /\ pc' = "callback" /\ cur' = s =>
                      prev' > begun[s] /\ prev' <= now'
<1>1. Inv /\ [Next]_vars => [Step]_vars
  <2> SUFFICES ASSUME Inv, Next, NEW s \in SubIds, pc = "batch", pc' = "callback", cur' = s
               PROVE  prev' > begun[s] /\ prev' <= now'
    OBVIOUS
  <2>1. Begin
    BY DEF Next, Call, Subscribe, Unsubscribe, UpdateDt, PauseProcess, ResumeProcess,
       MainLock, MainUnlock, SetUpDone, Stop, StopClear, WorkerStep, Collect, WorkerExit, Skip,
       BatchEnds, CallbackLock, CallbackReturn, Erase, Store, Time, workerVars
  <2>2. /\ s \in batch /\ Callable(s) /\ prev' = subs[s].next /\ now' = now
    BY <2>1 DEF Begin
  <2>3. subs[s].next > begun[s]
    BY <2>2 DEF Callable, Inv, Ahead, InCall
  <2>4. subs[s].next <= now
    BY <2>2 DEF Callable, Inv, Reached
  <2> QED BY <2>2, <2>3, <2>4
<1>2. Inv => TypeOK
  BY DEF Inv
<1> QED BY <1>1, <1>2, Invariance, PTL DEF Spec, TicksInTime

-----------------------------------------------------------------------------
(***************************************************************************)
(* The refinement of TickSource                                             *)
(***************************************************************************)

\* The subscription whose callback runs, as module TickSource sees it.
Busy == IF InCall THEN {cur} ELSE {}

\* A step that changes neither the subscriptions, nor the pauses, nor whose
\* callback runs is invisible to the interface.
LEMMA Stutter ==
  ASSUME \A s \in SubIds : StateOf(s)' = StateOf(s) /\ subs'[s].tag = subs[s].tag,
         UNCHANGED pausedAt, UNCHANGED Busy
  PROVE  UNCHANGED Interface!vars
BY DEF Interface!vars, Busy, InCall

\* subscribe() is the abstract one.
LEMMA RefineSubscribe ==
  ASSUME Inv, NEW t \in Threads, NEW dt \in Dts, NEW g \in Tags, NEW first \in Firsts,
         Subscribe(t, dt, g, first)
  PROVE  \E s \in SubIds : \E n \in Names \cup {NoTag} : Interface!Subscribe(s, n)
<1>1. /\ nextId \in SubIds /\ nextId \notin present /\ phase # "stopped"
      /\ nextId' = nextId + 1 /\ present' = present \cup {nextId}
  BY DEF Inv, TypeOK, Control, Subscribe, SubIds, MayCall, Threads
<1>2. /\ subs'[nextId].active /\ ~subs'[nextId].paused /\ subs'[nextId].tag = g
      /\ \A s \in SubIds : s # nextId => subs'[s] = subs[s]
  BY <1>1 DEF Subscribe, Inv, TypeOK
<1>3. UNCHANGED <<phase, pausedAt, Busy>>
  BY DEF Subscribe, workerVars, Busy, InCall
<1>4. \A s \in SubIds : StateOf(s)' = IF s = nextId THEN "live" ELSE StateOf(s)
  BY <1>1, <1>2, <1>3 DEF StateOf, SubIds
<1>5. StateOf(nextId) = "none"
  BY <1>1 DEF StateOf, SubIds
<1>6. Interface!Subscribe(nextId, g)
  BY <1>1, <1>2, <1>3, <1>4, <1>5 DEF Interface!Subscribe, Busy, InCall
<1> QED BY <1>1, <1>6 DEF Tags

\* unsubscribe() is the abstract one.
LEMMA RefineUnsubscribe ==
  ASSUME Inv, NEW t \in Threads, NEW s \in SubIds, Unsubscribe(t, s)
  PROVE  Interface!Unsubscribe(s) \/ UNCHANGED Interface!vars
<1>1. /\ s \in present /\ UNCHANGED <<phase, nextId, present, pausedAt, Busy>>
      /\ ~subs'[s].active /\ subs'[s].tag = subs[s].tag
      /\ \A r \in SubIds : r # s => subs'[r] = subs[r]
  BY DEF Unsubscribe, workerVars, Busy, InCall, Inv, TypeOK
<1>2. \A r \in SubIds : StateOf(r)' = IF r = s THEN "cancelled" ELSE StateOf(r)
  BY <1>1 DEF StateOf
<1>3. StateOf(s) \in {"live", "paused", "cancelled"}
  BY <1>1 DEF StateOf
<1>4. CASE StateOf(s) = "cancelled"
  BY <1>1, <1>2, <1>4, Stutter
<1>5. CASE StateOf(s) # "cancelled"
  BY <1>1, <1>2, <1>3, <1>5 DEF Interface!Unsubscribe, Busy, InCall
<1> QED BY <1>4, <1>5

\* pause_process() is the abstract one.
LEMMA RefinePause ==
  ASSUME Inv, NEW t \in Threads, NEW n \in Names, PauseProcess(t, n)
  PROVE  Interface!PauseProcess(n)
<1>1. /\ UNCHANGED <<phase, nextId, present, Busy>>
      /\ pausedAt' = [pausedAt EXCEPT ![n] = now] /\ now # NotPaused
  BY DEF PauseProcess, workerVars, Busy, InCall, Inv, TypeOK, NotPaused
<1>2. ASSUME NEW s \in SubIds
      PROVE  /\ subs'[s].tag = subs[s].tag
             /\ StateOf(s)' = IF subs[s].tag = n /\ StateOf(s) = "live"
                              THEN "paused" ELSE StateOf(s)
  <2>1. subs[s] \in SubsEntry
    BY DEF Inv, TypeOK
  <2>2. subs'[s] = IF s \in PauseMarks(n) THEN [subs[s] EXCEPT !.paused = TRUE] ELSE subs[s]
    BY DEF PauseProcess
  <2> QED BY <1>1, <2>1, <2>2 DEF StateOf, PauseMarks, SubsEntry
<1>3. {m \in Names : pausedAt'[m] # NotPaused}
        = {m \in Names : pausedAt[m] # NotPaused} \cup {n}
  BY <1>1 DEF Inv, TypeOK
<1> QED BY <1>1, <1>2, <1>3 DEF Interface!PauseProcess, Busy, InCall

\* resume_process() is the abstract one.
LEMMA RefineResume ==
  ASSUME Inv, NEW t \in Threads, NEW n \in Names, ResumeProcess(t, n)
  PROVE  Interface!ResumeProcess(n)
<1>1. /\ UNCHANGED <<phase, nextId, present, Busy>>
      /\ pausedAt[n] # NotPaused
      /\ pausedAt' = [pausedAt EXCEPT ![n] = NotPaused]
      /\ now - pausedAt[n] \in Nat
  BY DEF ResumeProcess, workerVars, Busy, InCall, Inv, TypeOK, Marks
<1>2. ASSUME NEW s \in SubIds
      PROVE  /\ subs'[s].tag = subs[s].tag
             /\ StateOf(s)' = IF subs[s].tag = n /\ StateOf(s) = "paused"
                              THEN "live" ELSE StateOf(s)
  <2>1. subs[s] \in SubsEntry
    BY DEF Inv, TypeOK
  <2>2. subs'[s] = IF s \in ResumeMarks(n) THEN Shifted(subs[s], now - pausedAt[n]) ELSE subs[s]
    BY DEF ResumeProcess
  <2> QED BY <1>1, <2>1, <2>2, ShiftedEntry DEF StateOf, ResumeMarks
<1>3. {m \in Names : pausedAt'[m] # NotPaused}
        = {m \in Names : pausedAt[m] # NotPaused} \ {n}
  BY <1>1 DEF Inv, TypeOK
<1> QED BY <1>1, <1>2, <1>3 DEF Interface!ResumeProcess, Busy, InCall

\* A callback that begins is an abstract tick.
LEMMA RefineBegin ==
  ASSUME Inv, Begin
  PROVE  \E s \in SubIds : Interface!Begin(s)
<1>1. PICK s \in batch : Callable(s) /\ cur' = s
  BY DEF Begin
<1>2. /\ s \in SubIds /\ Busy = {} /\ Busy' = {s}
      /\ UNCHANGED <<phase, nextId, present, pausedAt, subs>>
  BY <1>1 DEF Inv, TypeOK, Begin, Busy, InCall
<1>3. StateOf(s) = "live" /\ \A r \in SubIds : StateOf(r)' = StateOf(r)
  BY <1>1, <1>2 DEF StateOf, Callable
<1>4. Interface!Begin(s)
  BY <1>2, <1>3 DEF Interface!Begin, Busy, InCall
<1> QED BY <1>2, <1>4

\* The erasure after a callback is the abstract one.
LEMMA RefineErase ==
  ASSUME Inv, Erase
  PROVE  \E s \in SubIds : Interface!Drop(s)
<1>1. PICK c \in SubIds :
      /\ c = cur /\ c \in present /\ Busy = {c} /\ Busy' = {}
      /\ UNCHANGED <<phase, nextId, pausedAt>> /\ present' = present \ {c}
      /\ c < nextId
  BY DEF Erase, Inv, TypeOK, Control, Busy, InCall
<1>2. \A s \in SubIds : subs'[s] = IF s = c THEN Blank ELSE subs[s]
  BY <1>1 DEF Erase, Inv, TypeOK
<1>3. \A s \in SubIds : /\ StateOf(s)' = IF s = c THEN "gone" ELSE StateOf(s)
                        /\ subs'[s].tag = IF s = c THEN NoTag ELSE subs[s].tag
  BY <1>1, <1>2 DEF StateOf, Blank
<1>4. Interface!Drop(c)
  BY <1>1, <1>3 DEF Interface!Drop, Busy, InCall
<1> QED BY <1>1, <1>4

\* Storing the next tick is not seen from outside.
LEMMA RefineStore ==
  ASSUME Inv, Store
  PROVE  Interface!Keep
<1>1. /\ Busy # {} /\ Busy' = {} /\ UNCHANGED <<phase, present, nextId, pausedAt>>
      /\ subs' = [subs EXCEPT ![cur].next = NextFire(prev, subs[cur].dt, at)]
  BY DEF Store, Busy, InCall
<1>2. \A s \in SubIds : /\ subs'[s].active = subs[s].active /\ subs'[s].tag = subs[s].tag
                        /\ subs'[s].paused = subs[s].paused
  BY <1>1 DEF Inv, TypeOK, SubsEntry
<1>3. \A s \in SubIds : StateOf(s)' = StateOf(s)
  BY <1>1, <1>2 DEF StateOf
<1> QED BY <1>1, <1>2, <1>3 DEF Interface!Keep, Busy, InCall

\* stop() is the abstract one.
LEMMA RefineStopClear ==
  ASSUME Inv, StopClear
  PROVE  Interface!Stop
<1>1. /\ Busy = {} /\ Busy' = {} /\ UNCHANGED pausedAt
      /\ phase' = "stopped" /\ present' = {} /\ subs' = [s \in SubIds |-> Blank]
  BY DEF StopClear, workerVars, Busy, InCall
<1>2. \A s \in SubIds : StateOf(s)' = "gone" /\ subs'[s].tag = NoTag
  BY <1>1 DEF StateOf, Blank
<1> QED BY <1>1, <1>2 DEF Interface!Stop, Busy, InCall

\* The initial states of the audio clock are initial states of the interface.
LEMMA RefineInit == Init => Interface!Init
BY DEF Init, Interface!Init, StateOf, Blank, SubIds, NotPaused

\* And each of its steps is a step of the interface or a stuttering step.
LEMMA RefineNext == Inv /\ [Next]_vars => [Interface!Next]_(Interface!vars)
<1> SUFFICES ASSUME Inv, [Next]_vars PROVE [Interface!Next]_(Interface!vars)
  OBVIOUS
<1>1. ASSUME NEW t \in Threads, Call(t) PROVE [Interface!Next]_(Interface!vars)
  <2>1. CASE \E dt \in Dts, tag \in Tags, first \in Firsts : Subscribe(t, dt, tag, first)
    BY <2>1, RefineSubscribe DEF Interface!Next
  <2>2. CASE \E s \in SubIds : Unsubscribe(t, s)
    BY <2>2, RefineUnsubscribe DEF Interface!Next
  <2>3. CASE \E s \in SubIds, dt \in Dts : UpdateDt(t, s, dt)
    <3>1. PICK s \in SubIds, dt \in Dts : UpdateDt(t, s, dt)
      BY <2>3
    <3>2. \A r \in SubIds : /\ subs'[r].tag = subs[r].tag /\ subs'[r].active = subs[r].active
                            /\ subs'[r].paused = subs[r].paused
      BY <3>1 DEF UpdateDt, Inv, TypeOK
    <3> QED BY <3>1, <3>2, Stutter DEF UpdateDt, workerVars, Busy, InCall, StateOf
  <2>4. CASE \E n \in Names : PauseProcess(t, n)
    BY <2>4, RefinePause DEF Interface!Next
  <2>5. CASE \E n \in Names : ResumeProcess(t, n)
    BY <2>5, RefineResume DEF Interface!Next
  <2> QED BY <1>1, <2>1, <2>2, <2>3, <2>4, <2>5 DEF Call
<1>2. CASE MainLock \/ MainUnlock \/ SetUpDone \/ Stop \/ Time
  BY <1>2, Stutter DEF Inv, Control, MainLock, MainUnlock, SetUpDone, Stop, Time, workerVars,
     Busy, InCall, StateOf
<1>3. CASE StopClear
  BY <1>3, RefineStopClear DEF Interface!Next
<1>4. CASE WorkerStep
  <2>1. CASE Collect \/ WorkerExit \/ Skip \/ BatchEnds
    BY <2>1, Stutter DEF Collect, WorkerExit, Skip, BatchEnds, Busy, InCall, StateOf
  <2>2. CASE CallbackLock \/ \E keep \in BOOLEAN : CallbackReturn(keep)
    BY <2>2, Stutter DEF CallbackLock, CallbackReturn, Busy, InCall, StateOf
  <2>3. CASE Begin
    BY <2>3, RefineBegin DEF Interface!Next
  <2>4. CASE Erase
    BY <2>4, RefineErase DEF Interface!Next
  <2>5. CASE Store
    BY <2>5, RefineStore DEF Interface!Next
  <2> QED BY <1>4, <2>1, <2>2, <2>3, <2>4, <2>5 DEF WorkerStep
<1>5. CASE UNCHANGED vars
  BY <1>5, Stutter DEF vars, workerVars, Busy, InCall, StateOf
<1> QED BY <1>1, <1>2, <1>3, <1>4, <1>5 DEF Next

\* audio_clock_scheduler implements the interface the evaluator programs
\* against, as sys_clock_scheduler does: a callback begins only for a
\* subscription that is live at that moment, though it was collected earlier.
THEOREM Implementation == Spec => ImplementsTickSource
<1>1. Init => Interface!Init
  BY RefineInit
<1>2. Inv /\ [Next]_vars => [Interface!Next]_(Interface!vars)
  BY RefineNext
<1> QED BY <1>1, <1>2, Invariance, PTL DEF Spec, ImplementsTickSource, Interface!Spec

=============================================================================
