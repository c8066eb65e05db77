------------------------------- MODULE Timer --------------------------------
(***************************************************************************)
(* The timers of src/timer.c: the list of scheduled timers with the delay  *)
(* of each counted from the one before it, the thread that runs the        *)
(* callbacks without the lock (qd_timer_visit, on the proactor's timeout), *)
(* and the threads that schedule, cancel and free timers meanwhile.        *)
(*                                                                         *)
(* Time is counted from time_base: tm.lag is how far the clock is ahead of *)
(* it.  The timer of a periodic task is scheduled again by its own callback*)
(* (qd_router_timer_handler); every other timer has one thread at a time   *)
(* that schedules, cancels and frees it, and its callback may free it.     *)
(***************************************************************************)
EXTENDS Integers, Sequences, FiniteSets, SequencesExt

CONSTANTS Periodic,     \* timers that their callback schedules again
          Single,       \* timers that are scheduled, cancelled and freed by their owner
          TMConfigs,    \* sets of delays that timers are scheduled with
          MaxLag        \* the clock's lead over time_base is counted up to here

Unset == -1
Timers == Periodic \cup Single

ASSUME TimerAssumption == /\ Periodic \cap Single = {}
                          /\ \A c \in TMConfigs : c \subseteq 0..MaxLag

VARIABLES
  tm,   \* the timers: state, ref_count, delta_time; scheduled_timers; lag; timeout, the
        \* time until the proactor's timeout; running, the timer whose callback runs, "visit"
        \* when callback_thread is set and none runs, else "nobody"
  tmcf, \* the delays in use
  due,  \* the time until each scheduled timer is to fire, as its user counts it
  own   \* what the owner of each timer does: nothing, "cancel" or "free" in a wait, or it
        \* holds the timer no more

tmvars == <<tmcf, tm, due, own>>

FreshTimers ==
    [state |-> [t \in Timers |-> "IDLE"], ref |-> [t \in Timers |-> 1],
     delta |-> [t \in Timers |-> 0], list |-> <<>>, lag |-> 0, timeout |-> Unset,
     running |-> "nobody"]

-----------------------------------------------------------------------------
(* The functions that are called with the lock held.                        *)

\* The sum of the delays of the first n timers of the list.
TimeUntil(s, n) ==
    LET sum[i \in 0..n] == IF i = 0 THEN 0 ELSE sum[i - 1] + s.delta[s.list[i]] IN sum[n]

timer_cancel_LH(s, t) ==
    IF s.state[t] # "SCHEDULED" THEN s
    ELSE LET i == CHOOSE j \in DOMAIN s.list : s.list[j] = t
             later == [s EXCEPT !.list = Remove(@, t), !.state[t] = "IDLE"]
         IN  IF i = Len(s.list) THEN later
             ELSE [later EXCEPT !.delta[s.list[i + 1]] = @ + s.delta[t]]

\* Takes the time since time_base off the delays, from the first timer on.
timer_adjust_now_LH(s) ==
    LET left[i \in 0..Len(s.list)] ==
          IF i = 0 THEN s.lag
          ELSE LET d == s.delta[s.list[i]] IN IF d >= left[i - 1] THEN 0 ELSE left[i - 1] - d
        place == [t \in ToSet(s.list) |-> CHOOSE i \in DOMAIN s.list : s.list[i] = t]
        less(d, l) == IF d >= l THEN d - l ELSE 0
    IN  IF s.lag = 0 THEN s
        ELSE [s EXCEPT !.delta = [t \in Timers |-> IF t \in DOMAIN place
                                                    THEN less(@[t], left[place[t] - 1])
                                                    ELSE @[t]],
                       !.lag = 0]

\* A timer is freed with its last reference.
timer_decref_LH(s, t) == [s EXCEPT !.ref[t] = @ - 1]

qd_server_timeout(s) ==
    IF s.list = <<>> THEN s ELSE [s EXCEPT !.timeout = s.delta[Head(s.list)]]

\* Timer t goes before the first timer that is due later or at the same time.
InsertTimer(s, t, duration) ==
    LET before == Cardinality({n \in DOMAIN s.list : TimeUntil(s, n) < duration})
        own_delta == duration - TimeUntil(s, before)
        placed == [s EXCEPT !.list = InsertAt(@, before + 1, t), !.delta[t] = own_delta]
    IN  IF before = Len(s.list) THEN placed
        ELSE [placed EXCEPT !.delta[s.list[before + 1]] = @ - own_delta]

\* (mutant: the proactor's timeout is left to the thread that runs callbacks even when
\* there is none)
qd_timer_schedule_NoTimeout(s, t, duration) ==
    LET was_scheduled == s.state[t] = "SCHEDULED"
    IN  [InsertTimer(timer_adjust_now_LH(timer_cancel_LH(s, t)), t, duration)
            EXCEPT !.state[t] = "SCHEDULED", !.ref[t] = IF was_scheduled THEN @ ELSE @ + 1]

qd_timer_schedule(s, t, duration) ==
    LET was_scheduled == s.state[t] = "SCHEDULED"
        inserted == [InsertTimer(timer_adjust_now_LH(timer_cancel_LH(s, t)), t, duration)
                       EXCEPT !.state[t] = "SCHEDULED",
                              !.ref[t] = IF was_scheduled THEN @ ELSE @ + 1]
    IN  IF s.running = "nobody" THEN qd_server_timeout(inserted) ELSE inserted

\* What qd_timer_cancel and qd_timer_free do once the callback does not run.
EndCancel(s, t) ==
    LET off == [timer_cancel_LH(s, t) EXCEPT !.state[t] = "IDLE"]
    IN  IF s.state[t] = "SCHEDULED" THEN timer_decref_LH(off, t) ELSE off

EndFree(s, t) ==
    timer_decref_LH([EndCancel(s, t) EXCEPT !.state[t] = "DELETED"], t)

\* qd_timer_visit takes the first timer that is ready and calls its handler, or sets the
\* next timeout and ends.
VisitNext(s) ==
    IF s.list # <<>> /\ s.delta[Head(s.list)] = 0
    THEN LET t == Head(s.list)
         IN  [timer_cancel_LH(s, t) EXCEPT !.state[t] = "RUNNING", !.running = t]
    ELSE [qd_server_timeout(s) EXCEPT !.running = "nobody"]

\* After the handler the list's reference is dropped.  A thread that waits is signalled and
\* sets the state itself.
AfterHandler(s, t) ==
    timer_decref_LH([s EXCEPT !.state[t] = IF @ = "RUNNING" THEN "IDLE" ELSE @,
                              !.running = "visit"], t)

-----------------------------------------------------------------------------
(* The threads.                                                             *)

TMInit ==
    /\ tmcf \in TMConfigs
    /\ tm = FreshTimers
    /\ due = [t \in Timers |-> Unset]
    /\ own = [t \in Timers |-> "holds"]

ScheduleTimer(t) ==
    /\ own[t] = "holds" /\ (t \in Periodic => tm.running # t)
    /\ \E d \in tmcf :
         /\ tm' = qd_timer_schedule(tm, t, d)
         /\ due' = [due EXCEPT ![t] = d]
    /\ UNCHANGED own

\* The owner waits when the callback runs in another thread.
StopTimer(t, how) ==
    /\ own[t] = "holds" /\ t \in Single
    /\ IF tm.state[t] = "RUNNING"
       THEN /\ tm' = [tm EXCEPT !.state[t] = "BLOCKED"]
            /\ own' = [own EXCEPT ![t] = how]
       ELSE /\ tm' = IF how = "cancel" THEN EndCancel(tm, t) ELSE EndFree(tm, t)
            /\ own' = [own EXCEPT ![t] = IF how = "cancel" THEN "holds" ELSE "gone"]
    /\ due' = [due EXCEPT ![t] = Unset]

qd_timer_cancel(t) == StopTimer(t, "cancel")
qd_timer_free(t) == StopTimer(t, "free")

\* The owner has been signalled and holds the lock again.
StopTimerEnds(t) ==
    /\ own[t] \in {"cancel woken", "free woken"}
    /\ tm' = IF own[t] = "cancel woken" THEN EndCancel(tm, t) ELSE EndFree(tm, t)
    /\ own' = [own EXCEPT ![t] = IF @ = "cancel woken" THEN "holds" ELSE "gone"]
    /\ due' = [due EXCEPT ![t] = Unset]

qd_timer_visit ==
    /\ tm.timeout = 0 /\ tm.running = "nobody"
    /\ LET s == VisitNext([timer_adjust_now_LH(tm) EXCEPT !.timeout = Unset, !.running = "visit"])
       IN  /\ tm' = s
           /\ due' = [t \in Timers |-> IF t = s.running THEN Unset ELSE due[t]]
    /\ UNCHANGED own

\* The handler of a periodic timer schedules it again; that of another may free it.
Handler(t) ==
    /\ tm.running = t
    /\ \/ /\ t \in Periodic /\ tm.state[t] = "RUNNING"
          /\ \E d \in tmcf : /\ tm' = qd_timer_schedule(tm, t, d)
                                  /\ due' = [due EXCEPT ![t] = d]
          /\ UNCHANGED own
       \/ /\ t \in Single /\ own[t] = "holds"
          /\ tm' = EndFree(tm, t)
          /\ own' = [own EXCEPT ![t] = "gone"]
          /\ due' = [due EXCEPT ![t] = Unset]

HandlerEnds(t) ==
    /\ tm.running = t
    /\ t \in Periodic => tm.state[t] = "SCHEDULED"
    /\ LET s == VisitNext(AfterHandler(tm, t))
       IN  /\ tm' = s
           /\ due' = [u \in Timers |-> IF u = s.running THEN Unset ELSE due[u]]
    /\ own' = IF tm.state[t] = "BLOCKED"
              THEN [own EXCEPT ![t] = IF @ = "cancel" THEN "cancel woken" ELSE "free woken"]
              ELSE own

CountDown(n) == IF n > 0 THEN n - 1 ELSE n

\* The clock advances; when it is late by more than any delay it no longer matters by how
\* much.
Tick ==
    /\ tm' = [tm EXCEPT !.lag = IF @ < MaxLag THEN @ + 1 ELSE @, !.timeout = CountDown(@)]
    /\ due' = [t \in Timers |-> CountDown(due[t])]
    /\ tm' # tm
    /\ UNCHANGED own

\* The thread that runs the callbacks.  A periodic timer is always scheduled again.
VisitStep ==
    \/ qd_timer_visit
    \/ \E t \in Timers : HandlerEnds(t) \/ (t \in Periodic /\ Handler(t))

TimerLive(t) == tm.ref[t] > 0

OwnerStep(t) ==
    ScheduleTimer(t) \/ qd_timer_cancel(t) \/ qd_timer_free(t) \/ StopTimerEnds(t)
    \/ (t \in Single /\ Handler(t))

TMNext ==
    /\ VisitStep \/ Tick \/ \E t \in Timers : TimerLive(t) /\ OwnerStep(t)
    /\ UNCHANGED tmcf

\* The clock advances, the proactor reports timeouts, and the thread that runs the
\* callbacks goes on.
TMFairness == WF_tmvars(Tick /\ UNCHANGED tmcf) /\ WF_tmvars(VisitStep /\ UNCHANGED tmcf)

TMSpec == TMInit /\ [][TMNext]_tmvars /\ TMFairness

-----------------------------------------------------------------------------
(* Properties.                                                              *)

\* timer.c, "delta_time of the first timer on the queue is measured from timer_base": however
\* timers are inserted, cancelled and adjusted, what the list makes of every scheduled timer
\* is the time its user asked for.
DueExact ==
    \A i \in DOMAIN tm.list :
        LET left == TimeUntil(tm, i) - tm.lag
        IN  due[tm.list[i]] = IF left > 0 THEN left ELSE 0

\* "we can safely free the timer since the callback is not running" (qd_timer_free), and each
\* timer is referenced by its owner, by the list and by the callback's run, and by nothing else.
TimerRefs ==
    \A t \in Timers :
        /\ tm.ref[t] = (IF own[t] = "gone" THEN 0 ELSE 1)
                     + (IF tm.state[t] = "SCHEDULED" THEN 1 ELSE 0)
                     + (IF tm.running = t THEN 1 ELSE 0)
        /\ tm.state[t] = "SCHEDULED" <=> \E i \in DOMAIN tm.list : tm.list[i] = t

\* "qd_timer_visit will itself deal with rescheduling the timers" (qd_timer_schedule): whoever
\* last set the proactor's timeout, every timer whose time has come fires, unless it is stopped
\* or put off.  (A timer that is scheduled again and again without a delay goes to the head of
\* the list each time and keeps the others waiting.)
Overdue(t) == tm.state[t] = "SCHEDULED" /\ due[t] = 0 /\ 0 \notin tmcf

DueTimerFires == \A t \in Timers : Overdue(t) ~> ~Overdue(t)

\* The list of timers tells the time of each, and each is kept as long as it is used.
TimersExact == DueExact /\ TimerRefs

\* Both: timers are kept exactly, and none that is due waits for ever.
TimersCorrect == []TimersExact /\ DueTimerFires
=============================================================================
