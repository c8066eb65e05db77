----------------------------- MODULE Connectors -----------------------------
(***************************************************************************)
(* A connector of src/connection_manager.c and src/server.c: its timer, its*)
(* connection, and its list of failover hosts.  The threads are the one    *)
(* that runs timers (try_open_cb), the I/O thread that handles the events  *)
(* of the connection, and the management thread.  A section that holds the *)
(* connector's lock is a step.  Delays are left out: a scheduled timer is  *)
(* ready at once.                                                          *)
(***************************************************************************)
EXTENDS Integers, Sequences, FiniteSets, SequencesExt

CONSTANTS
  CTConfigs,
    \* [announced : SUBSET Seq(Host), the failover lists a peer may send when it opens;
    \*  errors, deletes, restarts : BOOLEAN, whether connections fail, whether management
    \*  deletes the connector, whether it starts the connection manager again (another
    \*  connector is created)]
  MaxLeaving  \* at most so many threads are in qd_connection_free at a time

ASSUME ConnectorsAssumption == MaxLeaving \in Nat \ {0}

Original == "original"      \* the host of the connector's own configuration

VARIABLES
  ctcf,
  ct,       \* qd_connector_t; stopped says which of its asserts has failed
  cn,       \* its qd_connection_t: what the I/O thread has seen of it, the host it was
            \* opened to, whether a call is deferred to its thread
  leaving,  \* the freed connections whose reference to the connector is not dropped yet
  ctm,      \* the timers
  opening,  \* the timer's callback is before the connector's lock
  mgmt      \* where the management thread is in deleting the connector

ctvars == <<ctcf, ct, cn, leaving, ctm, opening, mgmt>>

LOCAL T == INSTANCE Timer WITH Periodic <- {}, Single <- {"timer"}, TMConfigs <- {{0}},
                               MaxLag <- 0, tm <- ctm, tmcf <- {0}, due <- <<>>, own <- <<>>

Item(host) == [host |-> host, retries |-> 0]

CTInit ==
    /\ ctcf \in CTConfigs
    /\ ct = [state |-> "INIT", qd_conn |-> FALSE, timer |-> TRUE, ref |-> 1, index |-> 1,
             list |-> <<Item(Original)>>, stopped |-> ""]
    /\ cn = [phase |-> "none", host |-> Original, deferred |-> FALSE]
    /\ leaving = 0
    /\ ctm = T!FreshTimers
    /\ opening = FALSE
    /\ mgmt = "idle"

Alive == ct.stopped = "" /\ ct.ref > 0 /\ UNCHANGED ctcf

-----------------------------------------------------------------------------
(* The list of hosts.                                                       *)

\* qd_connector_get_conn_info, as an index
Current(c) == IF Len(c.list) > 1 THEN c.index ELSE 1

\* A host is tried twice before the next, and after the last comes the first again.
qd_increment_conn_index(c) ==
    LET i == Current(c)
    IN  IF c.list[i].retries = 1
        THEN [c EXCEPT !.list[i].retries = 0,
                       !.index = IF @ + 1 > Len(c.list) THEN 1 ELSE @ + 1]
        ELSE [c EXCEPT !.list[i].retries = @ + 1]

\* Only the first host and the one in use stay.
save_original_and_current_conn_info(c) ==
    IF Len(c.list) = 1 THEN c
    ELSE [c EXCEPT !.list = IF c.index = 1 THEN <<@[1]>> ELSE <<@[1], @[c.index]>>,
                   !.index = @ - Cardinality({i \in DOMAIN c.list : 1 < i /\ i < c.index})]

\* A host is added unless the list has it already; to a list of one it is always added.
AddHost(c, host) ==
    IF Len(c.list) = 1 \/ \A i \in DOMAIN c.list : c.list[i].host # host
    THEN [c EXCEPT !.list = Append(@, Item(host))]
    ELSE c

parse_failover_property_list(c, hosts) ==
    FoldLeft(AddHost, save_original_and_current_conn_info(c), hosts)

-----------------------------------------------------------------------------
(* The thread of the timers.                                                *)

qd_connector_connect(c) == [c EXCEPT !.qd_conn = FALSE, !.state = "CONNECTING",
                                     !.stopped = IF c.qd_conn THEN "already connected" ELSE ""]

Scheduled(s) == T!qd_timer_schedule(s, "timer", 0)

\* The proactor's timeout: the callback begins and takes the lock later.
TimerFires ==
    /\ Alive /\ ctm.timeout = 0 /\ ctm.running = "nobody"
    /\ ctm' = T!VisitNext([ctm EXCEPT !.timeout = T!Unset, !.running = "visit"])
    /\ opening' = (ctm'.running = "timer")
    /\ UNCHANGED <<leaving, ct, cn, mgmt>>

try_open_lh(c) == [c EXCEPT !.state = "OPEN", !.qd_conn = TRUE, !.ref = @ + 1]

try_open_cb ==
    /\ Alive /\ opening
    /\ opening' = FALSE
    /\ IF ct.state \in {"CONNECTING", "INIT"}
       THEN /\ ct' = try_open_lh(ct)
            /\ cn' = [phase |-> "connecting", host |-> ct.list[Current(ct)].host,
                      deferred |-> FALSE]
       ELSE UNCHANGED <<ct, cn>>
    /\ UNCHANGED <<leaving, ctm, mgmt>>

CallbackEnds ==
    /\ Alive /\ ctm.running = "timer" /\ ~opening
    /\ ctm' = T!VisitNext(T!AfterHandler(ctm, "timer"))
    /\ mgmt' = IF mgmt = "waits" THEN "woken" ELSE mgmt
    /\ opening' = (ctm'.running = "timer")
    /\ UNCHANGED <<leaving, ct, cn>>

-----------------------------------------------------------------------------
(* The I/O thread: the events of the connection, one at a time.             *)

\* PN_CONNECTION_REMOTE_OPEN, through AMQP_opened_handler.  A peer need not send a list.
RemoteOpen ==
    /\ Alive /\ cn.phase = "connecting"
    /\ cn' = [cn EXCEPT !.phase = "open"]
    /\ LET opened == [ct EXCEPT !.list[Current(ct)].retries = 0]
       IN  \/ ct' = opened
           \/ \E hosts \in ctcf.announced : ct' = parse_failover_property_list(opened, hosts)
    /\ UNCHANGED <<leaving, ctm, opening, mgmt>>

\* PN_TRANSPORT_ERROR: without the connector's lock, whatever the state was, DELETED included.
TransportError ==
    /\ Alive /\ ctcf.errors /\ cn.phase \in {"connecting", "open", "closing"}
    /\ cn' = [cn EXCEPT !.phase = "failed"]
    /\ ct' = [qd_increment_conn_index(ct) EXCEPT !.state = "FAILED"]
    /\ UNCHANGED <<leaving, ctm, opening, mgmt>>

\* The peer closes, or PN_CONNECTION_WAKE runs the call that management has deferred.
Closing ==
    /\ Alive
    /\ cn.phase = "open" \/ (cn.deferred /\ cn.phase = "connecting")
    /\ cn' = [cn EXCEPT !.phase = "closing", !.deferred = FALSE]
    /\ UNCHANGED <<leaving, ct, ctm, opening, mgmt>>

\* PN_TRANSPORT_CLOSED: qd_connection_free, the part with the connector's lock.  The timer of
\* a deleted connector is a null pointer, which qd_timer_schedule reads.
qd_connection_free ==
    /\ Alive /\ cn.phase \in {"failed", "closing"} /\ leaving < MaxLeaving
    /\ cn' = [cn EXCEPT !.phase = "none", !.deferred = FALSE]
    /\ leaving' = leaving + 1
    /\ LET loose == [ct EXCEPT !.qd_conn = FALSE]
       IN  IF ct.state = "DELETED"
           THEN ct' = loose /\ UNCHANGED ctm
           ELSE /\ ct' = [loose EXCEPT !.state = "CONNECTING",
                                        !.stopped = IF ct.timer THEN "" ELSE "no timer"]
                /\ ctm' = IF ct.timer THEN Scheduled(ctm) ELSE ctm
    /\ UNCHANGED <<opening, mgmt>>

qd_connector_decref(c) == [c EXCEPT !.ref = @ - 1]

\* The connection's reference is dropped after the lock.
\* (mutant: the connection keeps its reference)
ConnectionGone_KeepsRef ==
    /\ Alive /\ leaving > 0
    /\ leaving' = leaving - 1
    /\ UNCHANGED <<ct, cn, ctm, opening, mgmt>>

ConnectionGone ==
    /\ Alive /\ leaving > 0
    /\ leaving' = leaving - 1
    /\ ct' = qd_connector_decref(ct)
    /\ UNCHANGED <<cn, ctm, opening, mgmt>>

-----------------------------------------------------------------------------
(* The management thread.                                                   *)

\* Connectors that are neither open nor connecting are connected.
qd_connection_manager_start ==
    /\ Alive /\ mgmt = "idle"
    /\ ct.state = "INIT" \/ ctcf.restarts
    /\ ct.state \notin {"OPEN", "CONNECTING"}
    /\ ct' = qd_connector_connect(ct)
    /\ ctm' = Scheduled(ctm)
    /\ UNCHANGED <<leaving, cn, opening, mgmt>>

\* Deletion, the part with the connector's lock.
qd_connection_manager_delete_connector ==
    /\ Alive /\ ctcf.deletes /\ mgmt = "idle"
    /\ ct' = [ct EXCEPT !.timer = FALSE, !.state = "DELETED"]
    /\ cn' = IF ct.qd_conn THEN [cn EXCEPT !.deferred = TRUE] ELSE cn
    /\ mgmt' = "frees timer"
    /\ UNCHANGED <<leaving, ctm, opening>>

\* qd_timer_free, which may have to wait for the callback.
DeleteTimer ==
    /\ Alive
    /\ \/ /\ mgmt = "frees timer" /\ ctm.state["timer"] = "RUNNING"
          /\ ctm' = [ctm EXCEPT !.state["timer"] = "BLOCKED"]
          /\ mgmt' = "waits"
       \/ /\ (mgmt = "frees timer" /\ ctm.state["timer"] # "RUNNING") \/ mgmt = "woken"
          /\ ctm' = T!EndFree(ctm, "timer")
          /\ mgmt' = "timer freed"
    /\ UNCHANGED <<leaving, ct, cn, opening>>

DeleteEnds ==
    /\ Alive /\ mgmt = "timer freed"
    /\ ct' = qd_connector_decref(ct)
    /\ mgmt' = "done"
    /\ UNCHANGED <<leaving, cn, ctm, opening>>

-----------------------------------------------------------------------------
TimerThread == TimerFires \/ try_open_cb \/ CallbackEnds
Attempt == cn.phase = "connecting" /\ (RemoteOpen \/ TransportError)
ConnectionEnds == qd_connection_free \/ ConnectionGone \/ (cn.deferred /\ Closing)
DeleteGoesOn == DeleteTimer \/ DeleteEnds

CTNext ==
    \/ TimerThread
    \/ RemoteOpen \/ TransportError \/ Closing \/ qd_connection_free \/ ConnectionGone
    \/ qd_connection_manager_start \/ qd_connection_manager_delete_connector \/ DeleteGoesOn

\* The threads go on, an attempt to connect either succeeds or fails, and a peer answers a
\* close.
CTFairness ==
    /\ WF_ctvars(TimerThread) /\ WF_ctvars(Attempt)
    /\ WF_ctvars(ConnectionEnds) /\ WF_ctvars(DeleteGoesOn)
    /\ WF_ctvars(qd_connection_manager_start)

CTSpec == CTInit /\ [][CTNext]_ctvars /\ CTFairness

-----------------------------------------------------------------------------
(* Properties.                                                              *)

\* qd_increment_conn_index counts on it that conn_index names the host that is connected to:
\* it does, however lists of hosts that peers send replace one another in
\* parse_failover_property_list.
IndexNamesHost ==
    cn.phase \in {"connecting", "open"} => ct.list[Current(ct)].host = cn.host

\* "cannot free the timer while holding ct->lock since the timer callback may be running"
\* (qd_connection_manager_delete_connector): while the callback is to look at the connector,
\* and while a connection refers to it, it is not freed.
NotFreedInUse == opening \/ cn.phase # "none" \/ leaving > 0 => ct.ref > 0

\* "Go thru the failover list round robin" (qd_connection_free): as long as no connection
\* succeeds, a connector that has been started tries each host of the list again and again.
EveryHostTried ==
    \A h \in UNION {ToSet(hosts) : hosts \in UNION {c.announced : c \in CTConfigs}} \cup {Original} :
        []<>(\/ ct.state = "INIT" \/ mgmt # "idle" \/ cn.phase = "open"
             \/ \A i \in DOMAIN ct.list : ct.list[i].host # h
             \/ cn.phase = "connecting" /\ cn.host = h)

\* A deleted connector is freed, once its connection is closed, whatever of the timer, the
\* callback and the connection's events came first, with one exception: a transport error
\* after the deletion writes FAILED over DELETED, and the connection's end then schedules the
\* timer that the deletion has taken away.
DeletedIsFreed == ct.state = "DELETED" ~> ct.ref = 0 \/ ct.state = "FAILED"

\* Only a deletion takes the timer away: until then a connection's end finds it, and after a
\* deletion that no transport error follows it does not look for it.
TimerFound == ct.stopped = "no timer" => mgmt # "idle" /\ ct.state # "DELETED"

\* qd_connector_connect, "expect: do not attempt to connect an already connected
\* qd_connection".
NotAlreadyConnected == ct.stopped # "already connected"

\* What refers to a connector, and what the connector refers to, is there.
ConnectorSound == IndexNamesHost /\ NotFreedInUse /\ TimerFound

\* A connector tries its hosts until it is deleted, and is freed then unless a transport error
\* undoes the deletion.
ConnectorGoesOn == EveryHostTried /\ DeletedIsFreed

\* Both: connectors are never freed in use, and never given up.
ConnectorCorrect == []ConnectorSound /\ ConnectorGoesOn
=============================================================================
