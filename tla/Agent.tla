------------------------------- MODULE Agent -------------------------------
(***************************************************************************)
(* Management requests to the core, src/router_core/agent.c and            *)
(* management_agent.c: the I/O thread that receives a request turns it     *)
(* into an action of the core thread; the core answers by queueing the     *)
(* query for a timer callback; the callback replies, or has the core add   *)
(* another row.  Requests of several clients overlap, and the table that   *)
(* they read and change (the core's list of links, addresses, link routes  *)
(* and so on) changes between the rows of a query.                         *)
(***************************************************************************)
EXTENDS Integers, Sequences, SequencesExt, FiniteSetsExt

CONSTANTS AgConfigs,    \* the requests of a behaviour and the rows there are at first
          MaxTable      \* at most so many rows

VARIABLES
  agcf,     \* one of AgConfigs: reqs, a sequence of requests, rows, and which of them are routers
  agtable,  \* the list in the core
  agclosed, \* connections that management has closed and that are not gone yet
  agused,   \* the rows that have been in it: what is created later is another row
  agq,      \* for each request its query (qdr_query_t) and the client's view of it
  agcore,   \* the core's actions that concern queries, and whether the core is about to start the
            \* timer
  agout,    \* outgoing_query_list
  agtimer,  \* the timer is scheduled
  agh       \* qdr_agent_response_handler: where it is, the query at hand, more and done

agvars == <<agcf, agtable, agclosed, agused, agq, agcore, agout, agtimer, agh>>

AgReqs == DOMAIN agcf.reqs
NoRow == 0

(***************************************************************************)
(* What the core does with a request that is not a query: an answer or     *)
(* none, whether it succeeds, the table afterwards and the connections     *)
(* that it closes.  The requests of a behaviour name one table.            *)
(***************************************************************************)
NoAnswer(t) == [answer |-> FALSE, ok |-> FALSE, t |-> t, closes |-> {}]
Verdict(t, ok) == [answer |-> TRUE, ok |-> ok, t |-> t, closes |-> {}]

\* The object that a request names by its identity or its name.
Found(t, req) == req.by # "nothing" /\ req.row \in ToSet(t)

qdra_address_get_CT(t, req) == Verdict(t, Found(t, req))
qdra_connection_get_CT(t, req) == Verdict(t, req.by = "identity" /\ Found(t, req))
qdra_config_address_get_CT(t, req) == Verdict(t, Found(t, req))

qdr_agent_forbidden(t) == Verdict(t, FALSE)

\* A type that is not named in the switch of an operation has its query dropped.
qdr_manage_read_CT(t, req) ==
    CASE req.type = "link" -> NoAnswer(t)
      [] req.type \in {"router", "console"} -> qdr_agent_forbidden(t)
      [] req.type = "address" -> qdra_address_get_CT(t, req)
      [] req.type = "connection" -> qdra_connection_get_CT(t, req)
      [] OTHER -> qdra_config_address_get_CT(t, req)

\* Refused for a name that is taken and for a body that says too little or too much.
qdra_config_address_create_CT(t, req) ==
    IF Found(t, req) \/ ~req.good \/ Len(t) >= MaxTable THEN Verdict(t, FALSE)
    ELSE Verdict(Append(t, req.row), TRUE)

qdr_manage_create_CT(t, req) ==
    CASE req.type \in {"connection", "link", "address"} -> NoAnswer(t)
      [] req.type \in {"router", "console"} -> qdr_agent_forbidden(t)
      [] OTHER -> qdra_config_address_create_CT(t, req)

qdra_config_address_delete_CT(t, req) ==
    IF Found(t, req) THEN Verdict(Remove(t, req.row), TRUE) ELSE Verdict(t, FALSE)

qdr_manage_delete_CT(t, req) ==
    CASE req.type \in {"link", "address"} -> NoAnswer(t)
      [] req.type \in {"connection", "router", "console"} -> qdr_agent_forbidden(t)
      [] OTHER -> qdra_config_address_delete_CT(t, req)

qdra_link_update_CT(t, req) == Verdict(t, req.good /\ Found(t, req))

\* Only a connection that is not to another router may be closed, by a client whose own connection
\* is still there and whose policy lets it.
qdra_connection_update_set_status(t, req) ==
    IF req.row \in agcf.routers THEN Verdict(t, FALSE)
    ELSE [Verdict(t, TRUE) EXCEPT !.closes = {req.row}]

qdra_connection_update_CT(t, req) ==
    IF req.by # "identity" \/ ~req.good \/ ~Found(t, req) \/ req.conn \notin ToSet(t)
    THEN Verdict(t, FALSE)
    ELSE qdra_connection_update_set_status(t, req)

qdr_manage_update_CT(t, req) ==
    CASE req.type = "connection" -> qdra_connection_update_CT(t, req)
      [] req.type = "link" -> qdra_link_update_CT(t, req)
      [] req.type = "console" -> qdr_agent_forbidden(t)
      [] OTHER -> NoAnswer(t)

Managed(t, req) ==
    CASE req.op = "READ" -> qdr_manage_read_CT(t, req)
      [] req.op = "CREATE" -> qdr_manage_create_CT(t, req)
      [] req.op = "DELETE" -> qdr_manage_delete_CT(t, req)
      [] req.op = "UPDATE" -> qdr_manage_update_CT(t, req)

\* The switches name the type of this request.
Answers(req) == req.op = "QUERY" \/ Managed(agtable, req).answer

-----------------------------------------------------------------------------
(* A request arrives.                                                       *)

FreshQuery == [live |-> FALSE, replies |-> 0, freed |-> 0, rows |-> <<>>, next |-> 0,
               key |-> NoRow, more |-> FALSE, ok |-> TRUE, current |-> 0,
               broken |-> FALSE, kept |-> {}]

\* qd_can_handle_request, qd_core_agent_query_handler and its siblings, qdr_manage_query and its siblings.
qdr_management_agent_on_message(r) ==
    /\ agq[r] = FreshQuery
    /\ agq' = [agq EXCEPT ![r].live = TRUE]
    /\ agcore' = [agcore EXCEPT !.acts = Append(@, [first |-> TRUE, r |-> r])]
    /\ UNCHANGED <<agtable, agclosed, agout, agtimer, agh>>

-----------------------------------------------------------------------------
(* Rows of a query: t is the table, q the query.                            *)

\* qdr_manage_advance_*_CT: after the row at i
Advance(t, q, i, keyed) ==
    [q EXCEPT !.rows = Append(@, t[i]), !.next = @ + 1, !.more = i < Len(t),
              !.key = IF keyed /\ i < Len(t) THEN t[i + 1] ELSE NoRow]

\* The tables that are lists.
GetFirst(t, q, offset, keyed) ==
    IF offset >= Len(t) THEN [q EXCEPT !.more = FALSE]
    ELSE Advance(t, [q EXCEPT !.next = offset], offset + 1, keyed)

GetNext(t, q) ==
    IF q.next < Len(t) THEN Advance(t, q, q.next + 1, FALSE) ELSE [q EXCEPT !.more = FALSE]

qdra_link_get_first_CT(t, q, offset) == GetFirst(t, q, offset, FALSE)
qdra_link_get_next_CT(t, q) == GetNext(t, q)
qdra_connection_get_first_CT(t, q, offset) == GetFirst(t, q, offset, FALSE)
qdra_connection_get_next_CT(t, q) == GetNext(t, q)
qdra_config_address_get_first_CT(t, q, offset) == GetFirst(t, q, offset, FALSE)
qdra_config_address_get_next_CT(t, q) == GetNext(t, q)
qdra_config_link_route_get_first_CT(t, q, offset) == GetFirst(t, q, offset, FALSE)
qdra_config_link_route_get_next_CT(t, q) == GetNext(t, q)
qdra_config_auto_link_get_first_CT(t, q, offset) == GetFirst(t, q, offset, FALSE)
qdra_config_auto_link_get_next_CT(t, q) == GetNext(t, q)
qdra_conn_link_route_get_first_CT(t, q, offset) == GetFirst(t, q, offset, FALSE)
qdra_conn_link_route_get_next_CT(t, q) == GetNext(t, q)

\* Addresses are found again by their key, or failing that by the offset.
qdra_address_get_first_CT(t, q, offset) == GetFirst(t, q, offset, TRUE)
qdra_address_get_next_CT(t, q) ==
    IF q.key # NoRow /\ q.key \in ToSet(t)
    THEN Advance(t, q, CHOOSE i \in 1..Len(t) : t[i] = q.key, TRUE)
    ELSE IF q.next < Len(t) THEN Advance(t, q, q.next + 1, TRUE)
    ELSE [q EXCEPT !.more = FALSE, !.key = NoRow]

qdra_router_get_first_CT(q, offset) ==
    IF offset >= 1 THEN [q EXCEPT !.more = FALSE] ELSE [q EXCEPT !.rows = <<1>>]

\* kept: the rows that the client will have to be told of if they stay.
qdrh_query_get_first_CT(t, q0, req) ==
    LET q == [q0 EXCEPT !.kept = {t[i] : i \in req.offset + 1..Len(t)}]
    IN  CASE req.type = "router" -> qdra_router_get_first_CT(q0, req.offset)
          [] req.type = "console" -> [q0 EXCEPT !.ok = FALSE]
          [] req.type = "address" -> qdra_address_get_first_CT(t, q, req.offset)
          [] req.type = "link" -> qdra_link_get_first_CT(t, q, req.offset)
          [] req.type = "connection" -> qdra_connection_get_first_CT(t, q, req.offset)
          [] req.type = "config.address" -> qdra_config_address_get_first_CT(t, q, req.offset)
          [] req.type = "config.linkRoute" -> qdra_config_link_route_get_first_CT(t, q, req.offset)
          [] req.type = "config.autoLink" -> qdra_config_auto_link_get_first_CT(t, q, req.offset)
          [] req.type = "conn.linkRoute" -> qdra_conn_link_route_get_first_CT(t, q, req.offset)

qdrh_query_get_next_CT(t, q, req) ==
    CASE req.type = "address" -> qdra_address_get_next_CT(t, q)
      [] req.type = "link" -> qdra_link_get_next_CT(t, q)
      [] req.type = "connection" -> qdra_connection_get_next_CT(t, q)
      [] req.type = "config.address" -> qdra_config_address_get_next_CT(t, q)
      [] req.type = "config.linkRoute" -> qdra_config_link_route_get_next_CT(t, q)
      [] req.type = "config.autoLink" -> qdra_config_auto_link_get_next_CT(t, q)
      [] req.type = "conn.linkRoute" -> qdra_conn_link_route_get_next_CT(t, q)

-----------------------------------------------------------------------------
(* The core thread.                                                         *)

\* What a change of the table does to the queries that are at work: broken says that a row was
\* removed that the query has passed, or from which it was to go on.
Dropped(row) ==
    LET at == CHOOSE i \in 1..Len(agtable) : agtable[i] = row
    IN  [r \in AgReqs |->
            [agq[r] EXCEPT !.kept = @ \ {row},
                           !.broken = @ \/ IF agcf.reqs[r].type = "address" THEN agq[r].key = row
                                           ELSE at <= agq[r].next]]

qdr_agent_enqueue_response_CT(r) ==
    /\ agout' = Append(agout, r)
    /\ agcore' = [acts |-> Tail(agcore.acts), notify |-> agout = <<>>]

\* The actions qdrh_query_get_first, qdrh_query_get_next and the others, done in their order.
AgCoreAct ==
    /\ agcore.acts # <<>> /\ ~agcore.notify
    /\ LET r == Head(agcore.acts).r
           req == agcf.reqs[r]
       IN  \/ /\ req.op = "QUERY"
              /\ qdr_agent_enqueue_response_CT(r)
              /\ agq' = [agq EXCEPT ![r] = IF Head(agcore.acts).first
                                           THEN qdrh_query_get_first_CT(agtable, @, req)
                                           ELSE qdrh_query_get_next_CT(agtable, @, req)]
              /\ UNCHANGED <<agtable, agclosed>>
           \/ /\ req.op # "QUERY" /\ ~Answers(req)
              /\ agcore' = [agcore EXCEPT !.acts = Tail(@)]
              /\ UNCHANGED <<agtable, agclosed, agq, agout>>
           \/ /\ req.op # "QUERY" /\ Answers(req)
              /\ qdr_agent_enqueue_response_CT(r)
              /\ LET res == Managed(agtable, req)
                     gone == ToSet(agtable) \ ToSet(res.t)
                 IN  /\ agtable' = res.t
                     /\ agclosed' = agclosed \cup res.closes
                     /\ agq' = [(IF gone = {} THEN agq ELSE Dropped(req.row)) EXCEPT ![r].ok = res.ok]
    /\ UNCHANGED <<agtimer, agh>>

AgCoreNotify ==
    /\ agcore.notify
    /\ agcore' = [agcore EXCEPT !.notify = FALSE]
    /\ agtimer' = TRUE
    /\ UNCHANGED <<agtable, agclosed, agq, agout, agh>>

\* Links, addresses and connections come and go.
AgTableGrows ==
    /\ Len(agtable) < MaxTable
    /\ \E row \in (1..MaxTable) \ agused :
          /\ \A other \in 1..MaxTable : other \notin agused => row <= other
          /\ agtable' = Append(agtable, row)
    /\ UNCHANGED <<agclosed, agq, agcore, agout, agtimer, agh>>

AgTableShrinks ==
    /\ \E row \in ToSet(agtable) :
          agtable' = Remove(agtable, row) /\ agq' = Dropped(row) /\ agclosed' = agclosed \ {row}
    /\ UNCHANGED <<agcore, agout, agtimer, agh>>

-----------------------------------------------------------------------------
(* The timer callback.                                                      *)

Resting == [at |-> "idle", r |-> 0, more |-> FALSE, done |-> FALSE]

AgTimerFires ==
    /\ agtimer /\ agh.at = "idle"
    /\ agtimer' = FALSE
    /\ agh' = [agh EXCEPT !.at = "loop", !.done = FALSE]
    /\ UNCHANGED <<agtable, agclosed, agq, agcore, agout>>

\* (mutant: one query and no more is taken when the timer fires)
qdr_agent_response_handler_OneOnly ==
    /\ agh.at = "loop"
    /\ agout' = IF agout = <<>> THEN agout ELSE Tail(agout)
    /\ agh' = IF agout = <<>> THEN Resting
              ELSE [at |-> "respond", r |-> Head(agout), more |-> agq[Head(agout)].more,
                    done |-> TRUE]
    /\ UNCHANGED <<agtable, agclosed, agq, agcore, agtimer>>

\* The head of the list is taken; done says that nothing is left.
qdr_agent_response_handler ==
    /\ agh.at = "loop"
    /\ agout' = IF agout = <<>> THEN agout ELSE Tail(agout)
    /\ agh' = IF agout = <<>> THEN Resting
              ELSE [at |-> "respond", r |-> Head(agout), more |-> agq[Head(agout)].more,
                    done |-> Tail(agout) = <<>>]
    /\ UNCHANGED <<agtable, agclosed, agq, agcore, agtimer>>

\* The query goes on: the client has not had as many rows as it wants.
qd_manage_response_handler(q, req, more) ==
    req.op = "QUERY" /\ q.ok /\ more /\ req.count # q.current + 1

AgRespond ==
    /\ agh.at = "respond"
    /\ LET r == agh.r
           q == agq[r]
           counted == IF agcf.reqs[r].op = "QUERY" /\ q.ok /\ agh.more THEN q.current + 1 ELSE q.current
       IN  IF qd_manage_response_handler(q, agcf.reqs[r], agh.more)
           THEN /\ agq' = [agq EXCEPT ![r].current = counted]
                /\ agcore' = [agcore EXCEPT !.acts = Append(@, [first |-> FALSE, r |-> r])]
           ELSE /\ agq' = [agq EXCEPT ![r].current = counted, ![r].replies = @ + 1,
                                      ![r].freed = IF agh.more THEN @ + 1 ELSE @]
                /\ UNCHANGED agcore
    /\ agh' = [agh EXCEPT !.at = "free"]
    /\ UNCHANGED <<agtable, agclosed, agout, agtimer>>

AgFree ==
    /\ agh.at = "free"
    /\ agq' = [agq EXCEPT ![agh.r].freed = IF agh.more THEN @ ELSE @ + 1]
    /\ agh' = IF agh.done THEN Resting ELSE [Resting EXCEPT !.at = "loop"]
    /\ UNCHANGED <<agtable, agclosed, agcore, agout, agtimer>>

-----------------------------------------------------------------------------
AgInit ==
    /\ agcf \in AgConfigs
    /\ agtable = agcf.rows /\ agclosed = {} /\ agused = ToSet(agcf.rows)
    /\ agq = [r \in AgReqs |-> FreshQuery]
    /\ agcore = [acts |-> <<>>, notify |-> FALSE]
    /\ agout = <<>> /\ agtimer = FALSE
    /\ agh = Resting

AgThreads == AgCoreAct \/ AgCoreNotify \/ AgTimerFires \/ qdr_agent_response_handler \/ AgRespond \/ AgFree

AgNext ==
    /\ UNCHANGED agcf
    /\ \/ \E r \in AgReqs : qdr_management_agent_on_message(r)
       \/ AgTableGrows \/ AgTableShrinks
       \/ AgThreads
    /\ agused' = agused \cup ToSet(agtable')

AgCore == (AgCoreAct \/ AgCoreNotify) /\ UNCHANGED agcf /\ agused' = agused \cup ToSet(agtable')
AgTimers ==
    /\ AgTimerFires \/ qdr_agent_response_handler \/ AgRespond \/ AgFree
    /\ UNCHANGED <<agcf, agused>>

\* The core thread and the thread that runs the timers do not stop.
AgFairness == WF_agvars(AgCore) /\ WF_agvars(AgTimers)

AgSpec == AgInit /\ [][AgNext]_agvars /\ AgFairness

-----------------------------------------------------------------------------
(* Properties.                                                              *)

\* A query is freed once, after its reply, and no thread has it any more by then: neither an action
\* of the core nor the list nor the callback (agent.c:73-76, management_agent.c:183-188).
FreedOnce ==
    \A r \in AgReqs :
        /\ agq[r].freed <= 1 /\ agq[r].replies <= 1
        /\ agq[r].freed = 1 =>
              /\ agq[r].replies = 1
              /\ r \notin ToSet(agout)
              /\ \A i \in 1..Len(agcore.acts) : agcore.acts[i].r # r

\* A reply to a query has no row twice, no more rows than were asked for, and, whatever happened to
\* the table meanwhile, every row from the offset on that was there all the time; except when a row
\* was removed before the query's place in the table, or for addresses just there.
RowsComplete ==
    \A r \in AgReqs :
        LET q == agq[r]
            req == agcf.reqs[r]
        IN  /\ IsInjective(q.rows)
            /\ req.count > 0 => Len(q.rows) <= req.count
            /\ q.replies = 1 /\ req.op = "QUERY" /\ ~q.broken /\ q.ok =>
                  \/ q.kept \subseteq ToSet(q.rows)
                  \/ req.count > 0 /\ Len(q.rows) = req.count

AgentSound == FreedOnce /\ RowsComplete

\* Every request that the core's switches name is answered: no wakeup of the callback is lost between
\* the core, which starts the timer only for an empty list, and the callback, which stops when it
\* has emptied it (qdr_agent_enqueue_response_CT, qdr_agent_response_handler).
EveryRequestAnswered ==
    \A r \in 1..2 :
        (r \in AgReqs /\ agq[r].live /\ Answers(agcf.reqs[r]))
            ~> (r \in AgReqs => agq[r].replies = 1)

\* Both: queries live as long as they are used, answers are complete, and every request gets its one.
AgentCorrect == []AgentSound /\ EveryRequestAnswered
=============================================================================
