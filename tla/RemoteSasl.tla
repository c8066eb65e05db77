----------------------------- MODULE RemoteSasl -----------------------------
(***************************************************************************)
(* The relay that lets an authentication service decide whether a client   *)
(* may connect (src/remote_sasl.c).  A listener's connection, "upstream",  *)
(* hands every SASL frame of its client to a second connection,            *)
(* "downstream", which the router opens to the service, and back.  The two *)
(* connections are served by different threads; they share one relay       *)
(* context, whose fields are read and written without its lock (the lock   *)
(* only decides which side deletes the context).                           *)
(*                                                                         *)
(* Proton's SASL layer, the client and the service are external: the layer *)
(* calls prepare when a connection is woken, the client and the service    *)
(* take turns as SASL prescribes, the service may drop the connection.     *)
(***************************************************************************)
EXTENDS Integers, Sequences, FiniteSets, SequencesExt

CONSTANT RsConfigs
(* Records [rounds : challenges at most,                                   *)
(*          grants : sets of permission maps, as sequences of entries      *)
(*                   [addr, size, perms] whose perms are a sequence,       *)
(*          drops  : may the service drop the connection,                  *)
(*          leaves : may the client go away]                               *)

VARIABLES rscfg, rs

rsvars == <<rscfg, rs>>

Word(kind, n) == [kind |-> kind, n |-> n]

NoBuffer == [start |-> FALSE, capacity |-> 0, used |-> 0, list |-> <<>>]

new_qdr_sasl_relay_t ==
  [ impl |-> "live", down |-> "none", downReleased |-> FALSE, upReleased |-> FALSE,
    downState |-> "0", upState |-> "0", mechlist |-> FALSE, response |-> 0,
    challenge |-> 0, complete |-> FALSE, outcome |-> "none", username |-> FALSE,
    targets |-> NoBuffer, sources |-> NoBuffer,
    readUp |-> "none", readDown |-> "none", notifyUp |-> "none", notifyDown |-> "none",
    lost |-> FALSE,    \* a state was overwritten before it was read
    up |-> "up", granted |-> <<>>, policy |-> [set |-> FALSE],
    toClient |-> <<>>, fromService |-> <<>>,
    toService |-> <<>>, fromClient |-> <<>> ]

(***************************************************************************)
(* The permissions the service grants with its open frame: one pass over   *)
(* the map computes the sizes of two comma separated lists, a second pass  *)
(* fills them.                                                             *)
(***************************************************************************)
EntryAddr(e) == [addr |-> e.addr, size |-> e.size]

(* The calls of the handler for one kind of permission, in map order.      *)
parse_permissions(map, perm) ==
  FoldLeft(LAMBDA acc, e :
             acc \o [i \in 1 .. Len(SelectSeq(e.perms, LAMBDA p : p = perm)) |-> EntryAddr(e)],
           <<>>, map)

compute_required_size(calls) == FoldLeft(LAMBDA n, a : n + a.size + 1, 0, calls)

append(buffer, a) ==
  IF buffer.capacity > a.size + buffer.used
  THEN [buffer EXCEPT !.used = @ + a.size + (IF @ > 0 THEN 1 ELSE 0),
                      !.list = Append(@, a.addr)]
  ELSE buffer

allocate_buffer(capacity) ==
  [start |-> TRUE, capacity |-> IF capacity = 0 THEN 1 ELSE capacity, used |-> 0, list |-> <<>>]

collect_permissions(map, perm) ==
  LET calls == parse_permissions(map, perm)
  IN FoldLeft(LAMBDA b, a : append(b, a), allocate_buffer(compute_required_size(calls)), calls)

set_policy_settings(s) ==
  IF s.targets.start \/ s.sources.start
  THEN [s EXCEPT !.policy = [set |-> TRUE, targets |-> s.targets.list, sources |-> s.sources.list]]
  ELSE s

(***************************************************************************)
(* Notifications.  The check of "released" is one step, the write of the   *)
(* state and the wake another: nothing protects them from the steps of the *)
(* other side, which may be gone when it is woken (nobody hears it then).  *)
(***************************************************************************)
notify_upstream(s, state) == IF s.upReleased THEN s ELSE [s EXCEPT !.notifyUp = state]

notify_downstream(s, state) ==
  IF ~s.downReleased /\ s.down # "none" THEN [s EXCEPT !.notifyDown = state] ELSE s

WakeUpstream(s) == [s EXCEPT !.upState = s.notifyUp, !.notifyUp = "none"]

WakeDownstream(s) == [s EXCEPT !.downState = s.notifyDown, !.notifyDown = "none"]

(* SASL_ERROR, or a closed head and tail: proton ends the connection.      *)
ErrorUnlessNotified(s, t) == IF s.upReleased THEN [t EXCEPT !.down = "closing"] ELSE t

(***************************************************************************)
(* Upstream.                                                               *)
(***************************************************************************)
remote_sasl_init_server(s) == [s EXCEPT !.down = "connecting"]

remote_sasl_process_init(s) ==
  LET t == [s EXCEPT !.response = 1, !.fromClient = <<1>>]
  IN IF s.downReleased THEN [t EXCEPT !.up = "closing"]
                       ELSE notify_downstream(t, "UPSTREAM_INIT_RECEIVED")

remote_sasl_process_response(s) ==
  LET t == [s EXCEPT !.response = @ + 1, !.fromClient = Append(@, s.response + 1)]
  IN IF s.downReleased THEN [t EXCEPT !.up = "closing"]
                       ELSE notify_downstream(t, "UPSTREAM_RESPONSE_RECEIVED")

(* remote_sasl_prepare, server side: what the state that was read posts.   *)
PrepareServer(s, state) ==
  CASE state = "DOWNSTREAM_MECHANISMS_RECEIVED" /\ s.mechlist ->
         [s EXCEPT !.toClient = Append(@, Word("mechanisms", 0))]
    [] state = "DOWNSTREAM_CHALLENGE_RECEIVED" ->
         [s EXCEPT !.toClient = Append(@, Word("challenge", s.challenge))]
    [] state = "DOWNSTREAM_OUTCOME_RECEIVED" /\ s.outcome = "ok" ->
         [set_policy_settings(s) EXCEPT !.toClient = Append(@, Word("ok", 0))]
    [] state = "DOWNSTREAM_OUTCOME_RECEIVED" /\ s.outcome # "ok" ->
         [s EXCEPT !.toClient = Append(@, Word("fail", 0))]
    [] state = "DOWNSTREAM_CLOSED" ->
         [s EXCEPT !.toClient = Append(@, Word("fail", 0))]
    [] OTHER -> s

(***************************************************************************)
(* Downstream.                                                             *)
(***************************************************************************)
PrepareClient(s) ==
  [s EXCEPT !.toService = IF s.downState = "0" THEN @ ELSE Append(@, s.response)]

remote_sasl_process_mechanisms(s) ==
  ErrorUnlessNotified(s, notify_upstream([s EXCEPT !.mechlist = TRUE,
                                                   !.fromService = <<Word("mechanisms", 0)>>],
                                         "DOWNSTREAM_MECHANISMS_RECEIVED"))

remote_sasl_process_challenge(s) ==
  ErrorUnlessNotified(s, notify_upstream([s EXCEPT !.challenge = @ + 1,
                                                   !.fromService = Append(@, Word("challenge", s.challenge + 1))],
                                         "DOWNSTREAM_CHALLENGE_RECEIVED"))

remote_sasl_process_outcome(s, outcome) ==
  LET t == [s EXCEPT !.outcome = outcome, !.complete = TRUE,
                     !.fromService = Append(@, Word(outcome, 0))]
  IN IF outcome # "ok" THEN ErrorUnlessNotified(s, notify_upstream(t, "DOWNSTREAM_OUTCOME_RECEIVED"))
                       ELSE t

(* PN_CONNECTION_REMOTE_OPEN.                                              *)
OnRemoteOpenAuth(s, map) ==
  LET t == [s EXCEPT !.targets = IF map = <<>> THEN @ ELSE collect_permissions(map, "send"),
                     !.sources = IF map = <<>> THEN @ ELSE collect_permissions(map, "recv"),
                     !.username = TRUE, !.granted = map, !.down = "closing"]
  IN notify_upstream(t, "DOWNSTREAM_OUTCOME_RECEIVED")

(* PN_TRANSPORT_CLOSED.                                                    *)
OnTransportClosedAuth_Silent(s) == [s EXCEPT !.down = "closed"]

OnTransportClosedAuth(s) ==
  LET t == [s EXCEPT !.down = "closed"]
  IN IF s.complete THEN t ELSE notify_upstream(t, "DOWNSTREAM_CLOSED")

(***************************************************************************)
(* The end of either side.                                                 *)
(***************************************************************************)

delete_on_downstream_freed(s) ==
  [s EXCEPT !.downReleased = TRUE, !.impl = IF s.upReleased THEN "deleted" ELSE @]

delete_on_upstream_freed(s) ==
  [s EXCEPT !.upReleased = TRUE,
            !.impl = IF s.downReleased \/ s.down = "none" THEN "deleted" ELSE @]

-----------------------------------------------------------------------------
RsInit == /\ rscfg \in RsConfigs
          /\ rs = new_qdr_sasl_relay_t

RsStep(s) == rs' = s /\ UNCHANGED rscfg

(* A thread that is inside a handler finishes it before its next event.    *)
DownFree == rs.notifyUp = "none" /\ rs.readDown = "none"
UpFree == rs.up = "up" /\ rs.notifyDown = "none" /\ rs.readUp = "none"
Running == rs.down = "running" /\ DownFree

Told(c) == rs.toClient # <<>> /\ Last(rs.toClient).kind = c
Answered == Told("ok") \/ Told("fail")

InitServer == rs.up = "up" /\ rs.down = "none" /\ RsStep(remote_sasl_init_server(rs))

(* PN_CONNECTION_BOUND: the transport shares the context.                  *)
ServiceBound == rs.down = "connecting" /\ RsStep([rs EXCEPT !.down = "running"])

ServiceMechanisms == /\ Running /\ rs.fromService = <<>>
                     /\ RsStep(remote_sasl_process_mechanisms(rs))

(* The service answers each init or response once it has it.               *)
ServicesTurn == /\ rs.fromService # <<>> /\ rs.outcome = "none"
                /\ Len(rs.toService) = Len(rs.fromService)

ServiceChallenge == /\ Running /\ ServicesTurn /\ rs.challenge < rscfg.rounds
                    /\ RsStep(remote_sasl_process_challenge(rs))

ServiceOutcome(o) == Running /\ ServicesTurn /\ RsStep(remote_sasl_process_outcome(rs, o))

ServiceOpen(map) == /\ Running /\ rs.outcome = "ok"
                    /\ RsStep(OnRemoteOpenAuth(rs, map))

(* A failed exchange ends the service's connection as well.                *)
ServiceDrops == /\ rs.down \in {"connecting", "running"} /\ DownFree
                /\ rs.outcome = "fail" \/ rscfg.drops
                /\ RsStep([rs EXCEPT !.down = "closing"])

DownClosed == rs.down = "closing" /\ DownFree /\ RsStep(OnTransportClosedAuth(rs))

DownFreed == /\ rs.down = "closed" /\ ~rs.downReleased /\ DownFree
             /\ RsStep(delete_on_downstream_freed(rs))

FinishNotify == \/ rs.notifyUp # "none" /\ RsStep(WakeUpstream(rs))
                \/ rs.notifyDown # "none" /\ RsStep(WakeDownstream(rs))

ClientsTurn == rs.toClient # <<>> /\ ~Answered /\ Len(rs.fromClient) < Len(rs.toClient)

ClientInit == /\ UpFree /\ ClientsTurn /\ rs.fromClient = <<>>
              /\ RsStep(remote_sasl_process_init(rs))

ClientResponse == /\ UpFree /\ ClientsTurn /\ rs.fromClient # <<>>
                  /\ RsStep(remote_sasl_process_response(rs))

(* prepare reads the state and posts what it asks for, then resets it; the *)
(* SASL layer may call it, until the outcome, when nothing is to be read.  *)
PrepareUpstream == /\ UpFree /\ ~Answered
                   /\ RsStep([PrepareServer(rs, rs.upState) EXCEPT !.readUp = rs.upState])

PrepareDownstream == /\ Running /\ rs.outcome = "none"
                     /\ RsStep([PrepareClient(rs) EXCEPT !.readDown = rs.downState])

ResetUpstream == /\ rs.readUp # "none"
                 /\ RsStep([rs EXCEPT !.readUp = "none", !.upState = "0",
                                      !.lost = @ \/ rs.upState # rs.readUp])

ResetDownstream == /\ rs.readDown # "none"
                   /\ RsStep([rs EXCEPT !.readDown = "none", !.downState = "0",
                                        !.lost = @ \/ rs.downState # rs.readDown])

UpFreed == RsStep([delete_on_upstream_freed(rs) EXCEPT !.up = "gone"])

UpClosed == /\ rs.up = "closing" \/ (rs.up = "up" /\ Told("fail"))
            /\ rs.readUp = "none" /\ rs.notifyDown = "none" /\ UpFreed

ClientLeaves == rscfg.leaves /\ UpFree /\ UpFreed

RsNext ==
  \/ InitServer \/ ServiceBound \/ ServiceMechanisms \/ ServiceChallenge
  \/ \E o \in {"ok", "fail"} : ServiceOutcome(o)
  \/ \E map \in rscfg.grants : ServiceOpen(map)
  \/ ServiceDrops \/ DownClosed \/ DownFreed \/ FinishNotify
  \/ ClientInit \/ ClientResponse
  \/ PrepareUpstream \/ ResetUpstream
  \/ PrepareDownstream \/ ResetDownstream \/ UpClosed \/ ClientLeaves

(* Proton runs what it was woken for, and calls of prepare that find       *)
(* nothing keep no thread from the rest; the client and the service answer.*)
RelayStep ==
  \/ InitServer \/ ServiceBound \/ ServiceMechanisms
  \/ \E o \in {"ok", "fail"} : ServiceOutcome(o)
  \/ \E map \in rscfg.grants : ServiceOpen(map)
  \/ DownClosed \/ DownFreed \/ FinishNotify \/ ClientInit \/ ClientResponse
  \/ (rs.upState # "0" /\ PrepareUpstream) \/ (rs.downState # "0" /\ PrepareDownstream)
  \/ UpClosed

RsFair == SF_rsvars(RelayStep) /\ WF_rsvars(ResetUpstream) /\ WF_rsvars(ResetDownstream)

RsSpec == RsInit /\ [][RsNext]_rsvars /\ RsFair

-----------------------------------------------------------------------------
(* Whatever interleaving: the context is deleted by the side that ends     *)
(* last and by no one else, so neither side's callbacks use it afterwards; *)
(* the client hears the service's words in the service's order, and the    *)
(* service the client's; a client that is let in was accepted by the       *)
(* service, whose open frame has arrived, and holds exactly the permitted  *)
(* addresses, each list complete and terminated within its buffer.         *)
(* (delete_on_upstream_freed, remote_sasl_prepare, collect_permissions)    *)
RelaySound ==
  /\ rs.impl = "deleted" <=> rs.upReleased /\ (rs.downReleased \/ rs.down = "none")
  /\ \/ IsPrefix(rs.toClient, rs.fromService)
     \/ Told("fail") /\ IsPrefix(Front(rs.toClient), rs.fromService)
  /\ IsPrefix(rs.toService, rs.fromClient)
  /\ Told("ok") =>
       /\ rs.outcome = "ok" /\ rs.username
       /\ rs.policy.set <=> rs.granted # <<>>
       /\ rs.policy.set =>
            /\ ToSet(rs.policy.targets) = {e.addr : e \in {e \in ToSet(rs.granted) : Contains(e.perms, "send")}}
            /\ ToSet(rs.policy.sources) = {e.addr : e \in {e \in ToSet(rs.granted) : Contains(e.perms, "recv")}}
            /\ rs.targets.used < rs.targets.capacity /\ rs.sources.used < rs.sources.capacity

(* Once the service is asked, a client that stays is told an outcome,      *)
(* whenever the service drops its connection, but for two cases: a state   *)
(* that one side writes between the other's read and reset in prepare is   *)
(* lost, and what it stood for is never relayed; and a service that        *)
(* accepts the client and drops before its open frame counts as complete,  *)
(* so nobody is told.                                                      *)
(* (remote_sasl_prepare; PN_TRANSPORT_CLOSED of the service's connection)  *)
AcceptedUnopened == rs.outcome = "ok" /\ ~rs.username /\ rs.down \in {"closing", "closed"}

RelayAnswers ==
  (rs.up = "up" /\ rs.down # "none") ~> (rs.up # "up" \/ Answered \/ rs.lost \/ AcceptedUnopened)

(* Every client is answered but in those two cases, and always with what   *)
(* the service decided.                                                    *)
RelayCorrect == []RelaySound /\ RelayAnswers
=============================================================================
