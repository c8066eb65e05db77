----------------------------- MODULE Heartbeat -----------------------------
(* Heartbeats between an edge router and its interior router: the edge        *)
(* router sends a message every two seconds on a link of its edge connection  *)
(* while it has credit, and the interior router closes an edge connection     *)
(* from which nothing has come for more than a threshold.                     *)
(*                                                                           *)
(* Seconds pass on both routers, at most hbcfg.drift apart.  Messages and      *)
(* returned credit take at most hbcfg.delay seconds of the interior's clock.   *)
EXTENDS Integers, Sequences

CONSTANT HbConfigs

VARIABLES hbcfg, hb

hbvars == <<hbcfg, hb>>

CREDIT_WINDOW == 2
HEARTBEAT_THRESHOLD == 8

(* A core timer set to n seconds fires on the tick that finds it at zero.    *)
Off == -1

HbInit ==
  /\ hbcfg \in HbConfigs
  /\ hb = [conn |-> "down", ep |-> "none", timer |-> Off, credit |-> 0, wire |-> <<>>, flow |-> <<>>, dead |-> FALSE,
           ref |-> FALSE, age |-> 0, stimer |-> 2, closing |-> FALSE, hung |-> FALSE, drift |-> 0, conns |-> 0]

-----------------------------------------------------------------------------
(* heartbeat_edge.c                                                          *)

hb_on_conn_event(s, event) ==
  IF event = "established" THEN [s EXCEPT !.ep = "attaching", !.credit = 0]
  ELSE [s EXCEPT !.ep = "none", !.credit = 0, !.timer = Off]

hb_on_second_attach(s) == [s EXCEPT !.ep = "up", !.timer = 1]
hb_on_flow(s, available, drain) == [s EXCEPT !.credit = IF drain THEN 0 ELSE available]
hb_on_cleanup(s) == [s EXCEPT !.ep = "gone", !.timer = Off]

(* A beat goes out on the endpoint, which must still be there.               *)
hb_on_timer_edge(s) ==
  LET t == [s EXCEPT !.timer = 2] IN
  IF s.credit = 0 THEN t
  ELSE [t EXCEPT !.credit = @ - 1, !.wire = Append(@, 0), !.dead = @ \/ s.ep # "up"]

-----------------------------------------------------------------------------
(* heartbeat_server.c                                                        *)

hb_on_first_attach(s) == [s EXCEPT !.ref = TRUE, !.age = 0, !.flow = <<CREDIT_WINDOW>>]
hb_on_transfer(s) == [s EXCEPT !.age = 0, !.wire = Tail(@), !.flow = Append(@, 1)]
hb_on_cleanup_server(s) == [s EXCEPT !.ref = FALSE]
hb_on_timer_server_Fresh(s) == [s EXCEPT !.stimer = 2, !.age = 0]
hb_on_timer_server(s) ==
  [s EXCEPT !.stimer = 2, !.closing = @ \/ (s.ref /\ s.age > HEARTBEAT_THRESHOLD)]

-----------------------------------------------------------------------------
HbStep(s) == hb' = s /\ UNCHANGED hbcfg

HbOpened ==
  /\ hb.conn = "down" /\ hb.conns < hbcfg.conns
  /\ HbStep(hb_on_conn_event([hb EXCEPT !.conn = "up", !.conns = @ + 1], "established"))

(* The interior answers the attach with the credit window.                  *)
HbAttached ==
  /\ hb.conn = "up" /\ hb.ep = "attaching"
  /\ HbStep(hb_on_second_attach(hb_on_first_attach(hb)))

HbFlow(drain) ==
  /\ hb.conn = "up" /\ hb.ep = "up" /\ hb.flow # <<>> /\ ~hb.hung
  /\ drain => hbcfg.drain
  /\ HbStep(hb_on_flow([hb EXCEPT !.flow = Tail(@)], hb.credit + Head(hb.flow), drain))

HbArrives ==
  /\ hb.conn = "up" /\ hb.ref /\ hb.wire # <<>>
  /\ HbStep(hb_on_transfer(hb))

(* A second on the edge router, unless it hangs.                             *)
EdgeTick ==
  /\ ~hb.hung /\ hb.drift < hbcfg.drift
  /\ HbStep(LET s == [hb EXCEPT !.drift = @ + 1]
            IN IF hb.timer = 0 THEN hb_on_timer_edge(s)
               ELSE IF hb.timer > 0 THEN [s EXCEPT !.timer = @ - 1] ELSE s)

(* A second on the interior router.  Nothing takes longer than the delay.    *)
ServerTick ==
  /\ hb.hung \/ hb.drift > -hbcfg.drift
  /\ \A i \in DOMAIN hb.wire : hb.wire[i] < hbcfg.delay
  /\ (~hb.hung /\ hb.conn = "up") => hb.ep = "up" /\ hb.flow = <<>>
  /\ HbStep(LET s == [hb EXCEPT !.drift = IF hb.hung THEN @ ELSE @ - 1,
                                !.wire = [i \in DOMAIN @ |-> @[i] + 1],
                                !.age = IF hb.ref /\ @ <= HEARTBEAT_THRESHOLD THEN @ + 1 ELSE @]
            IN IF hb.stimer = 0 THEN hb_on_timer_server(s) ELSE [s EXCEPT !.stimer = @ - 1])

EdgeHangs ==
  /\ hbcfg.hangs /\ hb.ep = "up" /\ ~hb.hung
  /\ HbStep([hb EXCEPT !.hung = TRUE])

(* The connection ends, by the interior's decision or by itself: the         *)
(* endpoints are cleaned up, then the edge connection is lost.               *)
HbLinkLost ==
  /\ hb.conn = "up" /\ hb.ep \in {"attaching", "up"} /\ (hb.closing \/ hbcfg.drops)
  /\ HbStep(hb_on_cleanup_server(hb_on_cleanup([hb EXCEPT !.wire = <<>>, !.flow = <<>>])))

HbClosed ==
  /\ hb.conn = "up" /\ hb.ep = "gone"
  /\ HbStep([hb_on_conn_event(hb, "lost") EXCEPT !.conn = "down", !.closing = FALSE, !.hung = FALSE])

HbNext ==
  \/ HbOpened \/ HbAttached \/ HbArrives \/ EdgeTick \/ ServerTick \/ EdgeHangs \/ HbLinkLost \/ HbClosed
  \/ \E drain \in BOOLEAN : HbFlow(drain)

HbFair == WF_hbvars(ServerTick) /\ WF_hbvars(HbArrives) /\ WF_hbvars(hb.closing /\ HbLinkLost)
          /\ WF_hbvars(HbClosed)

HbSpec == HbInit /\ [][HbNext]_hbvars /\ HbFair

-----------------------------------------------------------------------------
(* No beat is sent on an endpoint that has gone, the timer runs only while    *)
(* there is one, and the interior router never closes the connection of an    *)
(* edge router that beats (heartbeat_edge.c, heartbeat_server.c).             *)
HeartbeatSound ==
  /\ ~hb.dead
  /\ hb.timer # Off => hb.ep = "up"
  /\ hb.closing => hbcfg.hangs \/ hbcfg.drain

(* The connection of an edge router that hangs is closed.                    *)
HungIsClosed == hb.hung ~> hb.conn = "down"

(* An edge router that hangs is cut off, and none other.                   *)
HeartbeatCorrect == []HeartbeatSound /\ HungIsClosed
=============================================================================
