----------------------------- MODULE MCDelivery -----------------------------
(***************************************************************************)
(* The situations in which Delivery is explored, each kept small in a      *)
(* different way.                                                          *)
(***************************************************************************)
EXTENDS Delivery

CONSTANTS o1, o2

\* An anycast message of an endpoint to one receiver, nothing going away.
Basic ==
  [multicast |-> FALSE, endpoint |-> TRUE, streaming |-> FALSE,
   presettled |-> {TRUE, FALSE}, outcomes |-> {"accepted"}, bareSettle |-> FALSE,
   sndSettled |-> {}, subscribers |-> FALSE, receivers |-> {o1}, mayDetach |-> {}]

BasicMulticast == [Basic EXCEPT !.multicast = TRUE, !.receivers = {o1, o2}]

\* Streaming, with either link going away.
Anycast ==
  [Basic EXCEPT !.streaming = TRUE, !.bareSettle = TRUE, !.mayDetach = {In, o1}]

\* The destination is an in-process subscriber, or a receiver for whom the
\* router settles.
Subscriber ==
  [Basic EXCEPT !.subscribers = TRUE, !.sndSettled = {o1}, !.mayDetach = {In, o1}]

\* Two receivers with different outcomes, one of which may go away.
Multicast2 ==
  [BasicMulticast EXCEPT !.endpoint = FALSE, !.presettled = {FALSE},
                         !.outcomes = {"accepted", "released"}, !.mayDetach = {o1}]

\* The sender goes away.
MulticastSender == [BasicMulticast EXCEPT !.mayDetach = {In}]

\* A multicast message that streams to a receiver and to a subscriber.
MulticastStream ==
  [Basic EXCEPT !.multicast = TRUE, !.streaming = TRUE, !.subscribers = TRUE,
                !.presettled = {TRUE}, !.mayDetach = {In, o1}]

SafetyConfigs == {Anycast, Subscriber, Multicast2, MulticastSender, MulticastStream}

\* For the liveness properties.
LiveConfigs ==
  {[Basic EXCEPT !.bareSettle = TRUE, !.mayDetach = {In, o1}],
   [BasicMulticast EXCEPT !.bareSettle = TRUE]}
=============================================================================
