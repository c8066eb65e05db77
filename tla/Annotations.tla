---------------------------- MODULE Annotations ----------------------------
(***************************************************************************)
(* The message annotations of a message on its way through routers.  Every *)
(* router parses the section (qd_parse_annotations), telling the user's    *)
(* annotations from the routers' own that follow them, and writes a new    *)
(* one: the user's octets unchanged, then its own annotations, or the      *)
(* user's alone for a link that strips them (compose_router_ and           *)
(* restore_user_message_annotations).                                      *)
(***************************************************************************)
EXTENDS Codec

CONSTANT AnConfigs     \* [user, map32, ids, to, hops, size]: user is a
                       \* sequence of encoded key/value pairs

VARIABLES ancfg, an

anvars == <<ancfg, an>>

\* The keys: octets of the length of the key they stand for.
QD_MA ==
  [PREFIX |-> [i \in 1..9 |-> 1], INGRESS |-> [i \in 1..16 |-> 2],
   TRACE |-> [i \in 1..14 |-> 3], TO |-> [i \in 1..11 |-> 4],
   PHASE |-> [i \in 1..14 |-> 5], STREAM |-> [i \in 1..15 |-> 6],
   CLASS |-> [i \in 1..14 |-> 7]]
Encoded(key) == <<QD_AMQP.SYM8, Len(key)>> \o key

qd_compose_str_header(length) ==
  IF length <= 255 THEN <<QD_AMQP.STR8, length>>
  ELSE <<QD_AMQP.STR32>> \o Octets(length, 4)

\* A mutant: the octet of the count is forgotten where the size is compared.
qd_compose_list_header_Count(size, count) ==
  IF size <= 255 THEN <<QD_AMQP.LIST8, (size + 1) % 256, count>>
  ELSE <<QD_AMQP.LIST32>> \o Octets(size + 4, 4) \o Octets(count, 4)

qd_compose_list_header(size, count) ==
  IF size + 1 <= 255 THEN <<QD_AMQP.LIST8, size + 1, count>>
  ELSE <<QD_AMQP.LIST32>> \o Octets(size + 4, 4) \o Octets(count, 4)

qd_compose_map_header(size, count) ==
  IF size + 1 <= 255 THEN <<QD_AMQP.MAP8, size + 1, count>>
  ELSE <<QD_AMQP.MAP32>> \o Octets(size + 4, 4) \o Octets(count, 4)

\* A router's id as its encoded string (qd_router_id_encoded).
Id(r) == LET n == ancfg.ids[r] IN [i \in 1..n |-> 64 + r]
EncodedText(s) == qd_compose_str_header(Len(s)) \o s

(***************************************************************************)
(* qd_parse_annotations: one turn of its loop for every pair.              *)
(***************************************************************************)
NoField == [err |-> "none"]
Found(st, field, r, ok, why) ==
  [st EXCEPT ![field] = r.p, !.bf = r.next,
             !.err = IF r.p.err = "" /\ ~ok THEN why ELSE r.p.err]

\* The value of a router's own key: skipped, or parsed and checked.
Kept == {QD_MA.TO, QD_MA.TRACE, QD_MA.PHASE, QD_MA.STREAM, QD_MA.INGRESS}
KeptValue(st, key, r) ==
  CASE key = QD_MA.TO -> Found(st, "to", r, qd_parse_is_string(r.p), "to")
    [] key = QD_MA.TRACE ->
         Found(st, "trace", r,
               /\ qd_parse_is_list(r.p)
               /\ \A i \in 1..Len(r.p.kids) : qd_parse_is_string(r.p.kids[i]), "trace")
    [] key = QD_MA.PHASE -> Found(st, "phase", r, TRUE, "")
    [] key = QD_MA.STREAM -> Found(st, "stream", r, TRUE, "")
    [] key = QD_MA.INGRESS -> Found(st, "ingress", r, qd_parse_is_string(r.p), "ingress")

RouterValue(bufs, st, key, strip) ==
  LET own == [st EXCEPT !.user = FALSE]
  IN  CASE key \in {QD_MA.PREFIX, QD_MA.CLASS} ->
             With(parse_amqp_field(bufs, st.bf), LAMBDA skip :
               [own EXCEPT !.err = skip.err, !.bf = skip.next])
        [] key \in Kept ->
             IF strip THEN own ELSE KeptValue(own, key, qd_parse_internal(bufs, st.bf))
        [] OTHER -> st

UserValue(bufs, st, key) ==
  With(parse_amqp_field(bufs, st.bf), LAMBDA v :
    [st EXCEPT !.err = v.err, !.bf = v.next, !.ucount = @ + 2,
               !.usize = @ + 1 + tag_get_size_length(key.tag) + key.size
                           + 1 + tag_get_size_length(v.tag) + v.size])

RECURSIVE Pairs(_, _, _, _)
Pairs(bufs, st, n, strip) ==
  IF n = 0 \/ st.err # "" THEN st
  ELSE With(parse_amqp_field(bufs, st.bf), LAMBDA key :
       With([st EXCEPT !.err = key.err, !.bf = key.next], LAMBDA s1 :
       With(IF key.err = "" /\ key.tag \in {QD_AMQP.SYM8, QD_AMQP.SYM32}
            THEN RouterValue(bufs, s1, qd_buffer_field_strdup(bufs, key.value), strip)
            ELSE s1, LAMBDA s2 :
         IF s2.err # "" THEN s2
         ELSE IF s2.user THEN Pairs(bufs, UserValue(bufs, s2, key), n - 1, strip)
         ELSE IF strip THEN s2
         ELSE Pairs(bufs, s2, n - 1, strip))))

qd_parse_annotations(bufs, total, strip) ==
  With(parse_amqp_field(bufs, qd_buffer_field(bufs, total)), LAMBDA map :
  With([err |-> map.err, bf |-> map.value, user |-> TRUE, usize |-> 0,
        ucount |-> 0, at |-> map.value, ingress |-> NoField, to |-> NoField,
        trace |-> NoField, phase |-> NoField, stream |-> NoField], LAMBDA st0 :
    IF map.err # "" THEN st0
    ELSE IF ~is_tag_a_map(map.tag) THEN [st0 EXCEPT !.err = "map"]
    ELSE IF map.count = 0 THEN st0
    ELSE Pairs(bufs, st0, map.count \div 2, strip)))

(***************************************************************************)
(* message.c                                                               *)
(***************************************************************************)
\* A section as it is received: its octets in buffers of the receiver's size.
AsBuffers(octets) == qd_buffer_list_append(<<>>, octets)

NoAnnotations ==
  [bufs |-> <<>>, ingress |-> NoField, to |-> NoField, trace |-> NoField,
   user |-> <<>>, ucount |-> 0, phase |-> 0, streaming |-> FALSE,
   override |-> <<>>, filter |-> FALSE, reset |-> FALSE]

qd_message_parse_annotations(octets, strip) ==
  IF octets = <<>> THEN [err |-> "", msg |-> NoAnnotations]
  ELSE With(AsBuffers(octets), LAMBDA bufs :
       With(qd_parse_annotations(bufs, Len(octets), strip), LAMBDA st :
         [err |-> st.err,
          msg |-> IF st.err # "" THEN NoAnnotations
                  ELSE [NoAnnotations EXCEPT !.bufs = bufs, !.ingress = st.ingress,
                          !.to = st.to, !.trace = st.trace,
                          !.user = qd_buffer_field_strdup(bufs,
                                     [st.at EXCEPT !.remaining = st.usize]),
                          !.ucount = st.ucount,
                          !.phase = IF st.phase = NoField THEN 0
                                    ELSE Number(qd_parse_as_int(bufs, st.phase).w),
                          !.streaming = st.stream # NoField]]))

restore_user_message_annotations(msg) ==
  IF msg.ucount = 0 THEN <<>> ELSE qd_compose_map_header(Len(msg.user), msg.ucount)

\* The routers' annotations, in the buffers of the trailer, in their order.
PhasePart(msg) ==
  IF msg.phase = 0 THEN <<>> ELSE Encoded(QD_MA.PHASE) \o <<QD_AMQP.SMALLINT, msg.phase>>
StreamPart(msg) ==
  IF ~msg.streaming THEN <<>> ELSE Encoded(QD_MA.STREAM) \o <<QD_AMQP.SMALLINT, 1>>
ToPart(msg) ==
  IF msg.override # <<>> THEN Encoded(QD_MA.TO) \o EncodedText(msg.override)
  ELSE IF msg.to # NoField
       THEN Encoded(QD_MA.TO) \o EncodedText(qd_parse_raw(msg.bufs, msg.to))
       ELSE <<>>
IngressPart(msg, me) ==
  IF msg.filter THEN <<>>
  ELSE Encoded(QD_MA.INGRESS)
       \o EncodedText(IF msg.ingress # NoField /\ ~msg.reset
                      THEN qd_parse_raw(msg.bufs, msg.ingress) ELSE Id(me))
TracePart(msg, me) ==
  LET incoming == msg.trace # NoField /\ ~msg.reset
      old == IF incoming
             THEN Flat(qd_buffer_list_append_field(<<>>, msg.bufs, msg.trace.value))
             ELSE <<>>
      count == 1 + IF incoming THEN qd_parse_sub_count(msg.trace) ELSE 0
      all == old \o EncodedText(Id(me))
  IN  IF msg.filter THEN <<>>
      ELSE Encoded(QD_MA.TRACE) \o qd_compose_list_header(Len(all), count) \o all

compose_router_message_annotations(msg, me) ==
  With(<<PhasePart(msg), StreamPart(msg), ToPart(msg),
         IngressPart(msg, me), TracePart(msg, me)>>, LAMBDA parts :
    LET mcount == msg.ucount + 2 * Cardinality({i \in 1..5 : parts[i] # <<>>})
        msize == Len(msg.user) + Len(Flat(parts))
    IN  IF msize = 0 THEN <<>>
        ELSE qd_compose_map_header(msize, mcount) \o msg.user \o Flat(parts))

\* What qd_message_send puts on the link in place of the section.
qd_message_send(msg, me, strip) ==
  IF strip
  THEN restore_user_message_annotations(msg) \o msg.user
  ELSE compose_router_message_annotations(msg, me)

-----------------------------------------------------------------------------
Silent == [trace |-> <<>>, ingress |-> 0, to |-> <<>>, phase |-> 0, stream |-> FALSE]

\* The user's section: a map of their pairs, encoded with either header.
Original ==
  LET all == Flat(ancfg.user)
      n == 2 * Len(ancfg.user)
  IN  IF ancfg.map32
      THEN <<QD_AMQP.MAP32>> \o Octets(Len(all) + 4, 4) \o Octets(n, 4) \o all
      ELSE qd_compose_map_header(Len(all), n) \o all

AnInit ==
  /\ ancfg \in AnConfigs
  /\ an = [wire |-> Original, at |-> 0, err |-> "", msg |-> NoAnnotations,
           hops |-> 0, exp |-> Silent]

\* A router receives the message on a link that strips inbound annotations or
\* not; an edge router does not pass on the trace and the ingress
\* (router_annotate_message).
Receive(r, strip, edge) ==
  /\ an.at = 0 /\ an.hops < ancfg.hops /\ an.err = ""
  /\ an' = With(qd_message_parse_annotations(an.wire, strip), LAMBDA p :
              [an EXCEPT !.at = r, !.err = p.err, !.hops = @ + 1,
                         !.msg = [p.msg EXCEPT !.filter = edge],
                         !.exp = IF strip THEN Silent ELSE @])
  /\ UNCHANGED ancfg

\* The router names another address for the message: an exchange for a copy, whose
\* trace and ingress start anew (exchange_bindings.c:223, 317), a link for what its
\* producer sends (router_node.c:829), the core for a fallback (transfer.c:654).
Forward(phase, reset) ==
  /\ an.at # 0 /\ an.err = "" /\ an.msg.override = <<>>
  /\ an' = [an EXCEPT !.msg.override = ancfg.to, !.msg.phase = phase,
                      !.msg.reset = reset, !.exp.to = ancfg.to, !.exp.phase = phase]
  /\ UNCHANGED ancfg

qd_message_set_streaming_annotation ==
  /\ an.at # 0 /\ an.err = "" /\ ~an.msg.streaming
  /\ an' = [an EXCEPT !.msg.streaming = TRUE, !.exp.stream = TRUE]
  /\ UNCHANGED ancfg

Send(strip) ==
  /\ an.at # 0 /\ an.err = ""
  /\ LET m == an.msg
         e == an.exp
     IN  an' = [an EXCEPT !.wire = qd_message_send(m, an.at, strip),
                          !.at = 0, !.msg = NoAnnotations,
                          !.exp = IF strip THEN Silent
                                  ELSE [e EXCEPT
                                    !.trace = IF m.filter THEN <<>>
                                              ELSE IF m.reset THEN <<an.at>>
                                              ELSE Append(@, an.at),
                                    !.ingress = IF m.filter THEN 0
                                                ELSE IF m.reset \/ @ = 0 THEN an.at
                                                ELSE @]]
  /\ UNCHANGED ancfg

AnNext ==
  \/ \E r \in DOMAIN ancfg.ids, strip, edge \in BOOLEAN : Receive(r, strip, edge)
  \/ \E phase \in {0, 5}, reset \in BOOLEAN : Forward(phase, reset)
  \/ qd_message_set_streaming_annotation
  \/ \E strip \in BOOLEAN : Send(strip)

AnSpec == AnInit /\ [][AnNext]_anvars

-----------------------------------------------------------------------------
\* The pairs that a message should carry, as their octets.
Meant ==
  LET e == an.exp
      pair(present, key, value) == IF present THEN <<Encoded(key) \o value>> ELSE <<>>
  IN  pair(e.phase # 0, QD_MA.PHASE, <<QD_AMQP.SMALLINT, e.phase>>)
      \o pair(e.stream, QD_MA.STREAM, <<QD_AMQP.SMALLINT, 1>>)
      \o pair(e.to # <<>>, QD_MA.TO, EncodedText(e.to))
      \o pair(e.ingress # 0, QD_MA.INGRESS, EncodedText(Id(e.ingress)))

\* However many routers a message passes, of whatever kind: its annotations parse
\* to the last octet; the user's pairs come first, octet for octet as they were
\* sent; the routers' follow, with the phase and the address set last, the router
\* that let the message in, and a trace that lists every router since then, in
\* order.  A link that strips annotations shows the user's alone (qd_message_send).
AnnotationsSound ==
  /\ an.err = ""
  /\ an.at = 0 =>
       LET bufs == AsBuffers(an.wire)
           p == qd_parse(bufs, Len(an.wire))
           n == Len(ancfg.user)
           traced == an.exp.trace # <<>>
           count == n + Len(Meant) + IF traced THEN 1 ELSE 0
           octetsOf(i) == qd_parse_typed(bufs, qd_parse_sub_key(p, i))
                          \o qd_parse_typed(bufs, qd_parse_sub_value(p, i))
           trace == qd_parse_sub_value(p, count - 1)
       IN  IF an.wire = <<>> THEN count = 0
           ELSE /\ p.err = "" /\ qd_parse_is_map(p)
                /\ qd_parse_typed(bufs, p) = an.wire
                /\ qd_parse_sub_count(p) = count
                /\ \A i \in 1..n : octetsOf(i - 1) = ancfg.user[i]
                /\ \A i \in 1..Len(Meant) : octetsOf(n + i - 1) = Meant[i]
                /\ traced =>
                     /\ qd_parse_raw(bufs, qd_parse_sub_key(p, count - 1)) = QD_MA.TRACE
                     /\ qd_parse_is_list(trace)
                     /\ [i \in 1..Len(trace.kids) |-> qd_parse_as_string(bufs, trace.kids[i])]
                          = [i \in 1..Len(an.exp.trace) |-> Id(an.exp.trace[i])]

=============================================================================
