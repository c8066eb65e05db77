-------------------------- MODULE MessageSections --------------------------
(***************************************************************************)
(* How a message that is still arriving is taken apart (message.c): the    *)
(* sections are found one after the other as their octets come in, the     *)
(* fields of the properties inside theirs, and the sections of a streamed  *)
(* body are handed to the receivers one at a time, whose buffers go once   *)
(* every receiver has released what lies in them.                          *)
(*                                                                         *)
(* The buffers that have been received are numbered; those that have been  *)
(* freed are remembered, for nothing may refer to them.                    *)
(***************************************************************************)
EXTENDS Codec

CONSTANT SxConfigs     \* [msg, first, size, fanout, depths, fields]: msg is a
                       \* sequence of sections [code, short, value]; the first
                       \* buffer has first octets, the others size; depths and
                       \* fields are what is asked for

VARIABLES sxcfg, sx

sxvars == <<sxcfg, sx>>

\* The codes of the sections, in the order of their depth; BODY stands for the
\* three kinds of body, of which VALUE is looked for first.
HEADER == 112
DELIVERY_ANNOTATION == 113
MESSAGE_ANNOTATION == 114
PROPERTIES == 115
APPLICATION_PROPERTIES == 116
BODY_DATA == 117
BODY_SEQUENCE == 118
BODY_VALUE == 119
FOOTER == 120
Depths == 1..7         \* QD_DEPTH_HEADER to QD_DEPTH_ALL
QD_DEPTH_BODY == 6
QD_DEPTH_ALL == 7

TAGS_LIST == {69, 192, 208}
TAGS_MAP == {193, 209}
TAGS_BINARY == {160, 176}
TAGS_ANY == TAGS_LIST \cup TAGS_MAP \cup TAGS_BINARY
            \cup {161, 177, 163, 179, 224, 240, 64, 65, 66, 67, 68}
            \cup {80, 81, 82, 83, 84, 85, 86, 96, 97, 112, 113, 114, 115, 116}
            \cup {128, 129, 130, 131, 132, 148, 152}

Pattern(code, short) ==
  IF short THEN <<0, 83, code>> ELSE <<0, 128, 0, 0, 0, 0, 0, 0, 0, code>>

(***************************************************************************)
(* Cursors: a place [b, c] is c octets into buffer b; buffer 0 is none.    *)
(***************************************************************************)
Later(s, b) == {i \in (b + 1)..Len(s.bufs) : i \notin s.freed}
DEQ_NEXT(s, b) ==
  IF Later(s, b) = {} THEN 0 ELSE CHOOSE i \in Later(s, b) : \A j \in Later(s, b) : i <= j
DEQ_PREV(s, b) ==
  LET before == {i \in 1..(b - 1) : i \notin s.freed}
  IN  IF before = {} THEN 0 ELSE CHOOSE i \in before : \A j \in before : j <= i
Size(s, b) == Len(s.bufs[b])

can_advance(s, cur) ==
  IF Size(s, cur.b) > cur.c THEN [ok |-> TRUE, cur |-> cur]
  ELSE With(DEQ_NEXT(s, cur.b), LAMBDA n :
         IF n = 0 THEN [ok |-> FALSE, cur |-> cur]
         ELSE [ok |-> Size(s, n) > 0, cur |-> [b |-> n, c |-> 0]])

RECURSIVE Consume(_, _, _)
Consume(s, cur, consume) ==
  LET remaining == Size(s, cur.b) - cur.c
  IN  IF consume <= remaining
      THEN [ok |-> TRUE, cur |-> [cur EXCEPT !.c = @ + consume]]
      ELSE IF DEQ_NEXT(s, cur.b) = 0 THEN [ok |-> FALSE, cur |-> cur]
      ELSE Consume(s, [b |-> DEQ_NEXT(s, cur.b), c |-> 0], consume - remaining)

advance(s, cur, consume) ==
  With(can_advance(s, cur), LAMBDA a : IF ~a.ok THEN a ELSE Consume(s, a.cur, consume))

OctetAt(s, cur) == s.bufs[cur.b][cur.c + 1]

\* n calls of next_octet.
RECURSIVE next_octet(_, _, _)
next_octet(s, cur, n) ==
  IF n = 0 THEN [ok |-> TRUE, v |-> <<>>, cur |-> cur]
  ELSE With(can_advance(s, cur), LAMBDA a :
         IF ~a.ok THEN [ok |-> FALSE, v |-> <<>>, cur |-> cur]
         ELSE [next_octet(s, advance(s, a.cur, 1).cur, n - 1)
                 EXCEPT !.v = <<OctetAt(s, a.cur)>> \o @])

\* The length that follows a tag, in the tag itself or in one or four octets.
FixedSize(tag) ==
  CASE tag \div 16 = 5 -> 1 [] tag \div 16 = 6 -> 2 [] tag \div 16 = 7 -> 4
    [] tag \div 16 = 8 -> 8 [] tag \div 16 = 9 -> 16 [] OTHER -> 0
SizeAfter(s, cur, tag) ==
  LET n == tag_get_size_length(tag)
  IN  With(next_octet(s, cur, n), LAMBDA r :
        [ok |-> r.ok, cur |-> r.cur, octets |-> n,
         v |-> IF n = 0 THEN FixedSize(tag) ELSE IF r.ok THEN Number(r.v) ELSE 0])

NoLocation == [b |-> 0, off |-> 0, len |-> 0, hdr |-> 0, parsed |-> FALSE, tag |-> 0]

traverse_field(s, cur, field) ==
  With(next_octet(s, cur, 1), LAMBDA t :
  With(SizeAfter(s, t.cur, t.v[1]), LAMBDA z :
  With(advance(s, z.cur, z.v), LAMBDA a :
    IF ~t.ok \/ ~z.ok \/ ~a.ok THEN [ok |-> FALSE, cur |-> cur, loc |-> field]
    ELSE [ok |-> TRUE, cur |-> a.cur,
          loc |-> IF field.parsed THEN field
                  ELSE [b |-> cur.b, off |-> cur.c, len |-> z.v,
                        hdr |-> 1 + z.octets, parsed |-> TRUE, tag |-> t.v[1]]])))

get_list_count(s, cur) ==
  With(next_octet(s, cur, 1), LAMBDA t :
    IF ~t.ok THEN [count |-> 0, cur |-> cur]
    ELSE IF ~(t.v[1] \in {QD_AMQP.LIST32, QD_AMQP.LIST8}) THEN [count |-> 0, cur |-> t.cur]
    ELSE With(tag_get_size_length(t.v[1]), LAMBDA n :
         With(advance(s, t.cur, n), LAMBDA a :
         With(next_octet(s, a.cur, n), LAMBDA r :
           IF a.ok /\ r.ok THEN [count |-> Number(r.v), cur |-> r.cur]
           ELSE [count |-> 0, cur |-> a.cur]))))

(***************************************************************************)
(* message_section_check_LH: the status, where the cursor is then, and the *)
(* location, which is filled in before the section is known to be whole.   *)
(***************************************************************************)
RECURSIVE Compared(_, _, _)
Compared(s, cur, pat) ==
  LET n == DEQ_NEXT(s, cur.b)
  IN  IF pat = <<>> THEN [st |-> "MATCH", cur |-> cur]
      ELSE IF OctetAt(s, cur) # Head(pat) THEN [st |-> "NO_MATCH", cur |-> cur]
      ELSE IF cur.c + 1 < Size(s, cur.b)
           THEN Compared(s, [cur EXCEPT !.c = @ + 1], Tail(pat))
      ELSE IF n = 0 THEN [st |-> "NEED_MORE", cur |-> cur]
      ELSE Compared(s, [b |-> n, c |-> 0], Tail(pat))

\* The buffers of a section from start to last get another reference, and those
\* up to last are not counted against the limit of the queue any more.
Protected(s, start, last) ==
  [s EXCEPT !.fan = [i \in DOMAIN @ |-> IF i \in start..last /\ i \notin s.freed
                                         THEN @[i] + 1 ELSE @[i]],
            !.protected = Cardinality({i \in 1..last : i \notin s.freed})]

\* A mutant: a buffer the section shares with the next one is taken for a
\* buffer without octets of the section.
LastBuffer_Before(s, start, cur) ==
  IF cur.b # start THEN DEQ_PREV(s, cur.b) ELSE cur.b

\* The last buffer with an octet of the section that ends at cur.
LastBuffer(s, start, cur) ==
  IF cur.b # start /\ cur.c = 0 THEN DEQ_PREV(s, cur.b) ELSE cur.b

Checked(st, cur, loc, s) == [st |-> st, cur |-> cur, loc |-> loc, s |-> s]

\* The descriptor matched: the tag after it, at cur, and its value.
SectionValue(s, start, cur, loc, protect) ==
  With(next_octet(s, cur, 1), LAMBDA t :
  With(SizeAfter(s, t.cur, t.v[1]), LAMBDA z :
    IF ~z.ok \/ (~can_advance(s, t.cur).ok /\ t.v[1] \div 16 # 4)
    THEN Checked("NEED_MORE", start, loc, s)
    ELSE With([loc EXCEPT !.len = 1 + z.octets + z.v], LAMBDA sized :
         With(IF z.v = 0 THEN [ok |-> TRUE, cur |-> z.cur] ELSE advance(s, z.cur, z.v),
           LAMBDA whole :
             IF ~whole.ok THEN Checked("NEED_MORE", start, sized, s)
             ELSE Checked("MATCH", whole.cur, [sized EXCEPT !.parsed = TRUE],
                    IF protect THEN Protected(s, start.b, LastBuffer(s, start.b, whole.cur))
                    ELSE s)))))

message_section_check_LH(s, cur0, pat, tags, loc0, dup_ok, protect) ==
  IF cur0.b = 0 THEN Checked("NEED_MORE", cur0, loc0, s)
  ELSE With(can_advance(s, cur0), LAMBDA a :
       With(Compared(s, a.cur, pat), LAMBDA m :
         IF ~a.ok THEN Checked("NEED_MORE", a.cur, loc0, s)
         ELSE IF m.st # "MATCH" THEN Checked(m.st, a.cur, loc0, s)
         ELSE IF OctetAt(s, m.cur) \notin tags \/ (loc0.parsed /\ ~dup_ok)
              THEN Checked("INVALID", a.cur, loc0, s)
         ELSE SectionValue(s, a.cur, m.cur,
                [loc0 EXCEPT !.b = a.cur.b, !.off = a.cur.c, !.len = 0, !.hdr = Len(pat)],
                protect)))

\* The short form of the descriptor, and if it does not match the long one.
RECURSIVE EitherForm(_, _, _, _, _, _)
EitherForm(s, code, short, tags, kind, protect) ==
  With(message_section_check_LH(s, s.cur, Pattern(code, short), tags, s.loc[kind],
                                FALSE, protect), LAMBDA r :
  With([r.s EXCEPT !.cur = r.cur, !.loc[kind] = r.loc], LAMBDA t :
    IF short /\ r.st = "NO_MATCH" THEN EitherForm(t, code, FALSE, tags, kind, protect)
    ELSE [st |-> r.st, s |-> t]))

message_check_depth_LH(s, depth, code, tags, optional, protect) ==
  IF depth <= s.depth THEN [rc |-> "OK", s |-> s]
  ELSE With(EitherForm(s, code, TRUE, tags, depth, protect), LAMBDA r :
         IF r.st = "MATCH" \/ (optional /\ r.st = "NO_MATCH")
         THEN [rc |-> "OK", s |-> [r.s EXCEPT !.depth = depth]]
         ELSE IF r.st = "NEED_MORE" /\ ~s.complete THEN [rc |-> "INCOMPLETE", s |-> r.s]
         ELSE IF r.st = "NEED_MORE" /\ optional /\ ~can_advance(r.s, r.s.cur).ok
              THEN [rc |-> "OK", s |-> [r.s EXCEPT !.cur = can_advance(r.s, @).cur]]
         ELSE [rc |-> "INVALID", s |-> r.s])

\* What is looked for at a depth; the body is a value, data or a sequence.
Kind(code, tags, optional, protect) ==
  [code |-> code, tags |-> tags, optional |-> optional, protect |-> protect]
Kinds ==
  <<<<Kind(HEADER, TAGS_LIST, TRUE, TRUE)>>,
    <<Kind(DELIVERY_ANNOTATION, TAGS_MAP, TRUE, TRUE)>>,
    <<Kind(MESSAGE_ANNOTATION, TAGS_MAP, TRUE, TRUE)>>,
    <<Kind(PROPERTIES, TAGS_LIST, TRUE, TRUE)>>,
    <<Kind(APPLICATION_PROPERTIES, TAGS_MAP, TRUE, TRUE)>>,
    <<Kind(BODY_VALUE, TAGS_ANY, FALSE, FALSE), Kind(BODY_DATA, TAGS_BINARY, FALSE, FALSE),
      Kind(BODY_SEQUENCE, TAGS_LIST, TRUE, FALSE)>>,
    <<Kind(FOOTER, TAGS_MAP, TRUE, FALSE)>>>>

RECURSIVE SectionOf(_, _, _)
SectionOf(s, d, kinds) ==
  With(Head(kinds), LAMBDA k :
  With(message_check_depth_LH(s, d, k.code, k.tags, k.optional, k.protect), LAMBDA r :
    IF r.rc # "INVALID" \/ Len(kinds) = 1 THEN r ELSE SectionOf(r.s, d, Tail(kinds))))

RECURSIVE SectionsTo(_, _, _)
SectionsTo(s, d, depth) ==
  With(SectionOf(s, d, Kinds[d]), LAMBDA r :
    IF r.rc # "OK" \/ d = depth THEN r ELSE SectionsTo(r.s, d + 1, depth))

qd_message_check_LH(s, depth) ==
  LET t == IF s.cur.b # 0 THEN s ELSE [s EXCEPT !.cur = [b |-> 1, c |-> 0]]
  IN  IF depth <= s.depth THEN [rc |-> "OK", s |-> s]
      ELSE IF s.bufs = <<>>
           THEN [rc |-> IF s.complete THEN "INVALID" ELSE "INCOMPLETE", s |-> s]
      ELSE SectionsTo(t, t.depth + 1, depth)

qd_message_check_depth(s, depth) == qd_message_check_LH(s, depth)

(***************************************************************************)
(* The fields of the properties; index 0 is the message id.                *)
(***************************************************************************)
Fields == 0..12

\* The fields up to index are parsed out one after the other.
RECURSIVE ParseOut(_, _, _, _)
ParseOut(s, cur, position, index) ==
  LET f == s.field[position]
  IN  With(IF f.parsed /\ position < index
           THEN With(advance(s, cur, f.hdr + f.len), LAMBDA a :
                  [ok |-> a.ok, cur |-> a.cur, loc |-> f])
           ELSE traverse_field(s, cur, f), LAMBDA past :
      With([s EXCEPT !.field[position] = past.loc], LAMBDA t :
        IF ~past.ok THEN [ok |-> FALSE, s |-> s]
        ELSE IF position = index THEN [ok |-> TRUE, s |-> t]
        ELSE ParseOut(t, past.cur, position + 1, index)))

\* The properties of s are located, at at.
LocateField(s, at, index) ==
  IF ~at.parsed THEN [ok |-> FALSE, s |-> s]
  ELSE IF s.field[index].parsed THEN [ok |-> TRUE, s |-> s]
  ELSE With(advance(s, [b |-> at.b, c |-> at.off], at.hdr), LAMBDA a :
       With(get_list_count(s, a.cur), LAMBDA n :
         IF ~a.ok \/ index >= n.count THEN [ok |-> FALSE, s |-> s]
         ELSE ParseOut(s, n.cur, 0, index)))

qd_message_properties_field(s, index) ==
  With(IF s.loc[4].parsed THEN s ELSE qd_message_check_depth(s, 4).s, LAMBDA t :
    LocateField(t, t.loc[4], index))

\* qd_message_field_copy: the octets of a location.
RECURSIVE qd_message_field_copy(_, _, _, _)
qd_message_field_copy(s, b, offset, remaining) ==
  LET n == Least(Size(s, b) - offset, remaining)
  IN  IF remaining = 0 THEN <<>>
      ELSE SubSeq(s.bufs[b], offset + 1, offset + n)
           \o qd_message_field_copy(s, DEQ_NEXT(s, b), 0, remaining - n)

(***************************************************************************)
(* The sections of a streamed body.                                        *)
(***************************************************************************)
\* The place after the last octet of a location, in the buffer with that octet.
RECURSIVE find_last_buffer_LH(_, _, _, _)
find_last_buffer_LH(s, b, offset, remaining) ==
  LET n == Size(s, b) - offset
  IN  IF remaining <= n THEN [b |-> b, c |-> offset + remaining]
      ELSE find_last_buffer_LH(s, DEQ_NEXT(s, b), 0, remaining - n)

trim_stream_data_headers_LH(s, loc, remove_vbin_header) ==
  LET Trimmed(past, len, tag) ==
        With(can_advance(s, past).cur, LAMBDA cur :
          [b |-> cur.b, off |-> cur.c, hdr |-> 0, parsed |-> TRUE, len |-> len, tag |-> tag])
  IN  With(advance(s, [b |-> loc.b, c |-> loc.off], loc.hdr).cur, LAMBDA a :
        IF ~remove_vbin_header THEN Trimmed(a, loc.len, 0)
        ELSE With(next_octet(s, a, 1), LAMBDA t :
             With(IF t.v[1] = QD_AMQP.VBIN8 THEN 1
                  ELSE IF t.v[1] = QD_AMQP.VBIN32 THEN 4 ELSE 0, LAMBDA n :
               Trimmed(IF n = 0 THEN t.cur ELSE advance(s, t.cur, n).cur,
                       loc.len - (1 + n), t.v[1]))))

\* The pieces, at most count, of the payload from its offset-th buffer on.
RECURSIVE Pieces(_, _, _, _, _)
Pieces(s, b, data_offset, len, count) ==
  LET n == Least(len, Size(s, b) - data_offset)
  IN  IF count = 0 \/ len <= 0 THEN <<>>
      ELSE <<SubSeq(s.bufs[b], data_offset + 1, data_offset + n)>>
           \o Pieces(s, DEQ_NEXT(s, b), 0, len - n, count - 1)
RECURSIVE SkipBuffers(_, _, _)
SkipBuffers(s, pay, offset) ==
  IF offset = 0 \/ pay.len <= 0 THEN pay
  ELSE SkipBuffers(s, [pay EXCEPT !.b = DEQ_NEXT(s, @), !.off = 0,
                                  !.len = @ - (Size(s, pay.b) - pay.off)], offset - 1)
qd_message_stream_data_buffers(s, sd, offset, count) ==
  LET at == SkipBuffers(s, sd.payload, offset)
  IN  Pieces(s, at.b, at.off, at.len, count)

RECURSIVE CountTo(_, _, _)
CountTo(s, b, last) == IF b = last \/ b = 0 THEN 1 ELSE 1 + CountTo(s, DEQ_NEXT(s, b), last)
qd_message_stream_data_buffer_count(s, sd) ==
  IF sd.payload.len = 0 THEN 0 ELSE CountTo(s, sd.payload.b, sd.last_buffer)

\* The body cursor of a reader that has not begun: the body if there is one,
\* otherwise the footer.
BodyStart(s, r) ==
  LET At(d, depth) == [d EXCEPT !.s.body[r] = [b |-> d.s.loc[depth].b, c |-> d.s.loc[depth].off]]
  IN  IF s.body[r].b # 0 THEN [rc |-> "OK", s |-> s]
      ELSE With(qd_message_check_depth(s, QD_DEPTH_BODY), LAMBDA d :
             IF d.rc # "OK" THEN d
             ELSE IF d.s.loc[QD_DEPTH_BODY].b # 0 THEN At(d, QD_DEPTH_BODY)
             ELSE With(qd_message_check_depth(d.s, QD_DEPTH_ALL), LAMBDA f :
                    IF f.rc # "OK" THEN f ELSE At(f, QD_DEPTH_ALL)))

\* A section [st, cur, loc] that was found becomes the last of the reader's list.
NewStreamData(s, r, q, footer) ==
  With(find_last_buffer_LH(s, q.loc.b, q.loc.off, q.loc.hdr + q.loc.len), LAMBDA end :
    [s EXCEPT !.body[r] = end, !.given[r] = @ + 1,
              !.list[r] = Append(@, [section |-> q.loc, last_buffer |-> end.b,
                payload |-> trim_stream_data_headers_LH(s, q.loc, ~footer),
                free_prev |-> s.list[r] = <<>> /\ s.body[r].b = DEQ_PREV(s, q.loc.b),
                nth |-> s.given[r] + 1])])

\* A section of data at cur, or if it is none the footer.
StreamSection(s, cur, footer) ==
  message_section_check_LH(s, cur, Pattern(IF footer THEN FOOTER ELSE BODY_DATA, TRUE),
    IF footer THEN TAGS_MAP ELSE TAGS_BINARY, NoLocation, TRUE, FALSE)
StreamAnswer(s, r, q, footer) ==
  IF q.st = "MATCH"
  THEN [rc |-> IF footer THEN "FOOTER_OK" ELSE "BODY_OK", s |-> NewStreamData(s, r, q, footer)]
  ELSE [rc |-> IF q.st # "NEED_MORE" THEN "INVALID"
               ELSE IF s.complete THEN "NO_MORE" ELSE "INCOMPLETE",
        s |-> [s EXCEPT !.body[r] = q.cur]]

qd_message_next_stream_data(s, r) ==
  With(BodyStart(s, r), LAMBDA start :
    IF start.rc # "OK" THEN start
    ELSE IF start.s.body[r].b = 0 THEN [start EXCEPT !.rc = "NO_MORE"]
    ELSE With(StreamSection(start.s, start.s.body[r], FALSE), LAMBDA d :
           IF d.st = "NO_MATCH"
           THEN StreamAnswer(start.s, r, StreamSection(start.s, d.cur, TRUE), TRUE)
           ELSE StreamAnswer(start.s, r, d, FALSE)))

Between(s, start, stop) ==
  {b \in 1..Len(s.bufs) : b \notin s.freed /\ b >= start /\ (stop = 0 \/ b < stop)}

\* The buffers a release gives back, from start_buf up to stop_buf; none if all
\* overlap.
NoRange == [start |-> 0, stop |-> 0]
GivenBack(s, r, i) ==
  LET sd == s.list[r][i]
      first == IF sd.free_prev THEN DEQ_PREV(s, sd.section.b) ELSE sd.section.b
      overlaps == i > 1 /\ s.list[r][i - 1].last_buffer = first
      keeps == \/ sd.last_buffer = s.body[r].b
               \/ i < Len(s.list[r]) /\ s.list[r][i + 1].section.b = sd.last_buffer
  IN  IF overlaps /\ first = sd.last_buffer THEN NoRange
      ELSE [start |-> IF overlaps THEN DEQ_NEXT(s, first) ELSE first,
            stop |-> IF keeps THEN sd.last_buffer ELSE DEQ_NEXT(s, sd.last_buffer)]

\* The i-th stream data of the reader, whose release is under way, is gone.
Removed(s, r, i) ==
  [s EXCEPT !.list[r] = SubSeq(@, 1, i - 1) \o SubSeq(@, i + 1, Len(@)),
            !.rel[r] = [todo |-> Tail(@.todo), range |-> NoRange]]

\* qd_message_stream_data_release up to the lock: the range is read from a chain
\* that other readers may be changing.
FindRange(s, r) ==
  LET i == Head(s.rel[r].todo)
      range == GivenBack(s, r, i)
  IN  IF range = NoRange THEN Removed(s, r, i) ELSE [s EXCEPT !.rel[r].range = range]

\* With the lock: both walks go from start_buf to stop_buf, and past the end of
\* the chain when another reader has freed stop_buf in the meantime.
FreeRange(s, r) ==
  LET range == s.rel[r].range
      bs == Between(s, range.start, range.stop)
      fan == [b \in DOMAIN s.fan |-> IF sxcfg.fanout > 0 /\ b \in bs THEN s.fan[b] - 1 ELSE s.fan[b]]
  IN  IF {range.start, range.stop} \cap s.freed # {} THEN [s EXCEPT !.wild = TRUE]
      ELSE Removed([s EXCEPT !.fan = fan, !.freed = @ \cup {b \in bs : fan[b] = 0}],
                   r, Head(s.rel[r].todo))

(***************************************************************************)
(* Buffers arrive, the receiver's and the readers' calls come in any order *)
(***************************************************************************)
Readers == 1..(IF sxcfg.fanout = 0 THEN 1 ELSE sxcfg.fanout)

SectionOctets(x) == Pattern(x.code, x.short) \o x.value
RECURSIVE MessageOctets(_)
MessageOctets(msg) ==
  IF msg = <<>> THEN <<>> ELSE SectionOctets(Head(msg)) \o MessageOctets(Tail(msg))
Received == Len(Flat(sx.bufs))

NoAnswer == [call |-> "none", of |-> 0, rc |-> "OK"]

SxInit ==
  /\ sxcfg \in SxConfigs
  /\ sx = [bufs |-> <<>>, freed |-> {}, fan |-> <<>>, protected |-> 0, complete |-> FALSE,
           depth |-> 0, cur |-> [b |-> 0, c |-> 0], loc |-> [d \in Depths |-> NoLocation],
           field |-> [i \in Fields |-> NoLocation],
           body |-> [r \in Readers |-> [b |-> 0, c |-> 0]], list |-> [r \in Readers |-> <<>>],
           given |-> [r \in Readers |-> 0],
           rel |-> [r \in Readers |-> [todo |-> <<>>, range |-> NoRange]],
           wild |-> FALSE, unordered |-> FALSE,
           ans |-> NoAnswer]

\* The next octets are added in a buffer with a reference for each fanout.
Arrive ==
  LET all == MessageOctets(sxcfg.msg)
      n == IF sx.bufs = <<>> THEN sxcfg.first ELSE sxcfg.size
  IN  /\ Received < Len(all)
      /\ sx' = [sx EXCEPT !.bufs = Append(@, SubSeq(all, Received + 1, Least(Len(all), Received + n))),
                          !.fan = Append(@, sxcfg.fanout),
                          !.ans = NoAnswer]
      /\ UNCHANGED sxcfg

ReceiveComplete ==
  /\ ~sx.complete /\ Received = Len(MessageOctets(sxcfg.msg))
  /\ sx' = [sx EXCEPT !.complete = TRUE, !.ans = NoAnswer]
  /\ UNCHANGED sxcfg

Answer(call, of, r) == sx' = [r.s EXCEPT !.ans = [call |-> call, of |-> of, rc |-> r.rc]]

\* A section is not asked for any more once its place in the chain was freed:
\* qd_message_check_LH refuses that only when qd_message_send has freed buffers.
qd_message_field_location(d) ==
  /\ sx.cur.b \notin sx.freed
  /\ ~sx.loc[d].parsed
  /\ Answer("depth", d, qd_message_check_depth(sx, d))
  /\ UNCHANGED sxcfg

PropertyField(index) ==
  /\ sx.cur.b \notin sx.freed \/ sx.depth >= 4
  /\ Answer("field", index, With(qd_message_properties_field(sx, index), LAMBDA r :
                              [rc |-> IF r.ok THEN "OK" ELSE "NONE", s |-> r.s]))
  /\ UNCHANGED sxcfg

\* A reader makes one call at a time.
AtRest(r) == sx.rel[r].todo = <<>>

NextStreamData(r) ==
  /\ AtRest(r)
  /\ sx.body[r].b # 0 \/ sx.depth >= QD_DEPTH_BODY \/ sx.cur.b \notin sx.freed
  /\ Answer("stream", r, qd_message_next_stream_data(sx, r))
  /\ UNCHANGED sxcfg

\* The releases that a call makes, each of the stream data then at that place; of
\* readers that share the message it is noted when one does not take its oldest.
Releases(r, todo) ==
  /\ AtRest(r)
  /\ sx' = [FindRange([sx EXCEPT !.rel[r].todo = todo], r)
              EXCEPT !.ans = NoAnswer, !.unordered = @ \/ (sxcfg.fanout > 1 /\ todo[1] # 1)]
  /\ UNCHANGED sxcfg

qd_message_stream_data_release(r, i) == i <= Len(sx.list[r]) /\ Releases(r, <<i>>)

qd_message_stream_data_release_up_to(r, i) ==
  i <= Len(sx.list[r]) /\ Releases(r, [k \in 1..i |-> 1])

ReleaseGoesOn(r) ==
  /\ ~AtRest(r)
  /\ sx' = [IF sx.rel[r].range = NoRange THEN FindRange(sx, r) ELSE FreeRange(sx, r)
              EXCEPT !.ans = NoAnswer]
  /\ UNCHANGED sxcfg

SxNext ==
  /\ ~sx.wild
  /\ \/ Arrive
     \/ ReceiveComplete
     \/ \E d \in sxcfg.depths : qd_message_field_location(d)
     \/ \E index \in sxcfg.fields : PropertyField(index)
     \/ \E r \in Readers : NextStreamData(r) \/ ReleaseGoesOn(r)
     \/ \E r \in Readers, i \in 1..4 : qd_message_stream_data_release(r, i)
     \/ \E r \in Readers, i \in 2..4 : qd_message_stream_data_release_up_to(r, i)

SxSpec == SxInit /\ [][SxNext]_sxvars

(***************************************************************************)
(* What the message really holds.                                          *)
(***************************************************************************)
DepthOf(code) == CASE code <= APPLICATION_PROPERTIES -> code - HEADER + 1
                   [] code = FOOTER -> QD_DEPTH_ALL [] OTHER -> QD_DEPTH_BODY
NthAt(i) == Len(MessageOctets(SubSeq(sxcfg.msg, 1, i - 1)))
FirstOf(d) == CHOOSE i \in DOMAIN sxcfg.msg :
                DepthOf(sxcfg.msg[i].code) = d /\ \A j \in 1..(i - 1) : DepthOf(sxcfg.msg[j].code) # d
\* Only a footer behind the first section of the body is looked for.
Present(d) ==
  \E i \in DOMAIN sxcfg.msg :
    /\ DepthOf(sxcfg.msg[i].code) = d
    /\ d = QD_DEPTH_ALL =>
         Cardinality({j \in 1..(i - 1) : DepthOf(sxcfg.msg[j].code) = QD_DEPTH_BODY}) <= 1
Absolute(loc) == Len(Flat(SubSeq(sx.bufs, 1, loc.b - 1))) + loc.off
Streamed == SelectSeq(sxcfg.msg, LAMBDA x : DepthOf(x.code) >= QD_DEPTH_BODY)
PayloadOf(x) ==
  IF x.code = FOOTER THEN x.value
  ELSE SubSeq(x.value, IF x.value[1] = QD_AMQP.VBIN8 THEN 3 ELSE 6, Len(x.value))
Lives(b, n) == \A i \in b..Len(sx.bufs) :
                 Len(Flat(SubSeq(sx.bufs, 1, i - 1))) < n => i \notin sx.freed

\* The location of a section is where the section is, and its buffers are kept
\* (those of the body until they are read).
LocationExact(d) ==
  LET loc == sx.loc[d]
      x == sxcfg.msg[FirstOf(d)]
  IN  loc.parsed =>
        /\ Present(d)
        /\ Absolute(loc) = NthAt(FirstOf(d))
        /\ loc.hdr = Len(Pattern(x.code, x.short)) /\ loc.len = Len(x.value)
        /\ d < QD_DEPTH_BODY =>
             /\ Lives(loc.b, Absolute(loc) + loc.hdr + loc.len)
             /\ qd_message_field_copy(sx, loc.b, loc.off, loc.hdr + loc.len) = SectionOctets(x)

\* The location of a property is where parse.c finds it in the section.
FieldExact(i) ==
  LET f == sx.field[i]
      value == <<sxcfg.msg[FirstOf(4)].value>>
  IN  f.parsed =>
        /\ Lives(f.b, Absolute(f) + f.hdr + f.len)
        /\ With(qd_parse(value, Len(value[1])), LAMBDA p :
             /\ i < Len(p.kids)
             /\ qd_message_field_copy(sx, f.b, f.off, f.hdr + f.len)
                  = qd_parse_typed(value, p.kids[i + 1]))

\* The payload of what a reader holds is that of the section it stands for.
StreamDataExact(sd) ==
  LET x == Streamed[sd.nth]
      n == qd_message_stream_data_buffer_count(sx, sd)
      first == Least(n, 1)
  IN  /\ sd.nth <= Len(Streamed)
      /\ Lives(sd.payload.b, Absolute(sd.payload) + sd.payload.len)
      /\ sd.payload.len = Len(PayloadOf(x))
      /\ Flat(qd_message_stream_data_buffers(sx, sd, 0, first)
              \o qd_message_stream_data_buffers(sx, sd, first, n)) = PayloadOf(x)

\* Whatever the buffers the message comes in and whatever the order of the
\* calls, the sections and properties that qd_message_check_depth and
\* qd_message_properties_field locate are the ones of the message, a well-formed
\* message is never called invalid and once complete never incomplete, each
\* reader is given the sections of the body in order and without a gap, and no
\* release frees a buffer that a section, a property, another section in a
\* reader's hands or a body cursor still refers to.  A single reader may release
\* in any order.  Readers that share the message may do so too, but the range is
\* read before the lock is taken (message.c:2640): only then, and only when one
\* has released other than its oldest, may a walk miss its end and go wild.
SectionsSound ==
  IF sx.wild THEN sx.unordered ELSE
  /\ \A d \in Depths : LocationExact(d) /\ (d <= sx.depth => (sx.loc[d].parsed = Present(d)))
  /\ \A i \in Fields : FieldExact(i)
  /\ sx.ans.call = "depth" =>
       sx.ans.rc \in (IF sx.complete THEN {"OK"} ELSE {"OK", "INCOMPLETE"})
  /\ sx.ans.call = "field" /\ sx.complete =>
       (sx.ans.rc = "OK") =
         (Present(4) /\ LET v == sxcfg.msg[FirstOf(4)].value
                        IN  sx.ans.of < Len(qd_parse(<<v>>, Len(v)).kids))
  /\ sx.ans.call = "stream" =>
       /\ sx.ans.rc # "INVALID"
       /\ sx.complete => sx.ans.rc # "INCOMPLETE"
       /\ sx.ans.rc = "NO_MORE" => sx.given[sx.ans.of] = Len(Streamed)
  /\ \A r \in Readers :
       /\ \A i \in DOMAIN sx.list[r] : StreamDataExact(sx.list[r][i])
       /\ sx.body[r].b \notin sx.freed
  /\ \A b \in DOMAIN sx.fan : sx.fan[b] >= 0

====
