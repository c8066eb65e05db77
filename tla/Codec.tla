------------------------------- MODULE Codec -------------------------------
(***************************************************************************)
(* The AMQP type codec: compose.c writes a field into a chain of buffers,  *)
(* overwriting the length and the count of a list or a map once they are   *)
(* known; buffer_field_api.h reads a field that spans buffers; parse.c     *)
(* decodes it into a tree and converts its numbers.                        *)
(*                                                                         *)
(* An octet is 0..255.  A 64-bit word is the sequence of its eight octets, *)
(* so that no integer of the code overflows one of TLC; lengths and counts *)
(* stay small and are plain integers.                                      *)
(***************************************************************************)
EXTENDS Integers, Sequences, FiniteSets

CONSTANT CdConfigs     \* [size, scalars, depth, steps]

VARIABLES cdcfg, cd

cdvars == <<cdcfg, cd>>

QD_AMQP ==
  [NULL |-> 64, TRU |-> 65, FALS |-> 66, UINT0 |-> 67, ULONG0 |-> 68,
   LIST0 |-> 69, UBYTE |-> 80, BYTE |-> 81, SMALLUINT |-> 82,
   SMALLULONG |-> 83, SMALLINT |-> 84, SMALLLONG |-> 85, BOOLEAN |-> 86,
   USHORT |-> 96, SHORT |-> 97, UINT |-> 112, INT |-> 113, ULONG |-> 128,
   LONG |-> 129, DOUBLE |-> 130, TIMESTAMP |-> 131, UUID |-> 152,
   VBIN8 |-> 160, STR8 |-> 161, SYM8 |-> 163, VBIN32 |-> 176,
   STR32 |-> 177, SYM32 |-> 179, LIST8 |-> 192, MAP8 |-> 193,
   LIST32 |-> 208, MAP32 |-> 209]

\* The n octets of an integer, most significant first (two's complement).
RECURSIVE Octets(_, _)
Octets(v, n) == IF n = 0 THEN <<>> ELSE Append(Octets(v \div 256, n - 1), v % 256)

\* The integer of a sequence of octets.
RECURSIVE Number(_)
Number(s) == IF s = <<>> THEN 0
             ELSE Number(SubSeq(s, 1, Len(s) - 1)) * 256 + s[Len(s)]

Zeros(w, n) == \A i \in 1..n : w[i] = 0
Low(w, n) == SubSeq(w, Len(w) - n + 1, Len(w))
\* The n octets s as a signed word.
SignExtend(s) ==
  [i \in 1..8 |-> IF i > 8 - Len(s) THEN s[i - (8 - Len(s))]
                  ELSE IF s[1] < 128 THEN 0 ELSE 255]
ZeroExtend(s) ==
  [i \in 1..8 |-> IF i > 8 - Len(s) THEN s[i - (8 - Len(s))] ELSE 0]
FitsSigned(w, n) == w = SignExtend(Low(w, n))

\* F of a value that is computed once.
With(v, F(_)) == F(v)

Least(a, b) == IF a <= b THEN a ELSE b
TailOf(s) == s[Len(s)]
RECURSIVE Flat(_)
Flat(bufs) == IF bufs = <<>> THEN <<>> ELSE Head(bufs) \o Flat(Tail(bufs))

(***************************************************************************)
(* compose.c                                                               *)
(***************************************************************************)
qd_compose_subfield == [bufs |-> <<>>, stack |-> <<>>]

bump_count_by_n(f, n) ==
  IF f.stack = <<>> THEN f ELSE [f EXCEPT !.stack[1].count = @ + n]
bump_count(f) == bump_count_by_n(f, 1)
bump_length(f, n) ==
  IF f.stack = <<>> THEN f ELSE [f EXCEPT !.stack[1].length = @ + n]

RECURSIVE qd_insert(_, _)
qd_insert(f, seq) ==
  IF seq = <<>> THEN f
  ELSE LET g == IF f.bufs = <<>> \/ Len(TailOf(f.bufs)) >= cdcfg.size
                THEN [f EXCEPT !.bufs = Append(@, <<>>)] ELSE f
           n == Least(Len(seq), cdcfg.size - Len(TailOf(g.bufs)))
           h == [g EXCEPT !.bufs[Len(g.bufs)] = @ \o SubSeq(seq, 1, n)]
       IN  qd_insert(bump_length(h, n), SubSeq(seq, n + 1, Len(seq)))

qd_insert_8(f, v) == qd_insert(f, <<v>>)
qd_insert_32(f, v) == qd_insert(f, v)      \* v: four octets
qd_insert_64(f, w) == qd_insert(f, w)

RECURSIVE qd_overwrite(_, _, _)
qd_overwrite(bufs, loc, v) ==
  IF loc.b > Len(bufs) THEN [bufs |-> bufs, loc |-> loc]
  ELSE IF loc.o >= Len(bufs[loc.b])
       THEN qd_overwrite(bufs, [b |-> loc.b + 1, o |-> 0], v)
       ELSE [bufs |-> [bufs EXCEPT ![loc.b][loc.o + 1] = v],
             loc |-> [loc EXCEPT !.o = @ + 1]]

qd_overwrite_32(bufs, loc, v) ==
  LET o == Octets(v, 4)
      r1 == qd_overwrite(bufs, loc, o[1])
      r2 == qd_overwrite(r1.bufs, r1.loc, o[2])
      r3 == qd_overwrite(r2.bufs, r2.loc, o[3])
  IN  qd_overwrite(r3.bufs, r3.loc, o[4]).bufs

Here(f) == [b |-> Len(f.bufs), o |-> Len(TailOf(f.bufs))]

qd_compose_start_composite(f, isMap) ==
  LET g == qd_insert_8(f, IF isMap THEN QD_AMQP.MAP32 ELSE QD_AMQP.LIST32)
      h == qd_insert(g, <<0, 0, 0, 0>>)
      k == qd_insert(h, <<0, 0, 0, 0>>)
      comp == [map |-> isMap, length_location |-> Here(g),
               count_location |-> Here(h), length |-> 4, count |-> 0]
  IN  [k EXCEPT !.stack = <<comp>> \o @]

\* A mutant: what was written inside is added to the enclosing composite
\* together with the count that it has already accounted for.
qd_compose_end_composite_CountsTwice(f) ==
  LET comp == f.stack[1]
      b1 == qd_overwrite_32(f.bufs, comp.length_location, comp.length)
      b2 == qd_overwrite_32(b1, comp.count_location, comp.count)
      g == [bufs |-> b2, stack |-> Tail(f.stack)]
  IN  bump_count(bump_length(g, comp.length))

qd_compose_end_composite(f) ==
  LET comp == f.stack[1]
      b1 == qd_overwrite_32(f.bufs, comp.length_location, comp.length)
      b2 == qd_overwrite_32(b1, comp.count_location, comp.count)
      g == [bufs |-> b2, stack |-> Tail(f.stack)]
  IN  bump_count(bump_length(g, comp.length - 4))

qd_compose_empty_list(f) == bump_count(qd_insert_8(f, QD_AMQP.LIST0))
qd_compose_insert_null(f) == bump_count(qd_insert_8(f, QD_AMQP.NULL))
qd_compose_insert_bool(f, v) ==
  bump_count(qd_insert_8(f, IF v THEN QD_AMQP.TRU ELSE QD_AMQP.FALS))

qd_compose_insert_uint(f, w) ==
  bump_count(
    IF Zeros(w, 8) THEN qd_insert_8(f, QD_AMQP.UINT0)
    ELSE IF Zeros(w, 7)
         THEN qd_insert_8(qd_insert_8(f, QD_AMQP.SMALLUINT), w[8])
         ELSE qd_insert_32(qd_insert_8(f, QD_AMQP.UINT), Low(w, 4)))

qd_compose_insert_ulong(f, w) ==
  bump_count(
    IF Zeros(w, 8) THEN qd_insert_8(f, QD_AMQP.ULONG0)
    ELSE IF Zeros(w, 7)
         THEN qd_insert_8(qd_insert_8(f, QD_AMQP.SMALLULONG), w[8])
         ELSE qd_insert_64(qd_insert_8(f, QD_AMQP.ULONG), w))

qd_compose_insert_int(f, w) ==
  bump_count(
    IF FitsSigned(w, 1)
    THEN qd_insert_8(qd_insert_8(f, QD_AMQP.SMALLINT), w[8])
    ELSE qd_insert_32(qd_insert_8(f, QD_AMQP.INT), Low(w, 4)))

qd_compose_insert_long(f, w) ==
  bump_count(
    IF FitsSigned(w, 1)
    THEN qd_insert_8(qd_insert_8(f, QD_AMQP.SMALLLONG), w[8])
    ELSE qd_insert_64(qd_insert_8(f, QD_AMQP.LONG), w))

qd_compose_insert_timestamp(f, w) ==
  bump_count(qd_insert_64(qd_insert_8(f, QD_AMQP.TIMESTAMP), w))
qd_compose_insert_double(f, w) ==
  bump_count(qd_insert_64(qd_insert_8(f, QD_AMQP.DOUBLE), w))
qd_compose_insert_uuid(f, s) ==
  bump_count(qd_insert(qd_insert_8(f, QD_AMQP.UUID), s))

\* The header of a value of variable length: one octet or four for it.
VarHeader(f, tag8, tag32, len) ==
  IF len < 256 THEN qd_insert_8(qd_insert_8(f, tag8), len)
  ELSE qd_insert_32(qd_insert_8(f, tag32), Octets(len, 4))

qd_compose_insert_binary(f, s) ==
  bump_count(qd_insert(VarHeader(f, QD_AMQP.VBIN8, QD_AMQP.VBIN32, Len(s)), s))
qd_compose_insert_string_n(f, s) ==
  bump_count(qd_insert(VarHeader(f, QD_AMQP.STR8, QD_AMQP.STR32, Len(s)), s))
qd_compose_insert_symbol(f, s) ==
  bump_count(qd_insert(VarHeader(f, QD_AMQP.SYM8, QD_AMQP.SYM32, Len(s)), s))
qd_compose_insert_string2(f, s1, s2) ==
  bump_count(qd_insert(qd_insert(
    VarHeader(f, QD_AMQP.STR8, QD_AMQP.STR32, Len(s1) + Len(s2)), s1), s2))

qd_compose_insert_binary_buffers(f, list) ==
  LET len == Len(Flat(list))
  IN  bump_count(bump_length(
        [VarHeader(f, QD_AMQP.VBIN8, QD_AMQP.VBIN32, len) EXCEPT !.bufs = @ \o list], len))

qd_compose_insert_buffers(f, list) ==
  LET len == Len(Flat(list))
  IN  IF len = 0 THEN f
      ELSE bump_count(bump_length([f EXCEPT !.bufs = @ \o list], len))

qd_compose_insert_typed_iterator(f, octets) == bump_count(qd_insert(f, octets))

(***************************************************************************)
(* buffer.c and buffer_field_api.h: a field is a place in a chain of       *)
(* buffers (buffer b, c octets of it already read) and what remains of it. *)
(***************************************************************************)
RECURSIVE qd_buffer_list_append(_, _)
qd_buffer_list_append(list, data) ==
  IF data = <<>> THEN list
  ELSE LET l == IF list = <<>> THEN <<<<>>>> ELSE list
           n == Least(Len(data), cdcfg.size - Len(TailOf(l)))
           m == [l EXCEPT ![Len(l)] = @ \o SubSeq(data, 1, n)]
       IN  IF n = Len(data) THEN m
           ELSE qd_buffer_list_append(Append(m, <<>>), SubSeq(data, n + 1, Len(data)))

RECURSIVE qd_buffer_field_normalize(_, _)
qd_buffer_field_normalize(bufs, bf) ==
  IF bf.remaining > 0 /\ bf.c = Len(bufs[bf.b])
  THEN qd_buffer_field_normalize(bufs, [bf EXCEPT !.b = @ + 1, !.c = 0])
  ELSE bf

qd_buffer_field(bufs, remaining) ==
  qd_buffer_field_normalize(bufs, [b |-> 1, c |-> 0, remaining |-> remaining])

\* n octets of the buffer further on.
Skip(bf, n) == [bf EXCEPT !.c = @ + n, !.remaining = @ - n]

RECURSIVE ncopy(_, _, _)
ncopy(bufs, bf, n) ==
  LET count == Least(n, bf.remaining)
      avail == Len(bufs[bf.b]) - bf.c
      part(k) == SubSeq(bufs[bf.b], bf.c + 1, bf.c + k)
  IN  IF count = 0 THEN [data |-> <<>>, bf |-> bf]
      ELSE IF count < avail THEN [data |-> part(count), bf |-> Skip(bf, count)]
      ELSE [ncopy(bufs, qd_buffer_field_normalize(bufs, Skip(bf, avail)), count - avail)
              EXCEPT !.data = part(avail) \o @]

RECURSIVE qd_buffer_field_advance(_, _, _)
qd_buffer_field_advance(bufs, bf, amount) ==
  LET count == Least(amount, bf.remaining)
      avail == Len(bufs[bf.b]) - bf.c
  IN  IF count = 0 THEN bf
      ELSE IF count < avail THEN Skip(bf, count)
      ELSE qd_buffer_field_advance(bufs,
             qd_buffer_field_normalize(bufs, Skip(bf, avail)), count - avail)

qd_buffer_field_octet(bufs, bf) ==
  IF bf.remaining = 0 THEN [ok |-> FALSE, v |-> 0, bf |-> bf]
  ELSE [ok |-> TRUE, v |-> bufs[bf.b][bf.c + 1],
        bf |-> qd_buffer_field_normalize(bufs, Skip(bf, 1))]

qd_buffer_field_uint32(bufs, bf) ==
  IF bf.remaining < 4 THEN [ok |-> FALSE, v |-> <<0, 0, 0, 0>>, bf |-> bf]
  ELSE With(ncopy(bufs, bf, 4), LAMBDA r : [ok |-> TRUE, v |-> r.data, bf |-> r.bf])

qd_buffer_field_strdup(bufs, bf) == ncopy(bufs, bf, bf.remaining).data

RECURSIVE qd_buffer_field_equal(_, _, _)
qd_buffer_field_equal(bufs, bf, data) ==
  LET count == Len(data)
      avail == Least(count, Len(bufs[bf.b]) - bf.c)
  IN  /\ bf.remaining >= count
      /\ count > 0 =>
           /\ SubSeq(bufs[bf.b], bf.c + 1, bf.c + avail) = SubSeq(data, 1, avail)
           /\ count > avail =>
                qd_buffer_field_equal(bufs,
                  qd_buffer_field_normalize(bufs, Skip(bf, avail)),
                  SubSeq(data, avail + 1, count))

RECURSIVE qd_buffer_list_append_field(_, _, _)
qd_buffer_list_append_field(list, bufs, bf) ==
  IF bf.remaining = 0 THEN list
  ELSE LET len == Least(bf.remaining, Len(bufs[bf.b]) - bf.c)
           data == SubSeq(bufs[bf.b], bf.c + 1, bf.c + len)
           next == IF bf.remaining = len THEN Skip(bf, len)
                   ELSE [b |-> bf.b + 1, c |-> 0, remaining |-> bf.remaining - len]
       IN  qd_buffer_list_append_field(qd_buffer_list_append(list, data), bufs, next)

(***************************************************************************)
(* parse.c                                                                 *)
(***************************************************************************)
tag_get_size_length(tag) ==
  IF tag < 160 THEN 0 ELSE IF (tag \div 16) % 2 = 0 THEN 1 ELSE 4
tag_get_count_length(tag) ==
  IF tag < 192 THEN 0 ELSE IF (tag \div 16) % 2 = 0 THEN 1 ELSE 4

is_tag_a_map(tag) == tag \in {QD_AMQP.MAP8, QD_AMQP.MAP32}

\* The size or the count: one octet or four.
Field(bufs, bf, n) ==
  IF n = 1 THEN qd_buffer_field_octet(bufs, bf)
  ELSE With(qd_buffer_field_uint32(bufs, bf), LAMBDA r : [r EXCEPT !.v = Number(@)])

\* The size after the tag t: its class fixes it, or it is read.
SizeOf(bufs, t) ==
  IF tag_get_size_length(t.v) = 0
  THEN [ok |-> TRUE, bf |-> t.bf,
        v |-> CASE t.v \div 16 = 5 -> 1 [] t.v \div 16 = 6 -> 2
                [] t.v \div 16 = 7 -> 4 [] t.v \div 16 = 8 -> 8
                [] t.v \div 16 = 9 -> 16 [] OTHER -> 0]
  ELSE Field(bufs, t.bf, tag_get_size_length(t.v))
\* The count after the size s, in lc octets.
CountOf(bufs, s, lc) ==
  IF lc = 0 THEN [ok |-> TRUE, v |-> 0, bf |-> s.bf] ELSE Field(bufs, s.bf, lc)

ParseError(t, s, c, next, lc) ==
  IF ~t.ok THEN "tag" ELSE IF t.v < 64 THEN "invalid"
  ELSE IF ~s.ok THEN "length" ELSE IF ~c.ok THEN "count"
  ELSE IF is_tag_a_map(t.v) /\ c.v % 2 = 1 THEN "odd"
  ELSE IF lc > s.v THEN "short"
  ELSE IF c.bf.remaining - next.remaining # s.v - lc THEN "truncated" ELSE ""

parse_amqp_field(bufs, bf0) ==
  With(qd_buffer_field_octet(bufs, bf0), LAMBDA t :
  With(tag_get_count_length(t.v), LAMBDA lc :
  With(SizeOf(bufs, t), LAMBDA s :
  With(CountOf(bufs, s, lc), LAMBDA c :
  With(qd_buffer_field_advance(bufs, c.bf, s.v - lc), LAMBDA next :
    [err |-> ParseError(t, s, c, next, lc), tag |-> t.v, size |-> s.v,
     count |-> c.v, value |-> [c.bf EXCEPT !.remaining = s.v - lc],
     next |-> next])))))

\* What qd_parse_internal returns: the parsed field and where it ends.
RECURSIVE qd_parse_internal(_, _), ParseChildren(_, _, _)
ParseChildren(bufs, bf, n) ==
  IF n = 0 THEN [kids |-> <<>>, err |-> ""]
  ELSE With(qd_parse_internal(bufs, bf), LAMBDA r :
         IF r.p.err # "" THEN [kids |-> <<r.p>>, err |-> r.p.err]
         ELSE [ParseChildren(bufs, r.next, n - 1) EXCEPT !.kids = <<r.p>> \o @])

qd_parse_internal(bufs, bf) ==
  With(parse_amqp_field(bufs, bf), LAMBDA a :
  With(IF a.err # "" THEN [kids |-> <<>>, err |-> a.err]
       ELSE ParseChildren(bufs, a.value, a.count), LAMBDA k :
    [next |-> a.next,
     p |-> [err |-> k.err, tag |-> a.tag, value |-> a.value, kids |-> k.kids,
            full |-> IF a.err # "" THEN bf
                     ELSE [bf EXCEPT !.remaining = @ - a.next.remaining]]]))

qd_parse(bufs, length) == qd_parse_internal(bufs, qd_buffer_field(bufs, length)).p

RECURSIVE qd_parse_dup_internal(_)
qd_parse_dup_internal(p) ==
  [p EXCEPT !.err = "", !.kids = [i \in 1..Len(p.kids) |-> qd_parse_dup_internal(p.kids[i])]]

qd_parse_typed(bufs, p) == qd_buffer_field_strdup(bufs, p.full)
qd_parse_raw(bufs, p) == qd_buffer_field_strdup(bufs, p.value)
qd_parse_is_list(p) == p.tag \in {QD_AMQP.LIST8, QD_AMQP.LIST32, QD_AMQP.LIST0}
qd_parse_is_map(p) == is_tag_a_map(p.tag)
qd_parse_is_string(p) == p.tag \in {QD_AMQP.STR8, QD_AMQP.STR32}
Texts == {QD_AMQP.STR8, QD_AMQP.STR32, QD_AMQP.SYM8, QD_AMQP.SYM32}
qd_parse_as_string(bufs, p) == IF p.tag \in Texts THEN qd_parse_raw(bufs, p) ELSE <<>>
qd_parse_as_bool(bufs, p) ==
  \/ p.tag \in {QD_AMQP.BYTE, QD_AMQP.BOOLEAN} /\ qd_parse_raw(bufs, p) # <<0>>
  \/ p.tag = QD_AMQP.TRU
qd_parse_sub_count(p) == IF qd_parse_is_map(p) THEN Len(p.kids) \div 2 ELSE Len(p.kids)
qd_parse_sub_key(p, idx) == p.kids[2 * idx + 1]
qd_parse_sub_value(p, idx) ==
  IF qd_parse_is_map(p) THEN p.kids[2 * idx + 2] ELSE p.kids[idx + 1]

qd_parse_value_by_key(bufs, p, key) ==
  LET hits == {i \in 0..(qd_parse_sub_count(p) - 1) :
                 qd_buffer_field_equal(bufs, qd_parse_sub_key(p, i).value, key)}
      first == CHOOSE i \in hits : \A j \in hits : i <= j
  IN  IF hits = {} THEN [found |-> FALSE]
      ELSE [found |-> TRUE, p |-> qd_parse_sub_value(p, first)]

\* sscanf of a decimal: its leading digits.
RECURSIVE Digits(_)
Digits(s) == IF s = <<>> \/ ~(s[1] \in 48..57) THEN <<>> ELSE <<s[1]>> \o Digits(Tail(s))
RECURSIVE Decimal(_)
Decimal(s) == IF s = <<>> THEN 0
              ELSE Decimal(SubSeq(s, 1, Len(s) - 1)) * 10 + (s[Len(s)] - 48)

Word(w) == [err |-> "", w |-> w]
BadWord(e) == [err |-> e, w |-> ZeroExtend(<<0>>)]

\* What both conversions do with the tags that carry no sign.
UnsignedTags == {QD_AMQP.ULONG, QD_AMQP.UINT, QD_AMQP.USHORT, QD_AMQP.UBYTE,
                 QD_AMQP.SMALLUINT, QD_AMQP.SMALLULONG}
SignedTags == {QD_AMQP.LONG, QD_AMQP.INT, QD_AMQP.SHORT, QD_AMQP.BYTE,
               QD_AMQP.SMALLINT, QD_AMQP.SMALLLONG}
PlainTags == {QD_AMQP.TRU, QD_AMQP.FALS, QD_AMQP.UINT0, QD_AMQP.ULONG0}

\* Decimal digits alone: a sign, which %SCNu64 and %SCNi64 read, and the prefixes of other
\* bases, which %SCNi64 does, are left out (no property reads a number from a text).
FromText(bufs, p) ==
  With(Digits(qd_parse_raw(bufs, p)), LAMBDA d :
    IF d = <<>> THEN BadWord("text") ELSE Word(Octets(Decimal(d), 8)))

qd_parse_as_ulong(bufs, p) ==
  CASE p.tag \in UnsignedTags \cup {QD_AMQP.TIMESTAMP, QD_AMQP.BOOLEAN} ->
         Word(ZeroExtend(qd_parse_raw(bufs, p)))
    [] p.tag \in PlainTags -> Word(Octets(IF p.tag = QD_AMQP.TRU THEN 1 ELSE 0, 8))
    [] p.tag \in Texts -> FromText(bufs, p)
    [] p.tag \in SignedTags ->
         With(SignExtend(qd_parse_raw(bufs, p)), LAMBDA w :
           IF w[1] < 128 THEN Word(w) ELSE BadWord("negative"))
    [] OTHER -> BadWord("type")

\* The largest number of an unsigned tag that is accepted as a signed one: the
\* octets below it are free, the first of them but for its sign bit.
SignedRoom(tag) ==
  CASE tag = QD_AMQP.USHORT -> 2 [] tag = QD_AMQP.UINT -> 4
    [] tag = QD_AMQP.ULONG -> 8 [] OTHER -> 1

qd_parse_as_long(bufs, p) ==
  CASE p.tag \in SignedTags \cup {QD_AMQP.BOOLEAN} ->
         Word(SignExtend(qd_parse_raw(bufs, p)))
    [] p.tag \in PlainTags -> Word(Octets(IF p.tag = QD_AMQP.TRU THEN 1 ELSE 0, 8))
    [] p.tag \in Texts -> FromText(bufs, p)
    [] p.tag \in UnsignedTags ->
         With(qd_parse_as_ulong(bufs, p).w, LAMBDA w :
           IF w = SignExtend(Low(w, SignedRoom(p.tag))) /\ w[1] < 128
           THEN Word(w) ELSE BadWord("unsigned"))
    [] OTHER -> BadWord("type")

\* The error is the call's: in the code it stays on the field, and a later call that asks for
\* a number which does fit fails too.
qd_parse_as_uint(bufs, p) ==
  With(qd_parse_as_ulong(bufs, p), LAMBDA r :
    IF r.err = "" /\ ~Zeros(r.w, 4) THEN BadWord("large") ELSE r)

qd_parse_as_int(bufs, p) ==
  With(qd_parse_as_long(bufs, p), LAMBDA r :
    IF r.err = "" /\ ~FitsSigned(r.w, 4) THEN BadWord("large") ELSE r)

(***************************************************************************)
(* A field is composed by the calls of a caller: values, and lists and     *)
(* maps opened and closed around them.  tree is what the caller means: the *)
(* values composed so far, one list of them for every open composite.      *)
(* saved is an earlier field whose buffers the caller has taken.           *)
(***************************************************************************)
Leaf(op, v) == [op |-> op, v |-> v, kids |-> <<>>]

Inserted(f, s) ==
  CASE s.op = "null" -> qd_compose_insert_null(f)
    [] s.op = "true" -> qd_compose_insert_bool(f, TRUE)
    [] s.op = "false" -> qd_compose_insert_bool(f, FALSE)
    [] s.op = "uint" -> qd_compose_insert_uint(f, s.v)
    [] s.op = "ulong" -> qd_compose_insert_ulong(f, s.v)
    [] s.op = "int" -> qd_compose_insert_int(f, s.v)
    [] s.op = "long" -> qd_compose_insert_long(f, s.v)
    [] s.op = "timestamp" -> qd_compose_insert_timestamp(f, s.v)
    [] s.op = "double" -> qd_compose_insert_double(f, s.v)
    [] s.op = "uuid" -> qd_compose_insert_uuid(f, s.v)
    [] s.op = "binary" -> qd_compose_insert_binary(f, s.v)
    [] s.op = "string" -> qd_compose_insert_string_n(f, s.v)
    [] s.op = "string2" -> qd_compose_insert_string2(f, Low(s.v, 1), SubSeq(s.v, 1, Len(s.v) - 1))
    [] s.op = "symbol" -> qd_compose_insert_symbol(f, s.v)
    [] s.op = "list" -> qd_compose_empty_list(f)

\* The tree with one more value in the innermost open composite.
Put(tree, n) == [tree EXCEPT ![1] = Append(@, n)]
Within == cd.f.stack # <<>> \/ cd.tree[1] = <<>>

CdInit ==
  /\ cdcfg \in CdConfigs
  /\ cd = [f |-> qd_compose_subfield, tree |-> <<<<>>>>, saved |-> <<>>,
           mean |-> <<>>, steps |-> 0]

More == cd.steps < cdcfg.steps

Insert(s) ==
  /\ More /\ Within
  /\ cd' = [cd EXCEPT !.f = Inserted(@, s), !.tree = Put(@, s), !.steps = @ + 1]
  /\ UNCHANGED cdcfg

Start(isMap) ==
  /\ More /\ Within /\ Len(cd.f.stack) < cdcfg.depth
  /\ cd' = [cd EXCEPT !.f = qd_compose_start_composite(@, isMap),
                      !.tree = <<<<>>>> \o @, !.steps = @ + 1]
  /\ UNCHANGED cdcfg

\* The callers of a map insert a value for every key.
End ==
  /\ cd.f.stack # <<>>
  /\ cd.f.stack[1].map => Len(cd.tree[1]) % 2 = 0
  /\ LET n == [op |-> IF cd.f.stack[1].map THEN "map" ELSE "list",
               v |-> <<>>, kids |-> cd.tree[1]]
     IN  cd' = [cd EXCEPT !.f = qd_compose_end_composite(@),
                          !.tree = Put(Tail(@), n)]
  /\ UNCHANGED cdcfg

Complete == cd.f.stack = <<>> /\ cd.tree[1] # <<>>

qd_compose_take_buffers ==
  /\ Complete /\ cd.saved = <<>> /\ More
  /\ cd' = [cd EXCEPT !.f = qd_compose_subfield, !.tree = <<<<>>>>,
                      !.saved = cd.f.bufs, !.mean = cd.tree[1]]
  /\ UNCHANGED cdcfg

\* The taken field goes into the present one: as its buffers, as a binary of
\* them, or copied octet by octet from the parsed field.
Reuse(how) ==
  /\ More /\ Within /\ cd.saved # <<>>
  /\ LET octets == Flat(cd.saved)
         g == CASE how = "buffers" -> qd_compose_insert_buffers(cd.f, cd.saved)
                [] how = "binary" -> qd_compose_insert_binary_buffers(cd.f, cd.saved)
                [] how = "typed" ->
                     qd_compose_insert_typed_iterator(cd.f,
                       qd_parse_typed(cd.saved, qd_parse(cd.saved, Len(octets))))
         n == IF how = "binary" THEN Leaf("binary", octets) ELSE cd.mean[1]
     IN  cd' = [cd EXCEPT !.f = g, !.tree = Put(@, n), !.saved = <<>>,
                          !.mean = <<>>, !.steps = @ + 1]
  /\ UNCHANGED cdcfg

CdNext ==
  \/ \E s \in cdcfg.scalars : Insert(s)
  \/ \E isMap \in BOOLEAN : Start(isMap)
  \/ End
  \/ qd_compose_take_buffers
  \/ \E how \in {"buffers", "binary", "typed"} : Reuse(how)

CdSpec == CdInit /\ [][CdNext]_cdvars

-----------------------------------------------------------------------------
\* The number of a leaf: its word, or none.
Numeric == {"uint", "ulong", "int", "long"}

\* The conversions of a number: the accessor of its own type gives it back, and
\* every other one gives the same number or reports an error.
NumbersRead(bufs, p, n) ==
  LET negative == n.op \in {"int", "long"} /\ n.v[1] >= 128
      huge == n.op \in {"uint", "ulong"} /\ n.v[1] >= 128
      Same(read) ==
        /\ read[n.op] = Word(n.v)
        /\ \A op \in {"uint", "ulong"} :
             read[op].err = "" => read[op].w = n.v /\ ~negative
        /\ \A op \in {"int", "long"} : read[op].err = "" => read[op].w = n.v /\ ~huge
  IN  Same([uint |-> qd_parse_as_uint(bufs, p), ulong |-> qd_parse_as_ulong(bufs, p),
            int |-> qd_parse_as_int(bufs, p), long |-> qd_parse_as_long(bufs, p)])

RECURSIVE Means(_, _, _)
Means(bufs, p, n) ==
  /\ p.err = ""
  /\ n.op \in Numeric => NumbersRead(bufs, p, n)
  /\ n.op = "timestamp" => qd_parse_as_ulong(bufs, p) = Word(n.v)
  /\ n.op \in {"true", "false"} => qd_parse_as_bool(bufs, p) = (n.op = "true")
  /\ n.op \in {"string", "symbol"} => qd_parse_as_string(bufs, p) = n.v
  /\ n.op \in {"double", "uuid", "binary"} => qd_parse_raw(bufs, p) = n.v
  /\ n.op = "string2" =>
       qd_parse_as_string(bufs, p) = Low(n.v, 1) \o SubSeq(n.v, 1, Len(n.v) - 1)
  /\ n.op = "list" => qd_parse_is_list(p)
  /\ n.op = "map" =>
       /\ qd_parse_is_map(p)
       /\ \A i \in 1..(Len(n.kids) \div 2) :
            /\ Means(bufs, qd_parse_sub_key(p, i - 1), n.kids[2 * i - 1])
            /\ Means(bufs, qd_parse_sub_value(p, i - 1), n.kids[2 * i])
  /\ Len(p.kids) = Len(n.kids)
  /\ \A i \in 1..Len(n.kids) : Means(bufs, p.kids[i], n.kids[i])

\* What was composed is what is parsed, however the buffers cut it: every
\* complete field parses, to its last octet, to the values that were inserted,
\* with the numbers intact; a field of which the end is missing is refused, never
\* misread (compose.c's overwritten lengths and counts against parse.c).
CodecSound ==
  Complete =>
    LET bufs == cd.f.bufs
        total == Len(Flat(bufs))
        Whole(p) ==
          /\ \A q \in {p, qd_parse_dup_internal(p)} : Means(bufs, q, cd.tree[1][1])
          /\ qd_parse_typed(bufs, p) = Flat(bufs)
    IN  /\ Whole(qd_parse(bufs, total))
        /\ \A k \in 0..(total - 1) : qd_parse(bufs, k).err # ""

=============================================================================
