--------------------------- MODULE AddressIterator ---------------------------
(***************************************************************************)
(* Iterators over address text (src/iterator.c): the views through which   *)
(* the router looks at an address, and the hashes of their segments.  A    *)
(* view hides scheme, host and a trailing separator, puts a class prefix,  *)
(* a phase and a tenant's space in front, and may end at a slash.          *)
(*                                                                         *)
(* An octet is a string of its own; the words the views know ("topo",      *)
(* "all", the router's area and name) are single octets too.  A buffer     *)
(* field is the sequence of the octets that remain in it, NUL is "".       *)
(***************************************************************************)
EXTENDS Integers, Sequences, FiniteSets, FiniteSetsExt, SequencesExt

CONSTANT ItConfigs
(* Records [texts : set of texts, views : set of views, spaces : set of    *)
(* spaces (<<>> for none), overrides : set of prefixes ("" for none),      *)
(* edge : the router is an edge router, ops : operations at most].         *)

VARIABLES itcfg, it

itvars == <<itcfg, it>>

my_area == <<"A", "/">>
my_router == <<"R", "/">>
Separators == {".", "/"}
NUL == ""

IsMobile(i) == i.prefix = "M"
in_field_data(i) == i.view = "ALL" \/ (i.state = "BODY" /\ i.mode = "END")
iterator_remaining(i) == i.annRem + Len(i.vp)
iterator_at_end(i) == iterator_remaining(i) = 0
iterator_length(i) == i.annLen + Len(i.vs)

(* The next octet and the iterator behind it.                              *)
AfterPrefix(i) == IF i.viewSpace /\ i.space # <<>> THEN "SPACE" ELSE "BODY"

BodyOctet(i) ==
  IF i.vp = <<>> THEN [o |-> NUL, i |-> i]
  ELSE LET rest == Tail(i.vp)
       IN [o |-> Head(i.vp),
           i |-> [i EXCEPT !.vp = IF i.mode = "SLASH" /\ rest # <<>> /\ rest[1] = "/" THEN <<>> ELSE rest]]

qd_iterator_octet(i) ==
  CASE i.state = "BODY" -> BodyOctet(i)
    [] i.state = "PREFIX" ->
         [o |-> i.prefix,
          i |-> [i EXCEPT !.state = IF IsMobile(i) THEN "PHASE" ELSE AfterPrefix(i),
                          !.cursor = 0, !.annRem = @ - 1]]
    [] i.state = "PHASE" ->
         [o |-> i.phase, i |-> [i EXCEPT !.state = AfterPrefix(i), !.cursor = 0, !.annRem = @ - 1]]
    [] i.state = "SPACE" ->
         [o |-> i.space[i.cursor + 1],
          i |-> [i EXCEPT !.state = IF i.cursor = Len(i.space) - 1 THEN "BODY" ELSE @,
                          !.cursor = @ + 1, !.annRem = @ - 1]]

RECURSIVE qd_iterator_prefix(_, _)
(* Either the whole prefix is consumed, or the iterator is as it was.      *)
qd_iterator_prefix(i, p) ==
  IF p = <<>> THEN [ok |-> TRUE, i |-> i]
  ELSE LET x == qd_iterator_octet(i)
           r == qd_iterator_prefix(x.i, Tail(p))
       IN IF x.o = Head(p) /\ r.ok THEN r ELSE [ok |-> FALSE, i |-> i]

(***************************************************************************)
(* Setting up a view.                                                      *)
(***************************************************************************)
set_to_edge_connection(i) == [i EXCEPT !.prefix = "L", !.state = "PREFIX", !.vp = <<"_edge">>]

AtPrefix(i, prefix, mode) == [i EXCEPT !.prefix = prefix, !.state = "PREFIX", !.mode = mode]

parse_topo(i) ==
  LET remote(j, prefix) ==
        IF itcfg.edge THEN set_to_edge_connection(j) ELSE AtPrefix(j, prefix, "SLASH")
      inside(past, all, mine) ==
        IF all.ok THEN AtPrefix(all.i, "T", "END")
        ELSE IF mine.ok THEN AtPrefix(mine.i, "L", "END") ELSE remote(past, "R")
      in_area(past) ==
        inside(past, qd_iterator_prefix(past, <<"all", "/">>), qd_iterator_prefix(past, my_router))
      topo(all, area) ==
        IF all.ok \/ area.ok THEN in_area(IF all.ok THEN all.i ELSE area.i) ELSE remote(i, "A")
  IN topo(qd_iterator_prefix(i, <<"all", "/">>), qd_iterator_prefix(i, my_area))

parse_edge(i) ==
  LET edge(mine) == IF mine.ok THEN AtPrefix(mine.i, "L", "END")
                    ELSE IF itcfg.edge THEN set_to_edge_connection(i)
                    ELSE AtPrefix(i, "H", "SLASH")
  IN edge(qd_iterator_prefix(i, my_router))

parse_address_view(i) ==
  LET prefix == IF i.override # NUL THEN i.override ELSE "M"
      mobile == [i EXCEPT !.prefix = prefix, !.state = "PREFIX", !.viewSpace = TRUE,
                          !.annLen = Len(i.space) + (IF prefix = "M" THEN 2 ELSE 1)]
      kind(loc, topo, edge) ==
        IF loc.ok THEN AtPrefix(loc.i, "L", "END")
        ELSE IF topo.ok THEN parse_topo(topo.i)
        ELSE IF edge.ok THEN parse_edge(edge.i) ELSE mobile
      special(one) ==
        kind(qd_iterator_prefix(one, <<"local", "/">>), qd_iterator_prefix(one, <<"topo", "/">>),
             qd_iterator_prefix(one, <<"edge", "/">>))
      parse(us) ==
        IF i.override # NUL \/ ~us.ok THEN mobile
        ELSE IF i.view = "WITH_SPACE" THEN [i EXCEPT !.viewSpace = FALSE, !.annLen = 0]
        ELSE special([us.i EXCEPT !.annLen = 1])
  IN parse(qd_iterator_prefix(i, <<"_">>))

adjust_address_with_space(i) ==
  IF i.viewSpace
  THEN [i EXCEPT !.annLen = @ - (IF IsMobile(i) THEN 2 ELSE 1),
                 !.state = IF i.space # <<>> THEN "SPACE" ELSE "BODY"]
  ELSE [i EXCEPT !.annLen = 0, !.state = "BODY"]

parse_node_view(i) ==
  LET area == qd_iterator_prefix(i, my_area)
  IN IF area.ok THEN [AtPrefix(area.i, "R", "END") EXCEPT !.annLen = 1]
     ELSE [AtPrefix(i, "A", "SLASH") EXCEPT !.annLen = 1]

(* One separator at the end is not part of the view.                       *)
qd_iterator_remove_trailing_separator(i) ==
  IF i.vp # <<>> /\ Last(i.vp) \in Separators THEN [i EXCEPT !.vp = Front(@)] ELSE i

(* The scan for the node id: s is the scanner's state, save what follows a *)
(* slash.  The result is the text from the node id on.                     *)
RECURSIVE ScanNodeId(_, _, _, _)
ScanNodeId(s, rest, save, all) ==
  IF s = "NODE_ID" THEN rest
  ELSE IF rest = <<>> THEN all
  ELSE LET o == Head(rest)
           r == Tail(rest)
       IN CASE s = "START" -> IF o = "/" THEN ScanNodeId("SLASH_LEFT", r, r, all)
                                         ELSE ScanNodeId("SCANNING", r, save, all)
            [] s = "SLASH_LEFT" -> IF o = "/" THEN ScanNodeId("SKIPPING", r, save, all) ELSE save
            [] s = "SKIPPING" -> ScanNodeId(IF o = "/" THEN "NODE_ID" ELSE s, r, save, all)
            [] s = "SCANNING" -> ScanNodeId(IF o = ":" THEN "COLON" ELSE s, r, save, all)
            [] s = "COLON" -> IF o = "/" THEN ScanNodeId("COLON_SLASH", r, r, all)
                                         ELSE ScanNodeId("SCANNING", r, save, all)
            [] s = "COLON_SLASH" -> IF o = "/" THEN ScanNodeId("SKIPPING", r, save, all) ELSE save

view_initialize(i) ==
  LET base == [i EXCEPT !.state = "BODY", !.prefix = NUL, !.mode = "END", !.annLen = 0,
                        !.annRem = 0, !.viewSpace = FALSE]
      node == [base EXCEPT !.vp = ScanNodeId("START", base.vp, <<>>, base.start)]
      spaced(addr) == IF i.view = "HASH" THEN addr ELSE adjust_address_with_space(addr)
  IN CASE i.view = "ALL" -> base
       [] i.view = "NODE" -> parse_node_view(base)
       [] i.view = "NO_HOST" -> node
       [] i.view \in {"HASH", "WITH_SPACE"} ->
            spaced(parse_address_view(qd_iterator_remove_trailing_separator(node)))

qd_iterator_reset_view(i, view) ==
  LET started(v) == [v EXCEPT !.vs = v.vp, !.annRem = v.annLen]
  IN started(view_initialize([i EXCEPT !.vp = i.start, !.view = view]))

qd_iterator_string(text, view) ==
  qd_iterator_reset_view(
    [start |-> text, vs |-> <<>>, vp |-> text, view |-> view, annLen |-> 0, annRem |-> 0,
     segments |-> <<>>, mode |-> "END", state |-> "BODY", prefix |-> NUL, override |-> NUL,
     phase |-> "0", space |-> <<>>, cursor |-> 0, viewSpace |-> FALSE], view)

qd_iterator_reset(i) ==
  LET r == [i EXCEPT !.vp = i.vs, !.annRem = i.annLen]
  IN IF i.view = "WITH_SPACE"
     THEN IF i.space # <<>> /\ i.viewSpace THEN [r EXCEPT !.state = "SPACE", !.cursor = 0] ELSE r
     ELSE [r EXCEPT !.state = IF i.prefix # NUL THEN "PREFIX" ELSE "BODY"]

qd_iterator_annotate_phase(i, phase) == [i EXCEPT !.phase = phase]

qd_iterator_annotate_prefix(i, prefix) ==
  qd_iterator_reset_view([i EXCEPT !.override = prefix], i.view)

qd_iterator_annotate_space_Twice(i, space) ==
  [i EXCEPT !.space = space,
            !.annLen = IF i.view = "HASH"
                       THEN (IF i.viewSpace THEN Len(space) ELSE 0) + (IF IsMobile(i) THEN 2 ELSE 1)
                       ELSE IF i.view = "WITH_SPACE" /\ i.viewSpace THEN @ + Len(space) ELSE @]

qd_iterator_annotate_space(i, space) ==
  [i EXCEPT !.space = space,
            !.annLen = IF i.view = "HASH"
                       THEN (IF i.viewSpace THEN Len(space) ELSE 0) + (IF IsMobile(i) THEN 2 ELSE 1)
                       ELSE IF i.view = "WITH_SPACE" /\ i.viewSpace THEN Len(space) ELSE @]

qd_iterator_trim_view(i, length) ==
  LET n == i.annLen + Len(i.vp)
      vs == IF n <= length THEN i.vp
            ELSE IF i.annLen > length THEN <<>>
            ELSE SubSeq(i.vp, 1, Len(i.vp) - (n - length))
      ann == IF n > length /\ i.annLen > length THEN length ELSE i.annLen
  IN [i EXCEPT !.vs = vs, !.vp = vs, !.annLen = ann,
               !.annRem = IF ann # i.annLen THEN ann ELSE @]

(***************************************************************************)
(* Reading.                                                                *)
(***************************************************************************)
RECURSIVE iterator_view_copy(_, _)
(* At most n octets, and the iterator behind them.                         *)
iterator_view_copy(i, n) ==
  IF n = 0 \/ iterator_at_end(i) THEN [o |-> <<>>, i |-> i]
  ELSE IF in_field_data(i)
  THEN LET k == Min({n, Len(i.vp)})
       IN [o |-> SubSeq(i.vp, 1, k), i |-> [i EXCEPT !.vp = SubSeq(@, k + 1, Len(@))]]
  ELSE LET x == qd_iterator_octet(i)
           r == iterator_view_copy(x.i, n - 1)
       IN [o |-> <<x.o>> \o r.o, i |-> r.i]

qd_iterator_advance(i, n) == iterator_view_copy(i, n).i

qd_iterator_copy(i) == iterator_view_copy(qd_iterator_reset(i), iterator_length(i) + 1).o

RECURSIVE EqualFrom(_, _)
EqualFrom(i, s) ==
  IF ~in_field_data(i) /\ s # <<>> /\ ~iterator_at_end(i)
  THEN LET x == qd_iterator_octet(i)
       IN x.o = Head(s) /\ EqualFrom(x.i, Tail(s))
  ELSE \/ s = <<>> /\ iterator_at_end(i)
       \/ in_field_data(i) /\ i.vp = s /\ i.annRem = 0

qd_iterator_equal(i, s) == EqualFrom(qd_iterator_reset(i), s)

(* The hash of octets; hashing a prefix first is hashing step by step.     *)
HASH_COMPUTE(hash, code) == (hash * 33 + code) % 2^16

Code(o) == CASE o = "a" -> 97 [] o = "/" -> 47 [] o = "." -> 46 [] o = "M" -> 77 [] OTHER -> 48

HashOf(octets) == FoldLeft(LAMBDA h, o : HASH_COMPUTE(h, Code(o)), 5381, octets)

qd_iterator_hash_view(i) == HashOf(iterator_view_copy(qd_iterator_reset(i), 100).o)

RECURSIVE SegmentsFrom(_, _, _)
SegmentsFrom(i, hash, length) ==
  IF iterator_at_end(i) THEN <<[hash |-> hash, length |-> length]>>
  ELSE LET x == qd_iterator_octet(i)
           h == HASH_COMPUTE(hash, Code(x.o))
       IN (IF x.o \in Separators THEN <<[hash |-> hash, length |-> length]>> ELSE <<>>)
          \o SegmentsFrom(x.i, h, length + 1)

qd_iterator_hash_view_segments(i) ==
  LET r == qd_iterator_reset(i) IN [r EXCEPT !.segments = SegmentsFrom(r, 5381, 0)]

(* The longest segment that is left becomes the view.                      *)
qd_iterator_next_segment(i) ==
  [qd_iterator_trim_view(i, Last(i.segments).length) EXCEPT !.segments = Front(@)]

-----------------------------------------------------------------------------
(* What a view is: the definition the code is held against.                *)
First(text, from, o) == {k \in from .. Len(text) : text[k] = o}
Rest(text, k) == SubSeq(text, k, Len(text))

AfterHost(text, from) ==
  IF First(text, from, "/") = {} THEN text ELSE Rest(text, Min(First(text, from, "/")) + 1)

NodeId(text) ==
  LET schemes == {k \in 2 .. Len(text) - 1 : text[k] = ":" /\ text[k + 1] = "/"}
      at == IF text # <<>> /\ text[1] = "/" THEN 1
            ELSE IF schemes = {} THEN Len(text) ELSE Min(schemes) + 1
  IN IF at >= Len(text) THEN text
     ELSE IF text[at + 1] = "/" THEN AfterHost(text, at + 2) ELSE Rest(text, at + 1)

NoTrailing(text) == IF text # <<>> /\ Last(text) \in Separators THEN Front(text) ELSE text

UpToSlash(text) ==
  IF First(text, 2, "/") = {} THEN text ELSE SubSeq(text, 1, Min(First(text, 2, "/")) - 1)

Past(text, p) == SubSeq(text, Len(p) + 1, Len(text))

AddressView(text, space, override, phase) ==
  LET is(p) == override = NUL /\ IsPrefix(p, text)
      topo(p) == is(<<"_", "topo", "/">> \o p)
      inside == topo(<<"all", "/">>) \/ topo(my_area)
      rest == Past(text, <<"_", "topo", "/", "x", "/">>)
      remote(prefix, t) == IF itcfg.edge THEN <<"L", "_edge">> ELSE <<prefix>> \o UpToSlash(t)
  IN IF is(<<"_", "local", "/">>) THEN <<"L">> \o Past(text, <<"_", "local", "/">>)
     ELSE IF inside /\ IsPrefix(<<"all", "/">>, rest) THEN <<"T">> \o Past(rest, <<"all", "/">>)
     ELSE IF inside /\ IsPrefix(my_router, rest) THEN <<"L">> \o Past(rest, my_router)
     ELSE IF inside THEN remote("R", rest)
     ELSE IF topo(<<>>) THEN remote("A", Past(text, <<"_", "topo", "/">>))
     ELSE IF is(<<"_", "edge", "/">> \o my_router) THEN <<"L">> \o Past(text, <<"_", "edge", "/", "R", "/">>)
     ELSE IF is(<<"_", "edge", "/">>) THEN remote("H", Past(text, <<"_", "edge", "/">>))
     ELSE (IF override \in {NUL, "M"} THEN <<"M", phase>> ELSE <<override>>) \o space \o text

ViewOf(text, view, space, override, phase) ==
  LET addr == NoTrailing(NodeId(text))
  IN CASE view = "ALL" -> text
       [] view = "NO_HOST" -> NodeId(text)
       [] view = "NODE" -> IF IsPrefix(my_area, text) THEN <<"R">> \o Past(text, my_area)
                           ELSE <<"A">> \o UpToSlash(text)
       [] view = "HASH" -> AddressView(addr, space, override, phase)
       [] view = "WITH_SPACE" -> IF override = NUL /\ IsPrefix(<<"_">>, addr) THEN addr ELSE space \o addr

-----------------------------------------------------------------------------
ItInit ==
  \E c \in ItConfigs :
     /\ itcfg = [c EXCEPT !.texts = {}]
     /\ \E text \in c.texts, view \in c.views :
          it = [ i |-> qd_iterator_string(text, view), text |-> text, trim |-> -1,
                 pos |-> 0, fresh |-> TRUE, hashed |-> FALSE, ops |-> 0 ]

ItDo(i, pos, fresh, trim, hashed) ==
  /\ it.ops < itcfg.ops
  /\ it' = [it EXCEPT !.i = i, !.pos = pos, !.fresh = fresh, !.trim = trim, !.hashed = hashed, !.ops = @ + 1]
  /\ UNCHANGED itcfg

(* A view that is set while the space was being read starts there.         *)
FromStart(i) == i.state = "SPACE" => i.cursor = 0
ItStart(i) == ItDo(i, 0, FromStart(i), -1, FALSE)

(* Annotations change what a view starts with: they count from the next    *)
(* operation that resets the view.                                         *)
AnnotateSpace(space) == /\ space # <<>> /\ it.trim = -1
                        /\ ItDo(qd_iterator_annotate_space(it.i, space), 0, FALSE, it.trim, FALSE)
AnnotatePhase == it.trim = -1 /\ ItDo(qd_iterator_annotate_phase(it.i, "1"), 0, FALSE, it.trim, FALSE)
AnnotatePrefix(prefix) ==
  ItStart(qd_iterator_annotate_prefix(it.i, prefix))
ResetView(view) == ItStart(qd_iterator_reset_view(it.i, view))
Reset == ItDo(qd_iterator_reset(it.i), 0, TRUE, it.trim, it.hashed)
Octet == /\ it.fresh /\ ~iterator_at_end(it.i)
         /\ ItDo(qd_iterator_octet(it.i).i, it.pos + 1, TRUE, it.trim, it.hashed)
Advance == /\ it.fresh /\ ~iterator_at_end(it.i)
           /\ LET n == Len(iterator_view_copy(it.i, 2).o)
              IN ItDo(qd_iterator_advance(it.i, 2), it.pos + n, TRUE, it.trim, it.hashed)
HashSegments == ItDo(qd_iterator_hash_view_segments(it.i), 0, TRUE, it.trim, TRUE)
NextSegment == /\ it.hashed /\ it.i.segments # <<>> /\ it.pos = 0
               /\ ItDo(qd_iterator_next_segment(it.i), 0, TRUE, Last(it.i.segments).length, TRUE)

ItNext ==
  \/ \E s \in itcfg.spaces : AnnotateSpace(s)
  \/ \E p \in itcfg.overrides : AnnotatePrefix(p)
  \/ \E v \in itcfg.views : ResetView(v)
  \/ AnnotatePhase \/ Reset \/ Octet \/ Advance \/ HashSegments \/ NextSegment

ItSpec == ItInit /\ [][ItNext]_itvars

CurrentView ==
  LET v == ViewOf(it.text, it.i.view, it.i.space, it.i.override, it.i.phase)
  IN IF it.trim < 0 THEN v ELSE SubSeq(v, 1, it.trim)

(* Whatever operations came before, an iterator delivers the octets of its *)
(* view, neither more nor fewer, from where it was read to; a copy, a      *)
(* comparison and the hash are those of the view; each segment that is     *)
(* left is a prefix of the view that ends before a separator, with that    *)
(* prefix's hash.  (qd_iterator_octet, qd_iterator_equal, view_initialize) *)
IteratorSound ==
  LET i == it.i
      Delivers(v) ==
        /\ qd_iterator_copy(i) = v
        /\ qd_iterator_equal(i, v) /\ ~qd_iterator_equal(i, Append(v, "a"))
        /\ v # <<>> => ~qd_iterator_equal(i, Front(v))
        /\ qd_iterator_hash_view(i) = HashOf(v)
        /\ it.fresh => iterator_view_copy(i, 100).o = SubSeq(v, it.pos + 1, Len(v))
        /\ it.hashed => \A k \in DOMAIN i.segments :
             LET s == i.segments[k]
             IN s.length <= Len(v) /\ s.hash = HashOf(SubSeq(v, 1, s.length))
  IN Delivers(CurrentView)

=============================================================================
