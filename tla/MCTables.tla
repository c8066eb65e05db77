------------------------------ MODULE MCTables ------------------------------
(***************************************************************************)
(* The sequential foundations of the router, checked side by side: the     *)
(* computation of a tree of shortest paths on every link map of a small    *)
(* network (the two ends of a link free to disagree about it), the core's  *)
(* route tables, Python's allocator of mask bits, the tree of address      *)
(* patterns, exchanges, the policy that approves links, and what the       *)
(* router's data is made of: memory pools, address iterators and the hash  *)
(* tables of addresses, the encoding of AMQP values, the annotations of a  *)
(* message and its sections.  A behaviour exercises one of them and leaves *)
(* the others be.                                                          *)
(***************************************************************************)
EXTENDS ShortestPathTree, RouteTables, MaskBits, Exchange, LinkPolicy,
        AllocPool, HashTable, Annotations, MessageSections

CONSTANT MaxLinkCost    \* link costs are 1..MaxLinkCost

VARIABLE part   \* the part at work

Maps == {f \in [Node -> [Node -> 0..MaxLinkCost]] : \A n \in Node : f[n][n] = 0}

\* All patterns of at most three tokens over two words and the wildcards.
Strings(S, n) == UNION {[1..k -> S] : k \in 1..n}
Patterns == Strings({"a", "b", "*", "#"}, 3) \cup Strings({"a", "+", "#"}, 2)
Values == Strings({"a", "b"}, 3) \cup {<<"a", "b", "a", "a">>}

\* Two exchanges, and bindings of which one matches a subject at two places.
Exchanges == {[name |-> "x", addr |-> "e", method |-> "amqp", alternate |-> "h"],
              [name |-> "y", addr |-> "f", method |-> "mqtt", alternate |-> NoHop]}
BindingKeys == {<<"#", "a", "#">>, <<"*", "#">>}
SomeSubjects == {<<"a">>, <<"a", "a">>}

\* Rules of up to three parts as lists and as patterns, and names of up to four characters of which
\* "/" separates tokens.
Settings(user, rules, tree) ==
    [user |-> user, rules |-> rules, tree |-> tree, maxsenders |-> 1, maxreceivers |-> 0,
     anonymous |-> tree, dynamic |-> ~tree, waypoint |-> tree, fallback |-> ~tree]
Term(name, dynamic, cap) == [name |-> name, dynamic |-> dynamic, cap |-> cap]
LinkNames ==
    {n \in UNION {[1..k -> {"a", "b", "/"}] : k \in 0..4} :
        \A i \in DOMAIN n : n[i] = "/" => i \notin {1, Len(n)} /\ n[i + 1] # "/"}
Termini == {Term(n, FALSE, "none") : n \in LinkNames}
           \cup {Term(<<"a">>, FALSE, c) : c \in {"waypoint", "fallback"}}
           \cup {Term(<<>>, TRUE, "none")}
ListRules == {<<"a">>, <<"a", "*">>, <<User>>, <<"a", User>>, <<User, "a">>, <<"a", User, "b">>,
              <<"a", User, "*">>, <<"*">>}
TreeRules == {<<User, "/", "a">>, <<"a", "/", User>>, <<"*", "/", "a">>, <<User, "/", "#">>,
              <<"#", "/", User>>, <<"a">>, <<User>>, <<"a", "/", "b">>}
UserRules == {<<User>>, <<"#", "/", User>>, <<User, "/", "a">>}
LinkConfigs ==
  {Settings(u, rs, FALSE) :
      u \in {<<>>, <<"b">>, <<"b", "a">>},
      rs \in {<<r>> : r \in ListRules} \cup {<<>>, <<<<"a", "a">>, <<"b", User>>>>}}
  \cup
  {Settings(<<"b">>, rs, TRUE) :
      rs \in {<<r>> : r \in TreeRules} \cup {<<r1, r2>> : r1 \in TreeRules, r2 \in UserRules}}

\* Two threads and a few items: both lists overflow, the global list is limited, a batch is all of
\* the heap, pointers outlive their item.
PoolBase == [threads |-> {"t1", "t2"}, heap |-> 4, batch |-> 2, localMax |-> 3,
             globalMax |-> 0, frees |-> 3, pointers |-> 0]
PoolAtRest == [PoolBase EXCEPT !.threads = {}, !.heap = 0]
PoolConfigs ==
  {[PoolBase EXCEPT !.globalMax = 1],
   [PoolBase EXCEPT !.batch = 3, !.heap = 3],
   [PoolBase EXCEPT !.heap = 2, !.frees = 2, !.pointers = 2],
   PoolAtRest}

\* Every short address over characters and words that steer the parser; then some longer ones with
\* up to five calls.
TextsOver(alphabet, n) == UNION {[1 .. k -> alphabet] : k \in 0 .. n}
NoDoubleColon(t) == \A k \in 1 .. Len(t) - 1 : ~(t[k] = ":" /\ t[k + 1] = ":")
ViewBase == [texts |-> {<<"a">>}, views |-> {"ALL", "NO_HOST", "HASH", "WITH_SPACE"},
             spaces |-> {<<"t", "/">>}, overrides |-> {"C"}, edge |-> FALSE, ops |-> 1]
Paths(S, T) == {SubSeq(<<x, "/", y, "/", "a">>, 1, k) : x \in S, y \in T, k \in 0 .. 5}
Topo == {<<"_", "topo", "/">> \o t : t \in Paths({"all", "A", "a", "/"}, {"all", "R", "a", "/"})}
Local_ == {<<"_">> \o t : t \in Paths({"local", "edge", "topo", "a", "/"}, {"R", "a", "/"})}
Absolute_ == {<<"a", ":", "/">> \o t : t \in TextsOver({"a", "/"}, 4)}
             \cup {<<"/", "/">> \o t : t \in TextsOver({"a", "/"}, 3)}
ViewAtRest == [ViewBase EXCEPT !.texts = {<<>>}, !.views = {"ALL"}, !.spaces = {}, !.overrides = {}, !.ops = 0]
ViewConfigs ==
  {[ViewBase EXCEPT !.texts = {t \in TextsOver({"a", "/", ":", "."}, 3) \cup Absolute_ : NoDoubleColon(t)}],
   [ViewBase EXCEPT !.texts = Topo \cup Local_, !.views = {"HASH", "WITH_SPACE"}],
   [ViewBase EXCEPT !.texts = Topo \cup Local_, !.views = {"HASH"}, !.edge = TRUE],
   [ViewBase EXCEPT !.texts = TextsOver({"A", "/", "a"}, 4), !.views = {"NODE"}],
   [ViewBase EXCEPT !.texts = {<<"a", "/", "a", ".", "a", "/">>, <<"/", "a", "/", "a">>,
                               <<"_", "topo", "/", "A", "/", "a", "/", "a">>}, !.ops = 5],
   ViewAtRest}

\* Addresses that share buckets and prefixes.
TableBase == [texts |-> {<<"a">>, <<"a", "/", "a">>, <<"a", ".", "a", "/">>}, space |-> <<>>,
              exponent |-> 1, ops |-> 5]
TableAtRest == [TableBase EXCEPT !.texts = {}]
TableConfigs ==
  {TableAtRest, TableBase,
   [TableBase EXCEPT !.texts = {<<"a">>, <<"/", "a", ".", "a">>}, !.space = <<"a", "/">>, !.ops = 6],
   [TableBase EXCEPT !.texts = {<<"a">>, <<"a", "/", "a", ".", "a">>}, !.exponent = 0, !.ops = 6]}

\* Trees of scalars over buffers of 1 to 5 octets, numbers at the limits of their types, texts that
\* need a long length.
Int64(n) == Octets(n, 8)
Limits32 == {<<0,0,0,0,127,255,255,255>>, <<0,0,0,0,128,0,0,0>>, <<0,0,0,0,255,255,255,255>>}
Limits64 == {<<0,0,0,1,0,0,0,0>>, <<127,255,255,255,255,255,255,255>>, <<128,0,0,0,0,0,0,0>>}
Negative == {Int64(-1), Int64(-128), Int64(-129), <<255,255,255,255,128,0,0,0>>}
Small == {Int64(0), Int64(1), Int64(127), Int64(128), Int64(255), Int64(256)}
Numbers ==
  {Leaf("uint", w) : w \in Small \cup Limits32}
  \cup {Leaf("ulong", w) : w \in Small \cup Limits32 \cup Limits64}
  \cup {Leaf("int", w) : w \in Small \cup Negative \cup {<<0,0,0,0,127,255,255,255>>}}
  \cup {Leaf("long", w) : w \in Small \cup Limits32 \cup Limits64 \cup Negative}
FewLeaves == {Leaf("null", <<>>), Leaf("uint", Int64(7)), Leaf("string", <<49, 50>>), Leaf("list", <<>>)}
TextOf(n) == [i \in 1..n |-> 48 + (i % 7)]
LongTexts == {Leaf("string", TextOf(255))} \cup {Leaf(op, TextOf(256)) : op \in {"symbol", "binary", "string2"}}
OtherLeaves ==
  {Leaf("true", <<>>), Leaf("false", <<>>), Leaf("timestamp", Int64(300)), Leaf("double", Int64(77)),
   Leaf("uuid", TextOf(16)), Leaf("binary", <<1, 2>>), Leaf("symbol", <<65>>), Leaf("string", <<>>),
   Leaf("string2", <<65, 66, 67>>)}
Coded(size, scalars, depth, steps) ==
  [size |-> size, scalars |-> scalars, depth |-> depth, steps |-> steps]
CodecAtRest == {Coded(n, {}, 0, 0) : n \in {7, 50, 60}}
CodecConfigs ==
  {Coded(1, FewLeaves, 2, 4), Coded(3, FewLeaves, 2, 4), Coded(5, Numbers, 1, 2),
   Coded(4, OtherLeaves, 1, 3), Coded(100, LongTexts, 1, 2)} \cup CodecAtRest

\* User annotations before the routers', ids and destinations at the limits of a short length, up
\* to six routers behind.
SymbolOf(n, x) == <<163, n>> \o [i \in 1..n |-> x]
UserNumber == SymbolOf(14, 90) \o <<82, 7>>
UserList == SymbolOf(3, 91) \o <<192, 5, 2, 82, 9, 84, 250>>
UserText == <<83, 9>> \o <<161, 2, 65, 66>>
UserLong == SymbolOf(2, 92) \o <<160, 200>> \o [i \in 1..200 |-> 33]
To(n) == [i \in 1..n |-> 44]
Sent(size, user, map32, ids, to, limit) ==
  [size |-> size, user |-> user, map32 |-> map32, ids |-> ids, to |-> to, hops |-> limit]
AnnotationsAtRest == Sent(60, <<>>, FALSE, <<1>>, To(256), 3)
AnnotationConfigs ==
  {Sent(7, <<UserNumber, UserList>>, TRUE, <<3, 4>>, To(5), 3),
   AnnotationsAtRest,
   Sent(50, <<UserText, UserLong>>, FALSE, <<100, 123>>, To(2), 3),
   Sent(60, <<UserText>>, FALSE, <<250, 251, 252, 253, 254, 126>>, To(255), 2)}

\* Messages of up to six sections in buffers of 3 to 14 octets, with one or two readers.
Section(code, short, value) == [code |-> code, short |-> short, value |-> value]
Hdr == Section(112, TRUE, <<192, 3, 2, 65, 67>>)
NoHdr == Section(112, TRUE, <<69>>)
Ma == Section(114, FALSE, <<193, 1, 0>>)
Props == Section(115, TRUE, <<192, 10, 5, 161, 1, 65, 64, 160, 0, 67, 82, 7>>)
Props32 == Section(115, TRUE, <<208, 0, 0, 0, 8, 0, 0, 0, 3, 161, 0, 64, 67>>)
AppProps == Section(116, TRUE, <<209, 0, 0, 0, 4, 0, 0, 0, 0>>)
DataOf(n) == Section(117, TRUE, <<160, n>> \o [i \in 1..n |-> 30 + n])
Data32(n) == Section(117, TRUE, <<176, 0, 0, 0, n>> \o [i \in 1..n |-> 60 + n])
Foot == Section(120, TRUE, <<193, 1, 0>>)
Arrives(msg, first, size, fanout) ==
  [msg |-> msg, first |-> first, size |-> size, fanout |-> fanout,
   depths |-> IF fanout = 2 THEN {5} ELSE Depths, fields |-> IF fanout = 2 THEN {} ELSE {0, 2, 4}]
SectionsAtRest == Arrives(<<>>, 1, 1, 0)
SectionConfigs ==
  {SectionsAtRest} \cup {Arrives(<<Hdr, Ma, Props, DataOf(1)>>, f, f, 0) : f \in {4, 7}}
  \cup {Arrives(<<NoHdr, DataOf(3), DataOf(0), Data32(1)>>, 5, k, 1) : k \in {4, 7}}
  \cup {Arrives(<<AppProps, DataOf(2), DataOf(1)>>, 14, 6, 2),
        Arrives(<<DataOf(3), DataOf(0), DataOf(3)>>, 8, 8, 2),
        Arrives(<<NoHdr, Props32, AppProps, Data32(2), DataOf(0), Foot>>, 9, 6, 1),
        Arrives(<<Foot>>, 4, 4, 1)}

DataParts == {"pool", "views", "hash", "codec", "annotations", "sections"}

\* The parts that are not at work rest in one of their initial states.
DataInit ==
  /\ apcfg \in IF part = "pool" THEN ApConfigs \ {PoolAtRest} ELSE {PoolAtRest}
  /\ itcfg \in {[c EXCEPT !.texts = {}] :
                  c \in IF part = "views" THEN ItConfigs \ {ViewAtRest} ELSE {ViewAtRest}}
  /\ htcfg \in IF part = "hash" THEN HtConfigs \ {TableAtRest} ELSE {TableAtRest}
  /\ ancfg \in IF part = "annotations" THEN AnConfigs ELSE {AnnotationsAtRest}
  /\ cdcfg \in IF part = "codec" THEN CdConfigs \ CodecAtRest ELSE {Coded(ancfg.size, {}, 0, 0)}
  /\ sxcfg \in IF part = "sections" THEN SxConfigs \ {SectionsAtRest} ELSE {SectionsAtRest}
  /\ ApInit /\ ItInit /\ HtInit /\ CdInit /\ AnInit /\ SxInit

DataNext ==
  \/ part = "pool" /\ ApNext /\ UNCHANGED <<itvars, htvars, cdvars, anvars, sxvars>>
  \/ part = "views" /\ ItNext /\ UNCHANGED <<apvars, htvars, cdvars, anvars, sxvars>>
  \/ part = "hash" /\ HtNext /\ UNCHANGED <<apvars, itvars, cdvars, anvars, sxvars>>
  \/ part = "codec" /\ CdNext /\ UNCHANGED <<apvars, itvars, htvars, anvars, sxvars>>
  \/ part = "annotations" /\ AnNext /\ UNCHANGED <<apvars, itvars, htvars, cdvars, sxvars>>
  \/ part = "sections" /\ SxNext /\ UNCHANGED <<apvars, itvars, htvars, cdvars, anvars>>

\* The parts that are not at work rest in one of their initial states.
TablesInit ==
    /\ part \in {"tree", "tables", "bits", "patterns", "exchanges", "links"} \cup DataParts
    /\ DataInit
    /\ part # "tree" => root = 1 /\ links = [u \in Node |-> [v \in Node |-> 0]]
    /\ part # "links" => lpcf = Settings(<<>>, <<>>, FALSE)
    /\ SPInit /\ Init /\ MBInit /\ PTInit /\ XInit /\ LpInit
    /\ part # "patterns" => pt.type = "amqp"

datavars == <<apvars, itvars, htvars, cdvars, anvars, sxvars>>
tablevars == <<spvars, rtvars, mbvars, ptvars, xvars, lpvars>>

TablesNext ==
    /\ UNCHANGED part
    /\ \/ part = "tree" /\ SPNext /\ UNCHANGED <<rtvars, mbvars, ptvars, xvars, lpvars, datavars>>
       \/ part = "tables" /\ Next /\ UNCHANGED <<spvars, mbvars, ptvars, xvars, lpvars, datavars>>
       \/ part = "bits" /\ MBNext /\ UNCHANGED <<spvars, rtvars, ptvars, xvars, lpvars, datavars>>
       \/ part = "patterns" /\ PTNext /\ UNCHANGED <<spvars, rtvars, mbvars, xvars, lpvars, datavars>>
       \/ part = "exchanges" /\ XNext /\ UNCHANGED <<spvars, rtvars, mbvars, ptvars, lpvars, datavars>>
       \/ part = "links" /\ LpNext /\ UNCHANGED <<spvars, rtvars, mbvars, ptvars, xvars, datavars>>
       \/ part \in DataParts /\ DataNext /\ UNCHANGED tablevars

TablesSpec == TablesInit /\ [][TablesNext]_<<part, tablevars, datavars>>
=============================================================================
