----------------------------- MODULE ParseTree ------------------------------
(***************************************************************************)
(* The tree of patterns of src/parse_tree.c.  A pattern is a sequence of   *)
(* tokens; "*" (in MQTT "+") matches one token and "#" any number.  A node *)
(* is the path of tokens that leads to it, and the tree a function from its*)
(* nodes to their payloads (NoPattern where no pattern ends).              *)
(***************************************************************************)
EXTENDS Integers, Sequences, FiniteSets, SequencesExt

CONSTANTS PTTypes,      \* "address", "amqp", "mqtt"
          PTKeys,       \* patterns that are added and removed
          PTValues,     \* strings that are looked up
          MaxPatterns   \* the tree holds at most so many patterns

VARIABLES
  pt,       \* [type, nodes]
  ptkeys    \* the patterns that have been added, as they were given

ptvars == <<pt, ptkeys>>

NoPattern == "no pattern"
Glob == "#"
MatchOne(type) == IF type = "mqtt" THEN "+" ELSE "*"

-----------------------------------------------------------------------------
(* Patterns.                                                                *)

\* #.# becomes # and #.* becomes *.#, from left to right.
\* (mutant: what follows the rewritten pair is not looked at again)
normalize_pattern_Once(type, pattern) ==
    LET one == MatchOne(type)
        rest[p \in Seq(STRING), i \in Nat] ==
          IF i >= Len(p) THEN p
          ELSE IF p[i] # Glob THEN rest[p, i + 1]
          ELSE IF p[i + 1] = Glob THEN rest[RemoveAt(p, i), i]
          ELSE IF p[i + 1] = one THEN rest[[p EXCEPT ![i] = one, ![i + 1] = Glob], i + 2]
          ELSE rest[p, i + 2]
    IN  IF type = "mqtt" THEN pattern ELSE rest[pattern, 1]

normalize_pattern(type, pattern) ==
    LET one == MatchOne(type)
        rest[p \in Seq(STRING), i \in Nat] ==
          IF i >= Len(p) THEN p
          ELSE IF p[i] # Glob THEN rest[p, i + 1]
          ELSE IF p[i + 1] = Glob THEN rest[RemoveAt(p, i), i]
          ELSE IF p[i + 1] = one THEN rest[[p EXCEPT ![i] = one, ![i + 1] = Glob], i + 1]
          ELSE rest[p, i + 2]
    IN  IF type = "mqtt" THEN pattern ELSE rest[pattern, 1]

\* In MQTT "#" may only be the last token.
qd_parse_tree_validate_pattern(type, pattern) ==
    /\ pattern # <<>>
    /\ type = "mqtt" => \A i \in DOMAIN pattern : pattern[i] = Glob => i = Len(pattern)

-----------------------------------------------------------------------------
(* The tree.                                                                *)

qd_parse_tree_new(type) == [type |-> type, nodes |-> [n \in {<<>>} |-> NoPattern]]

Holds(tree, n) == n \in DOMAIN tree.nodes /\ tree.nodes[n] # NoPattern

\* The payload of a pattern, or NoPattern.
qd_parse_tree_get_pattern(tree, pattern) ==
    LET n == normalize_pattern(tree.type, pattern)
    IN  IF Holds(tree, n) THEN tree.nodes[n] ELSE NoPattern

PathTo(n) == {SubSeq(n, 1, i) : i \in 0..Len(n)}

\* Nodes are added along the pattern; a pattern that is there already keeps its payload.
parse_node_add_pattern(tree, pattern, payload) ==
    LET n == normalize_pattern(tree.type, pattern)
        nodes == DOMAIN tree.nodes \cup PathTo(n)
    IN  IF n = <<>> \/ Holds(tree, n) THEN tree
        ELSE [tree EXCEPT !.nodes = [m \in nodes |-> IF m = n THEN payload
                                                     ELSE IF m \in DOMAIN @ THEN @[m]
                                                     ELSE NoPattern]]

Child(n, m) == Len(m) = Len(n) + 1 /\ SubSeq(m, 1, Len(n)) = n

\* The node gives up its pattern; then, from it upwards, nodes that have neither a pattern
\* nor children are freed.
qd_parse_tree_remove_pattern(tree, pattern) ==
    LET n == normalize_pattern(tree.type, pattern)
        without == [tree.nodes EXCEPT ![n] = NoPattern]
        \* how far up nodes are freed
        freed[i \in 0..Len(n)] ==
          IF i = Len(n) THEN without[n] = NoPattern /\ ~\E m \in DOMAIN without : Child(n, m)
          ELSE LET k == SubSeq(n, 1, i)
               IN  /\ freed[i + 1] /\ k # <<>> /\ without[k] = NoPattern
                   /\ \A m \in DOMAIN without : Child(k, m) => m = SubSeq(n, 1, i + 1)
        gone == {SubSeq(n, 1, i) : i \in {j \in 0..Len(n) : freed[j]}}
    IN  IF ~Holds(tree, n) THEN tree
        ELSE [tree EXCEPT !.nodes = [m \in DOMAIN @ \ gone |-> without[m]]]

-----------------------------------------------------------------------------
(* The search.                                                              *)

\* The patterns that are visited, in their order: under a node first the token itself, then
\* the wildcard for one token, then "#", which is tried on every remainder of the value.
parse_node_find(tree, value) ==
    LET k == Len(value)
        one == MatchOne(tree.type)
        In(n) == n \in DOMAIN tree.nodes
        visit[n \in DOMAIN tree.nodes, i \in 1..k + 1] ==
          LET ends(j) == IF j = k + 1 /\ Holds(tree, n) THEN <<n>> ELSE <<>>
              below(m, j) == IF In(m) THEN visit[m, j] ELSE <<>>
              token(j) == IF j > k \/ value[j] \in {one, Glob} THEN <<>>
                          ELSE below(Append(n, value[j]), j + 1)
              children(j) == token(j) \o (IF j > k THEN <<>> ELSE below(Append(n, one), j))
                             \o below(Append(n, Glob), j)
              all[j \in i..k + 1] == IF j = k + 1 THEN <<>> ELSE children(j) \o all[j + 1]
          IN  IF n = <<>> THEN children(i)
              ELSE IF Last(n) = one THEN IF i > k THEN <<>> ELSE ends(i + 1) \o children(i + 1)
              ELSE IF Last(n) = Glob THEN all[i] \o ends(k + 1)
              ELSE ends(i) \o children(i)
    IN  visit[<<>>, 1]

-----------------------------------------------------------------------------
PTInit == pt \in {qd_parse_tree_new(type) : type \in PTTypes} /\ ptkeys = {}

PTAdd(key) ==
    /\ Cardinality(ptkeys) < MaxPatterns
    /\ qd_parse_tree_validate_pattern(pt.type, key)
    /\ qd_parse_tree_get_pattern(pt, key) = NoPattern
    /\ pt' = parse_node_add_pattern(pt, key, "payload")
    /\ ptkeys' = ptkeys \cup {key}

PTRemove(key) ==
    /\ key \in ptkeys
    /\ pt' = qd_parse_tree_remove_pattern(pt, key)
    /\ ptkeys' = ptkeys \ {key}

PTNext == \E key \in PTKeys : PTAdd(key) \/ PTRemove(key)

PTSpec == PTInit /\ [][PTNext]_ptvars

-----------------------------------------------------------------------------
(* Properties.                                                              *)

\* What a pattern means: the value can be cut into as many pieces as the pattern has tokens,
\* such that a token is its piece, "*" stands for one token and "#" for any piece.
Matches(type, p, v) ==
    \E cut \in [0..Len(p) -> 0..Len(v)] :
        /\ cut[0] = 0 /\ cut[Len(p)] = Len(v)
        /\ \A i \in DOMAIN p :
             /\ cut[i - 1] <= cut[i]
             /\ p[i] # Glob => cut[i] = cut[i - 1] + 1
             /\ p[i] \notin {Glob, MatchOne(type)} => v[cut[i]] = p[i]

\* qd_parse_tree_search, "Invoke callback for each pattern that matches 'value'": whatever was
\* added and removed before, exactly the patterns that match are visited, although they have
\* been rewritten by normalize_pattern.
SearchExact ==
    \A v \in PTValues :
        ToSet(parse_node_find(pt, v)) =
            {normalize_pattern(pt.type, k) : k \in {key \in ptkeys : Matches(pt.type, key, v)}}

\* qd_parse_tree_remove_pattern, "see if the parent node is now childless and NOT a terminal
\* node. If so clean it up as well": the tree has the nodes its patterns need and no others.
TreePruned ==
    DOMAIN pt.nodes = UNION {PathTo(normalize_pattern(pt.type, k)) : k \in ptkeys} \cup {<<>>}

\* A search finds what matches, in a tree that has no more than it needs.
PatternsExact == SearchExact /\ TreePruned
=============================================================================
