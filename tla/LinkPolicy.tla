----------------------------- MODULE LinkPolicy -----------------------------
(***************************************************************************)
(* Which links the user of a connection may attach.  Python compiles the   *)
(* sources and targets of a user group into triples (policy_local.py); C   *)
(* rebuilds from a triple the name it allows, or searches a tree of        *)
(* patterns for the name that is proposed (policy.c).  A name is a         *)
(* sequence of atoms, among them the separator; in a rule User stands for  *)
(* ${user}.                                                                *)
(***************************************************************************)
EXTENDS Integers, ParseTree

CONSTANTS
  LpConfigs,    \* settings of a connection: user, rules, tree (the rules are patterns), maxsenders,
                \* maxreceivers, anonymous, dynamic, waypoint, fallback
  LpTermini     \* what is proposed: name, dynamic, cap

VARIABLES
  lpcf,     \* one of LpConfigs
  lplinks,  \* the directions of the links attached, oldest first
  lplast    \* the last attach, its outcome, and the counter of denials that went up

lpvars == <<lpcf, lplinks, lplast>>

User == "${user}"
Separator == "/"
NoAttach == [dir |-> "none", verdict |-> FALSE]
MaxAttached == 2    \* at most so many links at a time

-----------------------------------------------------------------------------
(* compile_app_settings: a rule as key, prefix and suffix.                  *)

Triple(rule) ==
    LET at == {i \in DOMAIN rule : rule[i] = User}
        i == Min(at)
    IN  IF at = {} THEN [key |-> IF rule = <<"*">> THEN "*" ELSE "a", s1 |-> rule, s2 |-> <<>>]
        ELSE IF i = 1 THEN [key |-> "p", s1 |-> <<>>, s2 |-> Tail(rule)]
        ELSE IF i = Len(rule) THEN [key |-> "s", s1 |-> Front(rule), s2 |-> <<>>]
        ELSE [key |-> "e", s1 |-> SubSeq(rule, 1, i - 1), s2 |-> SubSeq(rule, i + 1, Len(rule))]

\* At most one ${user}; in a pattern first or last.
RuleCompiles(rule, tree) ==
    LET at == {i \in DOMAIN rule : rule[i] = User}
    IN  Cardinality(at) <= 1 /\ (tree => at \subseteq {1, Len(rule)})

-----------------------------------------------------------------------------
(* _qd_policy_approve_link_name                                             *)

\* (mutant: a name with the user in the middle is rebuilt without what follows)
AllowedName_NoSuffix(t, user) ==
    CASE t.key = "a" -> t.s1
      [] t.key = "p" -> user \o t.s2
      [] t.key = "e" -> t.s1 \o user
      [] t.key = "s" -> t.s1 \o user

AllowedName(t, user) ==
    CASE t.key = "a" -> t.s1
      [] t.key = "p" -> user \o t.s2
      [] t.key = "e" -> t.s1 \o user \o t.s2
      [] t.key = "s" -> t.s1 \o user

\* The character before a string's first is read too: stray says whether it is the one compared
\* with.  Here it is that before an empty name, and then the whole names are compared either way,
\* once up to their ends and once up to SIZE_MAX characters.
ClauseAllows(t, user, proposed, stray) ==
    \/ t.key = "*"
    \/ /\ t.key # "*"
       /\ LET name == AllowedName(t, user)
              wild == IF name = <<>> THEN stray ELSE Last(name) = "*"
          IN  IF wild /\ name # <<>> THEN IsPrefix(Front(name), proposed) ELSE name = proposed

_qd_policy_approve_link_name(rules, user, proposed, stray) ==
    proposed # <<>> /\ \E i \in DOMAIN rules : ClauseAllows(Triple(rules[i]), user, proposed, stray)

-----------------------------------------------------------------------------
(* qd_policy_parse_tree, _qd_policy_approve_link_name_tree                  *)

\* The tokens of a name, each a string.
Tokens(name) ==
    LET from[i \in 1..Len(name) + 1] ==      \* the tokens from i on, the first of them begun before
          IF i > Len(name) THEN <<"">>
          ELSE IF name[i] = Separator THEN <<"">> \o from[i + 1]
          ELSE <<name[i] \o Head(from[i + 1])>> \o Tail(from[i + 1])
    IN  SelectSeq(from[1], LAMBDA t : t # "")

PatternOf(t) ==
    CASE t.key = "a" -> t.s1
      [] t.key = "p" -> <<User>> \o t.s2
      [] t.key = "e" -> t.s1 \o <<User>> \o t.s2
      [] OTHER -> t.s1 \o <<User>>

\* A pattern that is in the tree already is refused.
qd_policy_parse_tree(rules) ==
    LET added[i \in 0..Len(rules)] ==
          IF i = 0 THEN qd_parse_tree_new("address")
          ELSE LET p == Tokens(PatternOf(Triple(rules[i])))
               IN  IF qd_parse_tree_get_pattern(added[i - 1], p) # NoPattern THEN added[i - 1]
                   ELSE parse_node_add_pattern(added[i - 1], p, "allowed")
    IN  added[Len(rules)]

IsSep(name, i) == name[i] = Separator

\* What is searched for a clause: nothing when the user's name is not where it should be.  Of a name
\* that is the user's as a whole, a suffix clause tests the character before the first: stray.
Searched(t, user, proposed, stray) ==
    LET u == Len(user)
        n == Len(proposed)
    IN  CASE t.key = "a" -> proposed
          [] t.key = "p" -> IF IsPrefix(user, proposed) /\ (u = n \/ IsSep(proposed, u + 1))
                            THEN <<User>> \o SubSeq(proposed, u + 1, n) ELSE <<>>
          [] t.key = "s" -> IF /\ u <= n /\ IF u = n THEN stray ELSE IsSep(proposed, n - u)
                               /\ IsSuffix(user, proposed)
                            THEN SubSeq(proposed, 1, n - u) \o <<User>> ELSE <<>>
          [] OTHER -> <<>>

\* The first triple with an unknown key, such as that of the rule *, ends the search.
_qd_policy_approve_link_name_tree(rules, user, proposed, stray) ==
    LET tree == qd_policy_parse_tree(rules)
    IN  /\ proposed # <<>>
        /\ \E i \in DOMAIN rules :
              /\ \A j \in 1..i : Triple(rules[j]).key # "*"
              /\ LET name == Searched(Triple(rules[i]), user, proposed, stray)
                 IN  name # <<>> /\ parse_node_find(tree, Tokens(name)) # <<>>

qd_policy_approve_link_name(proposed, stray) ==
    IF lpcf.tree THEN _qd_policy_approve_link_name_tree(lpcf.rules, lpcf.user, proposed, stray)
    ELSE _qd_policy_approve_link_name(lpcf.rules, lpcf.user, proposed, stray)

-----------------------------------------------------------------------------
(* Links.                                                                   *)

AttachedAs(dir) == Len(SelectSeq(lplinks, LAMBDA l : l = dir))

CapAllowed(t) == (t.cap = "waypoint" => lpcf.waypoint) /\ (t.cap = "fallback" => lpcf.fallback)

Attached(dir, t, ok, counter) ==
    /\ lplinks' = IF ok THEN Append(lplinks, dir) ELSE lplinks
    /\ lplast' = [dir |-> dir, t |-> t, verdict |-> ok, before |-> AttachedAs(dir),
                  denied |-> IF ok THEN "none" ELSE counter]

qd_policy_approve_amqp_sender_link(t, stray) ==
    Attached("sender", t,
        /\ lpcf.maxsenders # 0 => AttachedAs("sender") # lpcf.maxsenders
        /\ IF t.name # <<>> THEN CapAllowed(t) /\ qd_policy_approve_link_name(t.name, stray) ELSE lpcf.anonymous,
        "sender")

\* A receiver that is denied for its capability is counted as a sender.
qd_policy_approve_amqp_receiver_link(t, stray) ==
    LET room == lpcf.maxreceivers # 0 => AttachedAs("receiver") # lpcf.maxreceivers
    IN  Attached("receiver", t,
            room /\ IF t.dynamic THEN lpcf.dynamic
                    ELSE t.name # <<>> /\ CapAllowed(t) /\ qd_policy_approve_link_name(t.name, stray),
            IF room /\ ~t.dynamic /\ t.name # <<>> /\ ~CapAllowed(t) THEN "sender" ELSE "receiver")

LpDetach(i) ==
    /\ lplinks' = RemoveAt(lplinks, i)
    /\ lplast' = NoAttach

\* Attaches come one after the other.
LpAnswered ==
    /\ lplast # NoAttach
    /\ lplast' = NoAttach
    /\ UNCHANGED lplinks

-----------------------------------------------------------------------------
LpInit ==
    /\ lpcf \in LpConfigs
    /\ \A i \in DOMAIN lpcf.rules : RuleCompiles(lpcf.rules[i], lpcf.tree)
    /\ lplinks = <<>> /\ lplast = NoAttach

LpNext ==
    /\ UNCHANGED lpcf
    /\ \/ /\ Len(lplinks) < MaxAttached /\ lplast = NoAttach
          /\ \E t \in LpTermini, stray \in BOOLEAN :
                \/ ~t.dynamic /\ qd_policy_approve_amqp_sender_link(t, stray)
                \/ qd_policy_approve_amqp_receiver_link(t, stray)
       \/ LpAnswered
       \/ \E i \in DOMAIN lplinks : lplast = NoAttach /\ LpDetach(i)

LpSpec == LpInit /\ [][LpNext]_lpvars

-----------------------------------------------------------------------------
(* Properties.                                                              *)

\* What the rule says: ${user} is the user, and then either the name itself, with * last for any
\* end of a name, or a pattern of tokens.
RuleMeans(rule, name) ==
    LET subst == FlattenSeq([i \in DOMAIN rule |-> IF rule[i] = User THEN lpcf.user ELSE <<rule[i]>>])
    IN  IF lpcf.tree THEN Matches("address", Tokens(subst), Tokens(name))
        ELSE IF subst # <<>> /\ Last(subst) = "*" THEN IsPrefix(Front(subst), name)
        ELSE subst = name

\* A pattern that ends in ${user} matches the user's name as a whole too, as #/${user} does: then the
\* code decides by the character before the name (policy.c:1007).
Undecided(rule, name) == lpcf.tree /\ Len(rule) > 1 /\ Last(rule) = User /\ name = lpcf.user

\* "You can use the substitution token `${user}` to specify an address that contains a user's
\* authenticated user name" (qdrouter.json:2120): whatever the place of the token, and through both
\* conversions, a link is attached only when a rule allows its address, the group allows its kind
\* and the limits leave room; and when they do it is attached, unless all the rules that allow its
\* address are patterns that end in ${user} and the address is the user's name and no more.
LinksAsConfigured ==
    /\ lplast.dir # "none" =>
          LET t == lplast.t
              limit == IF lplast.dir = "sender" THEN lpcf.maxsenders ELSE lpcf.maxreceivers
              meant == {i \in DOMAIN lpcf.rules : RuleMeans(lpcf.rules[i], t.name)}
              sure == {i \in meant : ~Undecided(lpcf.rules[i], t.name)}
              Granted(which) ==
                /\ limit # 0 => lplast.before < limit
                /\ IF lplast.dir = "receiver" /\ t.dynamic THEN lpcf.dynamic
                   ELSE IF t.name # <<>> THEN CapAllowed(t) /\ which # {}
                   ELSE lplast.dir = "sender" /\ lpcf.anonymous
          IN  (lplast.verdict => Granted(meant)) /\ (Granted(sure) => lplast.verdict)
    /\ lpcf.maxsenders # 0 => AttachedAs("sender") <= lpcf.maxsenders
    /\ lpcf.maxreceivers # 0 => AttachedAs("receiver") <= lpcf.maxreceivers
=============================================================================
