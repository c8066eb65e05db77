------------------------------- MODULE Policy -------------------------------
(***************************************************************************)
(* Connection policy: src/policy.c counts sockets and asks the Python      *)
(* policy manager (policy_local.py, policy_util.py) whether the user of a  *)
(* connection may open it.  Each question is one hold of the Python lock,  *)
(* so rulesets are created, updated and deleted between the questions      *)
(* about one connection, and connections close at any time.                *)
(***************************************************************************)
EXTENDS Integers, Sequences, FiniteSets, Functions

CONSTANTS
  PoConfigs,    \* conns: a sequence of connections to be, each with dir, user, host and vhost;
                \* rules: the rulesets that management may ask for; max: maxConnections of the
                \* router; default: the default vhost; patterns: enableVhostNamePatterns;
                \* updates, deletes: whether management does that
  MaxChanges    \* management makes so many changes

\* A connector's connection that is given settings is uncounted when it ends without having been
\* counted (qd_policy_amqp_open_connector, qd_policy_socket_close): configurations with connectors
\* have no such settings.
ASSUME PoConfigsAssumption ==
    \A cf \in PoConfigs :
        /\ IsFiniteSet(DOMAIN cf.conns)
        /\ \A c \in DOMAIN cf.conns : cf.conns[c].dir \in {"in", "out"}
        /\ \A i \in DOMAIN cf.rules :
              /\ {"name", "aliases", "groups"} \subseteq DOMAIN cf.rules[i]
              /\ (\E c \in DOMAIN cf.conns : cf.conns[c].dir = "out") =>
                    "$connector" \notin DOMAIN cf.rules[i].groups

VARIABLES
  pocf,
  pod,      \* the database: rulesets, stats and facts by key, aliases, the tree of host names
  poc,      \* for each connection: where it is, the group, whether it is counted, its settings
  pon       \* n_connections, n_processed, n_denied, and the number of changes made

povars == <<pocf, pod, poc, pon>>

NoVhost == ""
Unlimited == -1

PoConns == DOMAIN pocf.conns
PoWith(f, x, v) == [y \in DOMAIN f \cup {x} |-> IF y = x THEN v ELSE f[y]]
PoWithout(f, X) == [y \in DOMAIN f \ X |-> f[y]]
PoGet(f, x, v) == IF x \in DOMAIN f THEN f[x] ELSE v

-----------------------------------------------------------------------------
(* PolicyCompiler.                                                          *)

\* A group without users has the empty user.
compile_app_settings(g) == [g EXCEPT !.users = IF @ = {} THEN {""} ELSE @]

compile_access_ruleset(raw) ==
    LET groups == [g \in DOMAIN raw.groups |-> compile_app_settings(raw.groups[g])]
        named == UNION {groups[g].users : g \in DOMAIN groups}
        alone == \A g, h \in DOMAIN groups : g # h => groups[g].users \cap groups[h].users = {}
    IN  [ok |-> /\ raw.name \notin Range(raw.aliases) /\ IsInjective(raw.aliases)
                /\ alone
                /\ raw.unknown => "$default" \in DOMAIN groups,
         rules |-> [raw EXCEPT !.groups = groups],
         u2g |-> [u \in named |-> CHOOSE g \in DOMAIN groups : u \in groups[g].users]]

-----------------------------------------------------------------------------
(* PolicyAppConnectionMgr.                                                  *)

FreshStats(r) == [max |-> r.max, peruser |-> r.peruser, perhost |-> r.perhost,
                  active |-> 0, users |-> <<>>, hosts |-> <<>>]

\* AppStats.update_ruleset: the limits are passed in the order total, host, user.
update_ruleset(s, r) == [s EXCEPT !.max = r.max, !.peruser = r.perhost, !.perhost = r.peruser]

can_connect(s, group, user, host) ==
    /\ s.active < s.max
    /\ Len(PoGet(s.users, user, <<>>)) < IF group.peruser # Unlimited THEN group.peruser ELSE s.peruser
    /\ Len(PoGet(s.hosts, host, <<>>)) < IF group.perhost # Unlimited THEN group.perhost ELSE s.perhost

Counted(s, c, user, host) ==
    [s EXCEPT !.active = @ + 1,
              !.users = PoWith(@, user, Append(PoGet(@, user, <<>>), c)),
              !.hosts = PoWith(@, host, Append(PoGet(@, host, <<>>), c))]

\* list.remove: the first c goes.
Removed(list, c) ==
    LET k == CHOOSE i \in DOMAIN list : list[i] = c /\ \A j \in 1..(i - 1) : list[j] # c
    IN  [i \in 1..(Len(list) - 1) |-> IF i < k THEN list[i] ELSE list[i + 1]]

\* (mutant: the connection stays in the list of its host)
disconnect_KeepsHost(s, c, user, host) ==
    [s EXCEPT !.active = @ - 1, !.users[user] = Removed(@, c)]

disconnect(s, c, user, host) ==
    [s EXCEPT !.active = @ - 1, !.users[user] = Removed(@, c), !.hosts[host] = Removed(@, c)]

-----------------------------------------------------------------------------
(* PolicyLocal.                                                             *)

AliasesFree(name, aliases) ==
    /\ name \notin DOMAIN pod.aliases
    /\ \A i \in DOMAIN aliases :
          /\ aliases[i] \notin DOMAIN pod.rules
          /\ aliases[i] \in DOMAIN pod.aliases =>
                name \in DOMAIN pod.rules /\ pod.aliases[aliases[i]] = name

TreeNames(name, aliases) == {name} \cup Range(aliases)

\* The vhost's old aliases go, its new ones come.
AliasesAfter(rules, aliases, name, list) ==
    LET old == IF name \in DOMAIN rules THEN Range(rules[name].aliases) ELSE {}
        kept == PoWithout(aliases, old)
    IN  [a \in DOMAIN kept \cup Range(list) |-> IF a \in Range(list) THEN name ELSE kept[a]]

StatsAfter(rules, stats, raw) ==
    IF raw.name \in DOMAIN rules THEN [stats EXCEPT ![raw.name] = update_ruleset(@, raw)]
    ELSE IF raw.name \in DOMAIN stats THEN stats
    ELSE PoWith(stats, raw.name, FreshStats(raw))

create_ruleset(raw) ==
    LET c == compile_access_ruleset(raw)
        names == TreeNames(raw.name, raw.aliases)
    IN  /\ c.ok /\ AliasesFree(raw.name, raw.aliases)
        /\ pocf.patterns => pod.tree \cap names = {}
        /\ pod' = [pod EXCEPT
             !.rules = PoWith(@, raw.name, PoWith(c.rules, "u2g", c.u2g)),
             !.aliases = AliasesAfter(pod.rules, @, raw.name, raw.aliases),
             !.tree = IF pocf.patterns THEN @ \cup names ELSE @,
             !.stats = StatsAfter(pod.rules, @, raw)]
        /\ pon' = [pon EXCEPT !.changes = @ + 1]
        /\ UNCHANGED poc

PoCreate(raw) == raw.name \notin DOMAIN pod.rules /\ create_ruleset(raw)
PoUpdate(raw) == pocf.updates /\ raw.name \in DOMAIN pod.rules /\ create_ruleset(raw)

\* The statistics of the vhost and its aliases stay.
policy_delete(name) ==
    /\ pocf.deletes
    /\ pod' = [pod EXCEPT !.rules = PoWithout(@, {name}),
                          !.tree = @ \ TreeNames(name, pod.rules[name].aliases)]
    /\ pon' = [pon EXCEPT !.changes = @ + 1]
    /\ UNCHANGED poc

lookup_vhost_alias(vhost) ==
    LET found == IF pocf.patterns /\ vhost \notin pod.tree THEN NoVhost ELSE vhost
        actual == PoGet(pod.aliases, found, found)
    IN  IF actual \in DOMAIN pod.rules THEN actual
        ELSE IF pocf.default \in DOMAIN pod.rules THEN pocf.default
        ELSE NoVhost

\* The group of the user, or none.
UserGroup(rules, user) ==
    IF user \in DOMAIN rules.u2g THEN rules.u2g[user]
    ELSE IF "*" \in DOMAIN rules.u2g THEN rules.u2g["*"]
    ELSE IF rules.unknown THEN "$default" ELSE ""

HostAllowed(group, host) == {"*", host} \cap group.from # {}

\* The group under which connection c may be opened now, or none.
ApprovedGroup(c) ==
    LET w == pocf.conns[c]
        vhost == lookup_vhost_alias(w.vhost)
    IN  IF vhost = NoVhost THEN ""
        ELSE LET r == pod.rules[vhost]
                 g == UserGroup(r, w.user)
             IN  IF g = "" THEN ""
                 ELSE IF HostAllowed(r.groups[g], w.host)
                         /\ can_connect(pod.stats[vhost], r.groups[g], w.user, w.host)
                 THEN g ELSE ""

lookup_user(c) ==
    LET w == pocf.conns[c]
        vhost == lookup_vhost_alias(w.vhost)
    IN  IF ApprovedGroup(c) = "" THEN pod
        ELSE [pod EXCEPT !.stats[vhost] = Counted(@, c, w.user, w.host),
                         !.facts = PoWith(@, c, [user |-> w.user, host |-> w.host, app |-> vhost])]

lookup_settings(vhost, group) ==
    LET v == lookup_vhost_alias(vhost)
    IN  v # NoVhost /\ group \in DOMAIN pod.rules[v].groups

close_connection(c) ==
    IF c \notin DOMAIN pod.facts THEN pod
    ELSE LET f == pod.facts[c]
         IN  [pod EXCEPT !.stats[f.app] = disconnect(@, c, f.user, f.host),
                         !.facts = PoWithout(@, {c})]

-----------------------------------------------------------------------------
(* Connections: policy.c, server.c.                                         *)

\* on_connection_bound of an incoming connection
qd_policy_socket_accept(c) ==
    /\ poc[c].at = "new" /\ pocf.conns[c].dir = "in"
    /\ LET room == pon.connections < pocf.max
       IN  /\ pon' = [pon EXCEPT !.connections = IF room THEN @ + 1 ELSE @,
                                 !.denied = IF room THEN @ ELSE @ + 1]
           /\ poc' = [poc EXCEPT ![c].at = IF room THEN "accepted" ELSE "failed", ![c].counted = room]
    /\ UNCHANGED pod

PoConnected(c) ==
    /\ poc[c].at = "new" /\ pocf.conns[c].dir = "out"
    /\ poc' = [poc EXCEPT ![c].at = "accepted"]
    /\ UNCHANGED <<pod, pon>>

\* qd_policy_amqp_open, first question
qd_policy_open_lookup_user(c) ==
    /\ poc[c].at = "accepted" /\ pocf.conns[c].dir = "in"
    /\ pod' = lookup_user(c)
    /\ poc' = [poc EXCEPT ![c].group = ApprovedGroup(c),
                          ![c].at = IF ApprovedGroup(c) = "" THEN "denied" ELSE "allowed"]
    /\ UNCHANGED pon

\* qd_policy_amqp_open, second question
qd_policy_open_fetch_settings(c) ==
    /\ poc[c].at = "allowed"
    /\ poc' = [poc EXCEPT ![c].at = IF lookup_settings(pocf.conns[c].vhost, poc[c].group)
                                    THEN "open" ELSE "denied"]
    /\ UNCHANGED <<pod, pon>>

\* A connector with a policyVhost.
qd_policy_amqp_open_connector(c) ==
    /\ poc[c].at = "accepted" /\ pocf.conns[c].dir = "out"
    /\ LET found == lookup_settings(pocf.conns[c].vhost, "$connector")
       IN  poc' = [poc EXCEPT ![c].at = IF found THEN "open" ELSE "denied", ![c].counted = found]
    /\ UNCHANGED <<pod, pon>>

\* qd_connection_free, qd_policy_socket_close
qd_connection_free(c) ==
    /\ poc[c].at \notin {"new", "gone"}
    /\ pon' = IF poc[c].counted THEN [pon EXCEPT !.connections = @ - 1] ELSE pon
    /\ pod' = IF poc[c].counted THEN close_connection(c) ELSE pod
    /\ poc' = [poc EXCEPT ![c].at = "gone", ![c].counted = FALSE]

-----------------------------------------------------------------------------
PoInit ==
    /\ pocf \in PoConfigs
    /\ pod = [rules |-> <<>>, stats |-> <<>>, facts |-> <<>>, aliases |-> <<>>, tree |-> {}]
    /\ poc = [c \in PoConns |-> [at |-> "new", group |-> "", counted |-> FALSE]]
    /\ pon = [connections |-> 0, denied |-> 0, changes |-> 0]

PoNext ==
    /\ UNCHANGED pocf
    /\ \/ /\ pon.changes < MaxChanges
          /\ \/ \E i \in DOMAIN pocf.rules : PoCreate(pocf.rules[i]) \/ PoUpdate(pocf.rules[i])
             \/ \E name \in DOMAIN pod.rules : policy_delete(name)
       \/ \E c \in PoConns :
             \/ qd_policy_socket_accept(c) \/ PoConnected(c)
             \/ qd_policy_open_lookup_user(c) \/ qd_policy_open_fetch_settings(c)
             \/ qd_policy_amqp_open_connector(c)
             \/ qd_connection_free(c)

PoSpec == PoInit /\ [][PoNext]_povars

-----------------------------------------------------------------------------
(* Properties.                                                              *)

\* The sockets counted against maxConnections are the incoming ones that were accepted and are not
\* closed, however opening them ended (qd_policy_socket_accept, qd_policy_socket_close).
SocketsCounted == pon.connections = Cardinality({c \in PoConns : poc[c].counted})

\* What AppStats has of a vhost, by user or by host (field), are the connections of the vhost
\* with that user or host, each once.
ListsExact(lists, facts, vhost, field) ==
    /\ \A x \in DOMAIN lists :
          /\ IsInjective(lists[x])
          /\ Range(lists[x]) = {c \in DOMAIN facts : facts[c].app = vhost /\ facts[c][field] = x}
    /\ \A c \in DOMAIN facts : facts[c].app = vhost => facts[c][field] \in DOMAIN lists

StatsExact(s, facts, vhost) ==
    /\ s.active = Cardinality({c \in DOMAIN facts : facts[c].app = vhost})
    /\ ListsExact(s.users, facts, vhost, "user")
    /\ ListsExact(s.hosts, facts, vhost, "host")

\* The connections counted for a vhost, for each user and for each host are those that the lookup
\* admitted and that still are: none is counted after it is gone, also when its ruleset was replaced
\* or deleted meanwhile or when its settings could not be fetched (lookup_user, close_connection);
\* and disconnect finds what it asserts.
UsersCounted ==
    /\ DOMAIN pod.facts = {c \in PoConns : poc[c].group # "" /\ poc[c].at # "gone"}
    /\ \A c \in DOMAIN pod.facts : pod.facts[c].app \in DOMAIN pod.stats
    /\ \A v \in DOMAIN pod.stats : StatsExact(pod.stats[v], pod.facts, v)

\* No two vhosts have a name in common, so that a vhost and each of its aliases find its own rules.
NamesFound ==
    \A v \in DOMAIN pod.rules :
        \A n \in TreeNames(v, pod.rules[v].aliases) : lookup_vhost_alias(n) = v

PolicyCounts == SocketsCounted /\ UsersCounted /\ NamesFound

\* "The maximum number of concurrent client connections allowed for any user" (qdrouter.json:1975)
\* and for any remote host: a connection that is admitted keeps within the limits of its ruleset.
LimitsHonoured ==
    [][\A c \in DOMAIN pod'.facts \ DOMAIN pod.facts :
          LET f == pod'.facts[c]
              r == pod.rules[f.app]
              g == r.groups[UserGroup(r, f.user)]
              own(limit, vhosts) == IF limit = Unlimited THEN vhosts ELSE limit
          IN  /\ Cardinality({d \in DOMAIN pod'.facts : pod'.facts[d].app = f.app}) <= r.max
              /\ Cardinality({d \in DOMAIN pod'.facts : pod'.facts[d].app = f.app /\ pod'.facts[d].user = f.user})
                    <= own(g.peruser, r.peruser)
              /\ Cardinality({d \in DOMAIN pod'.facts : pod'.facts[d].app = f.app /\ pod'.facts[d].host = f.host})
                    <= own(g.perhost, r.perhost)]_povars

=============================================================================
