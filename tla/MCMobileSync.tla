---------------------------- MODULE MCMobileSync ----------------------------
(***************************************************************************)
(* The situations in which MobileSync is checked.                          *)
(***************************************************************************)
EXTENDS MobileSync

\* Updates arrive late, out of order, repeatedly or not at all.
Reordered == [addrs |-> Addr, links |-> 2, changes |-> 2, restarts |-> 0,
              expires |-> FALSE, keeps |-> TRUE, work |-> 1]

\* The advertiser restarts, or the receiver forgets it.
Restarted == [Reordered EXCEPT !.links = 1, !.restarts = 1]
Forgotten == [Reordered EXCEPT !.links = 1, !.expires = TRUE]

\* Messages are lost and overtaken.
Lossy == [Reordered EXCEPT !.links = 1, !.keeps = FALSE]

\* A third change takes back a withdrawal the peers have not heard of.
TakenBack == [Reordered EXCEPT !.addrs = {CHOOSE a \in Addr : TRUE}, !.changes = 3]

MCConfigs == {Reordered, Restarted, Forgotten, Lossy, TakenBack}
=============================================================================
