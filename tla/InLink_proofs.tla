---------------------------- MODULE InLink_proofs ----------------------------
(***************************************************************************)
(* The credit of a sender is not lost (InLink), for every capacity and     *)
(* every number of messages and of changes of the address's paths.         *)
(***************************************************************************)
EXTENDS InLink, TLAPS

LinkRecord ==
  [credit_pending : Nat, drain_mode : BOOLEAN, local : BOOLEAN, remote : BOOLEAN,
   locals : Nat, remotes : Nat, unsettledLocal : Nat, unsettledRemote : Nat]
WorkRecord == [flow : BOOLEAN, value : Nat, action : {"none", "set", "clear"}]
Receiver == [limit : Nat, drain : BOOLEAN]
Sender == [limit : Nat, used : Nat, drain : BOOLEAN, sent : Nat,
           down : Seq(Receiver), up : Seq({"message", "drained"})]

ILTypeOK ==
    /\ ilcf \in ILConfig
    /\ ilq \in Seq({"deliver", "flow", "drain"})
    /\ il \in LinkRecord
    /\ ilw \in WorkRecord
    /\ ilpn \in Receiver
    /\ ils \in Sender

\* The limits on their way to the sender grow, the last of them is proton's; a frame that
\* ends a drain brings credit.  The sender has used up to "used" of the limit "low" and
\* drains (sd) or not, "s" is on the way to it, "high" and "dr" are proton's.
Frames(used, low, sd, s, high, dr) ==
    /\ used <= low /\ low <= high
    /\ sd /\ ~dr => low < high
    /\ s = <<>> => low = high
    /\ s # <<>> => s[Len(s)].limit = high
    /\ \A i \in 1 .. Len(s) :
         /\ low <= s[i].limit
         /\ s[i].limit <= high
         /\ s[i].drain /\ ~dr => s[i].limit < high
    /\ \A i, j \in 1 .. Len(s) : i <= j => s[i].limit <= s[j].limit

FramesOrdered ==
    /\ ilw.action = "clear" => ilw.value > 0
    /\ Frames(ils.used, ils.limit, ils.drain, ils.down, ilpn.limit, ilpn.drain)

\* Credit that the sender has neither used nor given up, wherever it is.
Out == ilpn.limit + ilw.value > ils.used

\* A message in the core or on its way to it.
MessageComes == \E i \in 1 .. Len(ils.up) : ils.up[i] = "message"
Held == il.unsettledLocal > 0 \/ il.unsettledRemote > 0

\* An answer to a drain that the core will see as one.
AnswerComes == ilpn.drain /\ \E i \in 1 .. Len(ils.up) : ils.up[i] = "drained"

\* An action of the core's queue that gives the link credit again.
Renews(i) == ilq[i] # "flow"

Underway ==
    \/ Out \/ MessageComes \/ AnswerComes \/ Held
    \/ \E i \in 1 .. Len(ilq) : Renews(i)

\* The core has credit pending, or some is under way.
NotLost == il.credit_pending > 0 \/ Underway

\* A link with a destination that is not draining does without pending credit.
NotPending == qdr_addr_path_count_CT(il) > 0 /\ ~il.drain_mode => Underway

\* An answer that arrives after the drain was ended leaves credit behind it: in the
\* core's queue ...
FlowsFollowed ==
    \A i \in 1 .. Len(ilq) : ilq[i] = "flow" =>
       \/ Out \/ MessageComes \/ AnswerComes
       \/ \E j \in 1 .. Len(ilq) : i < j /\ Renews(j)

\* ... and on the way to it.
AnswersFollowed ==
    ~ilpn.drain => \A i \in 1 .. Len(ils.up) : ils.up[i] = "drained" =>
       Out \/ \E j \in 1 .. Len(ils.up) : i < j /\ ils.up[j] = "message"

ILInv == ILTypeOK /\ FramesOrdered /\ NotLost /\ NotPending /\ FlowsFollowed /\ AnswersFollowed

-----------------------------------------------------------------------------

\* What Append and Tail do to a sequence.
LEMMA AppendFacts ==
    ASSUME NEW S, NEW s \in Seq(S), NEW e \in S
    PROVE  /\ Append(s, e) \in Seq(S) /\ Len(s) \in Nat /\ Len(Append(s, e)) = Len(s) + 1
           /\ \A i \in 1 .. Len(s) : Append(s, e)[i] = s[i]
           /\ Append(s, e)[Len(s) + 1] = e
           /\ Append(s, e) # <<>>
  OBVIOUS

\* What is left of a sequence behind its head.
LEMMA TailFacts ==
    ASSUME NEW S, NEW s \in Seq(S), s # <<>>
    PROVE  /\ Tail(s) \in Seq(S) /\ Len(s) \in Nat /\ Len(s) >= 1 /\ Len(Tail(s)) = Len(s) - 1
           /\ \A i \in 1 .. Len(s) - 1 : Tail(s)[i] = s[i + 1]
           /\ Head(s) = s[1] /\ s[1] \in S
  OBVIOUS

\* Another frame is sent after those on the way, with a limit that is no lower.
LEMMA FrameAdded ==
    ASSUME NEW used \in Nat, NEW low \in Nat, NEW sd \in BOOLEAN, NEW s \in Seq(Receiver),
           NEW high \in Nat, NEW dr \in BOOLEAN, Frames(used, low, sd, s, high, dr),
           NEW n \in Nat, NEW d \in BOOLEAN, high <= n, d \/ ~dr \/ high < n,
           NEW p \in Receiver, p.limit = n, p.drain = d
    PROVE  Frames(used, low, sd, Append(s, p), n, d)
  <1> DEFINE q == Append(s, p)
  <1>1. /\ q \in Seq(Receiver) /\ Len(s) \in Nat /\ Len(q) = Len(s) + 1
        /\ \A i \in 1 .. Len(s) : q[i] = s[i]
        /\ q[Len(s) + 1] = p /\ q # <<>>
    BY AppendFacts
  <1> HIDE DEF q
  <1>2. used <= low /\ low <= n /\ (sd /\ ~d => low < n)
    BY DEF Frames
  <1>3. \A i \in 1 .. Len(s) : /\ q[i].limit \in Nat /\ low <= q[i].limit
                              /\ q[i].limit <= n /\ (q[i].drain /\ ~d => q[i].limit < n)
    <2> TAKE i \in 1 .. Len(s)
    <2>3. q[i] = s[i] /\ s[i] \in Receiver
      BY <1>1
    <2>1. PICK m \in Nat : m = s[i].limit /\ m = q[i].limit /\ q[i].drain = s[i].drain
      BY <2>3 DEF Receiver
    <2>2. low <= m /\ m <= high /\ (q[i].drain /\ ~dr => m < high)
      BY <2>1, Zenon DEF Frames
    <2> QED
      BY <2>1, <2>2, SMTT(30)
  <1>4. \A i \in 1 .. Len(q) : i \in 1 .. Len(s) \/ i = Len(s) + 1
    BY <1>1
  <1>5. \A i \in 1 .. Len(q) : /\ low <= q[i].limit /\ q[i].limit <= n
                               /\ q[i].drain /\ ~d => q[i].limit < n
    BY <1>1, <1>2, <1>3, <1>4
  <1>6. ASSUME NEW i \in 1 .. Len(q), NEW j \in 1 .. Len(q), i <= j
        PROVE  q[i].limit <= q[j].limit
    <2>1. CASE j = Len(s) + 1
      <3>1. q[j] = p
        BY <1>1, <2>1
      <3>2. q[i].limit <= n
        BY <1>5
      <3> QED
        BY <3>1, <3>2
    <2>2. CASE j \in 1 .. Len(s)
      <3>1. i \in 1 .. Len(s)
        BY <1>6, <2>2
      <3>2. s[i].limit <= s[j].limit
        BY <1>6, <2>2, <3>1 DEF Frames
      <3> QED
        BY <1>1, <2>2, <3>1, <3>2
    <2> QED
      BY <1>4, <2>1, <2>2
  <1>7. q[Len(q)].limit = n
    BY <1>1
  <1>8. Frames(used, low, sd, q, n, d)
    BY <1>1, <1>2, <1>5, <1>6, <1>7 DEF Frames
  <1> QED
    BY <1>8 DEF q

\* The first of the frames reaches the sender.
LEMMA FrameTaken ==
    ASSUME NEW used \in Nat, NEW low \in Nat, NEW sd, NEW s \in Seq(Receiver), s # <<>>,
           NEW high \in Nat, NEW dr \in BOOLEAN, Frames(used, low, sd, s, high, dr)
    PROVE  Frames(used, Head(s).limit, Head(s).drain, Tail(s), high, dr)
  <1> DEFINE q == Tail(s)
             h == Head(s)
  <1>1. /\ q \in Seq(Receiver) /\ Len(s) \in Nat /\ Len(s) >= 1 /\ Len(q) = Len(s) - 1
        /\ \A i \in 1 .. Len(s) - 1 : q[i] = s[i + 1]
        /\ h = s[1] /\ s[1] \in Receiver
    BY TailFacts
  <1> HIDE DEF q, h
  <1>2. h.limit \in Nat /\ h.drain \in BOOLEAN /\ 1 \in 1 .. Len(s)
    BY <1>1 DEF Receiver
  <1>3. low <= h.limit /\ h.limit <= high /\ (h.drain /\ ~dr => h.limit < high)
    BY <1>1, <1>2 DEF Frames
  <1>4. used <= h.limit
    BY <1>2, <1>3 DEF Frames
  <1>5. ASSUME NEW i \in 1 .. Len(q)
        PROVE  /\ h.limit <= q[i].limit /\ q[i].limit <= high
               /\ q[i].drain /\ ~dr => q[i].limit < high
    <2>1. PICK j \in 1 .. Len(s) : j = i + 1 /\ q[i] = s[j] /\ 1 <= j
      BY <1>1
    <2>2. s[1].limit <= s[j].limit
      BY <1>2, <2>1 DEF Frames
    <2>3. s[j].limit <= high /\ (s[j].drain /\ ~dr => s[j].limit < high)
      BY <2>1 DEF Frames
    <2> QED
      BY <1>1, <2>1, <2>2, <2>3
  <1>6. ASSUME NEW i \in 1 .. Len(q), NEW j \in 1 .. Len(q), i <= j
        PROVE  q[i].limit <= q[j].limit
    <2>1. PICK a \in 1 .. Len(s) : a = i + 1 /\ q[i] = s[a]
      BY <1>1
    <2>2. PICK b \in 1 .. Len(s) : b = j + 1 /\ q[j] = s[b]
      BY <1>1
    <2>3. a <= b
      BY <1>1, <1>6, <2>1, <2>2
    <2>4. s[a].limit <= s[b].limit
      BY <2>3 DEF Frames
    <2> QED
      BY <2>1, <2>2, <2>4
  <1>7. s[Len(s)].limit = high
    BY DEF Frames
  <1>8. CASE q = <<>>
    <2>1. Len(s) = 1
      BY <1>1, <1>8
    <2>2. h.limit = high
      BY <1>1, <1>7, <2>1
    <2> QED
      BY <1>1, <1>3, <1>4, <1>8, <2>2 DEF Frames, q, h
  <1>9. CASE q # <<>>
    <2>1. Len(q) \in 1 .. Len(s) - 1 /\ Len(q) + 1 = Len(s)
      BY <1>1, <1>9
    <2>2. q[Len(q)].limit = high
      BY <1>1, <1>7, <2>1
    <2>3. Frames(used, h.limit, h.drain, q, high, dr)
      BY <1>3, <1>4, <1>5, <1>6, <1>9, <2>2 DEF Frames
    <2> QED
      BY <2>3 DEF q, h
  <1> QED
    BY <1>8, <1>9

\* The fields of the records have their types.
LEMMA Fields ==
    ASSUME ILTypeOK
    PROVE  /\ ilcf.capacity \in Nat \ {0} /\ il.credit_pending \in Nat
           /\ il.drain_mode \in BOOLEAN /\ il.local \in BOOLEAN /\ il.remote \in BOOLEAN
           /\ il.unsettledLocal \in Nat /\ il.unsettledRemote \in Nat
           /\ ilw.value \in Nat /\ ilw.action \in {"none", "set", "clear"}
           /\ ilpn.limit \in Nat /\ ilpn.drain \in BOOLEAN
           /\ ils.limit \in Nat /\ ils.used \in Nat /\ ils.drain \in BOOLEAN
           /\ ils.down \in Seq(Receiver) /\ ils.up \in Seq({"message", "drained"})
           /\ ilq \in Seq({"deliver", "flow", "drain"})
  BY DEF ILTypeOK, ILConfig, LinkRecord, WorkRecord, Receiver, Sender

\* qdr_link_issue_credit_CT with credit and without a drain adds its credit to the work.
LEMMA Issued ==
    ASSUME NEW l \in LinkRecord, NEW w \in WorkRecord, NEW credit \in Nat, credit > 0
    PROVE  LET s == qdr_link_issue_credit_CT(State(l, w), credit, FALSE) IN
           s.l \in LinkRecord /\ s.w \in WorkRecord /\ s.w.value = w.value + credit
  <1> DEFINE pending == Pending(l, credit)
             a == IF l.drain_mode THEN "clear" ELSE w.action
  <1>1. l.credit_pending \in Nat /\ l.drain_mode \in BOOLEAN /\ w.value \in Nat
        /\ w.action \in {"none", "set", "clear"}
    BY DEF LinkRecord, WorkRecord
  <1>2. pending \in Nat
    BY <1>1 DEF Pending
  <1>3. a \in {"none", "set", "clear"}
    BY <1>1
  <1> DEFINE s == qdr_link_issue_credit_CT(State(l, w), credit, FALSE)
  <1>4. s.l = [l EXCEPT !.drain_mode = FALSE, !.credit_pending = pending]
    BY DEF qdr_link_issue_credit_CT, State
  <1>5. s.w = [flow |-> TRUE, value |-> w.value + credit, action |-> a]
    <2>1. CASE l.drain_mode = TRUE
      BY <2>1, Zenon DEF qdr_link_issue_credit_CT, State
    <2>2. CASE l.drain_mode = FALSE
      <3>1. credit # 0
        OBVIOUS
      <3>2. s.w = IF l.drain_mode = FALSE /\ credit = 0 THEN w
                  ELSE [flow |-> TRUE, value |-> w.value + credit,
                        action |-> IF l.drain_mode = FALSE THEN w.action ELSE "clear"]
        BY <2>2, Zenon DEF qdr_link_issue_credit_CT, State
      <3> QED
        BY <2>2, <3>1, <3>2, Zenon
    <2> QED
      BY <1>1, <2>1, <2>2, Zenon
  <1>6. PICK v \in Nat : v = w.value + credit
    BY <1>1
  <1> HIDE DEF pending, a, s
  <1>7. s.l \in LinkRecord
    BY <1>2, <1>4, Zenon DEF LinkRecord
  <1>8. s.w \in WorkRecord /\ s.w.value = w.value + credit
    BY <1>3, <1>5, <1>6 DEF WorkRecord
  <1> QED
    BY <1>7, <1>8, Zenon DEF s

\* A step of the core that gives credit: whatever was under way, credit is out.
LEMMA CreditGiven ==
    ASSUME ILInv, ILTypeOK', UNCHANGED <<ilpn, ils>>, ilw'.value > ilw.value
    PROVE  ILInv'
  <1> USE DEF ILInv
  <1>1. Out'
    BY Fields, ILTypeOK', SMTT(30) DEF Out, FramesOrdered, Frames, ILTypeOK, WorkRecord
  <1>2. FramesOrdered'
    BY Fields, ILTypeOK' DEF FramesOrdered, ILTypeOK, WorkRecord
  <1> QED
    BY <1>1, <1>2 DEF NotLost, NotPending, Underway, FlowsFollowed, AnswersFollowed

\* The address gets a path.
LEMMA AppearsOK ==
    ASSUME ILInv, LocalAppears \/ RemoteAppears
    PROVE  ILInv'
  <1> USE DEF ILInv
  <1>1. PICK l \in LinkRecord :
          /\ l.credit_pending = il.credit_pending /\ l.drain_mode = il.drain_mode
          /\ l.unsettledLocal = il.unsettledLocal /\ l.unsettledRemote = il.unsettledRemote
          /\ qdr_addr_path_count_CT(l) > 0
          /\ qdr_addr_path_count_CT(l) = 1 \/ qdr_addr_path_count_CT(il) > 0
          /\ Became(qdr_addr_start_inlinks_CT(State(l, ilw)))
          /\ UNCHANGED <<ilcf, ilq, ilpn, ils>>
    <2>1. CASE LocalAppears
      <3> DEFINE l == [il EXCEPT !.local = TRUE, !.locals = @ + 1]
      <3>1. PICK k \in Nat : k = il.locals + 1
        BY DEF ILTypeOK, LinkRecord
      <3>2. l = [il EXCEPT !.local = TRUE, !.locals = k]
        BY <3>1
      <3>3. /\ l \in LinkRecord
            /\ l.credit_pending = il.credit_pending /\ l.drain_mode = il.drain_mode
            /\ l.unsettledLocal = il.unsettledLocal /\ l.unsettledRemote = il.unsettledRemote
            /\ l.local = TRUE /\ l.remote = il.remote /\ il.remote \in BOOLEAN /\ il.local \in BOOLEAN
        BY <3>2, Zenon DEF ILTypeOK, LinkRecord
      <3>4. ~il.local /\ Became(qdr_addr_start_inlinks_CT(State(l, ilw)))
            /\ UNCHANGED <<ilcf, ilq, ilpn, ils>>
        BY <2>1 DEF LocalAppears
      <3> HIDE DEF l
      <3>5. /\ qdr_addr_path_count_CT(l) > 0
            /\ qdr_addr_path_count_CT(l) = 1 \/ qdr_addr_path_count_CT(il) > 0
        BY <3>3 DEF qdr_addr_path_count_CT
      <3> QED
        BY <3>3, <3>4, <3>5
    <2>2. CASE RemoteAppears
      <3> DEFINE l == [il EXCEPT !.remote = TRUE, !.remotes = @ + 1]
      <3>1. PICK k \in Nat : k = il.remotes + 1
        BY DEF ILTypeOK, LinkRecord
      <3>2. l = [il EXCEPT !.remote = TRUE, !.remotes = k]
        BY <3>1
      <3>3. /\ l \in LinkRecord
            /\ l.credit_pending = il.credit_pending /\ l.drain_mode = il.drain_mode
            /\ l.unsettledLocal = il.unsettledLocal /\ l.unsettledRemote = il.unsettledRemote
            /\ l.remote = TRUE /\ l.local = il.local /\ il.local \in BOOLEAN /\ il.remote \in BOOLEAN
        BY <3>2, Zenon DEF ILTypeOK, LinkRecord
      <3>4. ~il.remote /\ Became(qdr_addr_start_inlinks_CT(State(l, ilw)))
            /\ UNCHANGED <<ilcf, ilq, ilpn, ils>>
        BY <2>2 DEF RemoteAppears
      <3> HIDE DEF l
      <3>5. /\ qdr_addr_path_count_CT(l) > 0
            /\ qdr_addr_path_count_CT(l) = 1 \/ qdr_addr_path_count_CT(il) > 0
        BY <3>3 DEF qdr_addr_path_count_CT
      <3> QED
        BY <3>3, <3>4, <3>5
    <2> QED
      BY <2>1, <2>2
  <1>2. CASE qdr_addr_path_count_CT(l) = 1 /\ il.credit_pending > 0
    <2>1. Became(qdr_link_issue_credit_CT(State(l, ilw), il.credit_pending, FALSE))
      BY <1>1, <1>2, Zenon DEF qdr_addr_start_inlinks_CT, State
    <2>2. il' \in LinkRecord /\ ilw' \in WorkRecord /\ ilw'.value = ilw.value + il.credit_pending
      BY <1>2, <2>1, Fields, Issued, Zenon DEF ILTypeOK, Became
    <2>3. ILTypeOK'
      BY <1>1, <2>2 DEF ILTypeOK
    <2> QED
      BY <1>1, <1>2, <2>2, <2>3, Fields, CreditGiven
  <1>3. CASE ~(qdr_addr_path_count_CT(l) = 1 /\ il.credit_pending > 0)
    <2>1. il' = l /\ ilw' = ilw
      BY <1>1, <1>3, Zenon DEF qdr_addr_start_inlinks_CT, State, Became
    <2>2. ILTypeOK' /\ FramesOrdered' /\ FlowsFollowed' /\ AnswersFollowed'
      BY <1>1, <2>1 DEF ILTypeOK, FramesOrdered, FlowsFollowed, AnswersFollowed, Out,
                        MessageComes, AnswerComes, Renews
    <2>3. Underway' <=> Underway
      BY <1>1, <2>1 DEF Underway, Out, MessageComes, AnswerComes, Renews, Held
    <2>4. NotLost' /\ NotPending'
      BY <1>1, <1>3, <2>1, <2>3 DEF NotLost, NotPending
    <2> QED
      BY <2>2, <2>4
  <1> QED
    BY <1>2, <1>3

\* The address loses a path.
LEMMA LeavesOK ==
    ASSUME ILInv, LocalLeaves \/ RemoteLeaves
    PROVE  ILInv'
  <1> USE DEF ILInv
  <1>1. CASE LocalLeaves
    <2> DEFINE l == [il EXCEPT !.local = FALSE, !.unsettledLocal = 0]
    <2>1. l \in LinkRecord
      BY Zenon DEF ILTypeOK, LinkRecord
    <2>2. CASE il.unsettledLocal = 0
      <3>1. il' = l /\ UNCHANGED <<ilcf, ilq, ilw, ilpn, ils>>
        BY <1>1, <2>2 DEF LocalLeaves, Became, State
      <3>2. /\ il'.credit_pending = il.credit_pending /\ il'.drain_mode = il.drain_mode
            /\ il'.unsettledLocal = il.unsettledLocal /\ il'.unsettledRemote = il.unsettledRemote
            /\ il'.local = FALSE /\ il'.remote = il.remote
        BY <2>2, <3>1 DEF ILTypeOK, LinkRecord
      <3> QED
        BY <2>1, <3>1, <3>2 DEF ILTypeOK, FramesOrdered, FlowsFollowed, AnswersFollowed, Out,
               MessageComes, AnswerComes, Renews, Underway, Held, NotLost, NotPending,
               qdr_addr_path_count_CT
    <2>3. CASE il.unsettledLocal # 0
      <3>1. Became(qdr_link_issue_credit_CT(State(l, ilw), il.unsettledLocal, FALSE))
            /\ UNCHANGED <<ilcf, ilq, ilpn, ils>>
        BY <1>1, <2>3, Zenon DEF LocalLeaves
      <3> HIDE DEF l
      <3>2. il' \in LinkRecord /\ ilw' \in WorkRecord /\ ilw'.value = ilw.value + il.unsettledLocal
        <4>1. il.unsettledLocal \in Nat /\ il.unsettledLocal > 0 /\ ilw \in WorkRecord
          BY <2>3, Fields DEF ILTypeOK
        <4> QED
          BY <2>1, <3>1, <4>1, Issued, Zenon DEF Became
      <3>3. ILTypeOK'
        BY <3>1, <3>2 DEF ILTypeOK
      <3> QED
        BY <2>3, <3>1, <3>2, <3>3, Fields, CreditGiven
    <2> QED
      BY <2>2, <2>3
  <1>2. CASE RemoteLeaves
    <2>1. il' = [il EXCEPT !.remote = FALSE] /\ UNCHANGED <<ilcf, ilq, ilw, ilpn, ils>>
      BY <1>2 DEF RemoteLeaves
    <2>2. il' \in LinkRecord
      BY <2>1, Zenon DEF ILTypeOK, LinkRecord
    <2>3. /\ il'.credit_pending = il.credit_pending /\ il'.drain_mode = il.drain_mode
          /\ il'.unsettledLocal = il.unsettledLocal /\ il'.unsettledRemote = il.unsettledRemote
          /\ il'.local = il.local /\ il'.remote = FALSE
      BY <2>1 DEF ILTypeOK, LinkRecord
    <2> QED
      BY <2>1, <2>2, <2>3 DEF ILTypeOK, FramesOrdered, FlowsFollowed, AnswersFollowed, Out,
             MessageComes, AnswerComes, Renews, Underway, Held, NotLost, NotPending,
             qdr_addr_path_count_CT
  <1> QED
    BY <1>1, <1>2

\* A delivery is settled.
LEMMA SettledOK ==
    ASSUME ILInv, qdr_delivery_settled_CT
    PROVE  ILInv'
  <1> USE DEF ILInv
  <1>1. PICK l \in LinkRecord :
          /\ Became(qdr_link_issue_credit_CT(State(l, ilw), 1, FALSE))
          /\ UNCHANGED <<ilcf, ilq, ilpn, ils>>
    <2>1. CASE il.unsettledLocal > 0 /\ Became(qdr_link_issue_credit_CT(
                 State([il EXCEPT !.unsettledLocal = @ - 1], ilw), 1, FALSE))
      <3>1. PICK k \in Nat : k = il.unsettledLocal - 1
        BY <2>1, Fields, SMTT(30)
      <3>2. [il EXCEPT !.unsettledLocal = k] \in LinkRecord
        BY DEF ILTypeOK, LinkRecord
      <3> QED
        BY <2>1, <3>1, <3>2, Zenon DEF qdr_delivery_settled_CT
    <2>2. CASE il.unsettledRemote > 0 /\ Became(qdr_link_issue_credit_CT(
                 State([il EXCEPT !.unsettledRemote = @ - 1], ilw), 1, FALSE))
      <3>1. PICK k \in Nat : k = il.unsettledRemote - 1
        BY <2>2, Fields, SMTT(30)
      <3>2. [il EXCEPT !.unsettledRemote = k] \in LinkRecord
        BY DEF ILTypeOK, LinkRecord
      <3> QED
        BY <2>2, <3>1, <3>2, Zenon DEF qdr_delivery_settled_CT
    <2> QED
      BY <2>1, <2>2, Zenon DEF qdr_delivery_settled_CT
  <1>2. il' \in LinkRecord /\ ilw' \in WorkRecord /\ ilw'.value = ilw.value + 1
    <2>1. 1 \in Nat /\ 1 > 0 /\ ilw \in WorkRecord
      BY DEF ILTypeOK
    <2> QED
      BY <1>1, <2>1, Issued, Zenon DEF Became
  <1>3. ILTypeOK'
    BY <1>1, <1>2 DEF ILTypeOK
  <1> QED
    BY <1>1, <1>2, <1>3, Fields, CreditGiven

\* The core takes an action that gives no credit from its queue.
LEMMA Taken ==
    ASSUME ILInv, ilq # <<>>, ilq' = Tail(ilq), UNCHANGED <<ilpn, ils>>, ilw'.value = ilw.value
    PROVE  FlowsFollowed'
  <1> USE DEF ILInv
  <1> SUFFICES ASSUME NEW i \in 1 .. Len(ilq'), ilq'[i] = "flow",
                      ~Out, ~MessageComes, ~AnswerComes
               PROVE  \E j \in 1 .. Len(ilq') : i < j /\ Renews(j)'
    BY Zenon DEF FlowsFollowed, Out, MessageComes, AnswerComes
  <1>1. /\ Len(ilq) \in Nat /\ Len(ilq') = Len(ilq) - 1
        /\ \A k \in 1 .. Len(ilq) - 1 : ilq'[k] = ilq[k + 1]
    BY Fields, TailFacts
  <1>2. i + 1 \in 1 .. Len(ilq) /\ ilq[i + 1] = "flow"
    BY <1>1
  <1>3. PICK j \in 1 .. Len(ilq) : i + 1 < j /\ Renews(j)
    BY <1>2 DEF FlowsFollowed
  <1>4. j - 1 \in 1 .. Len(ilq') /\ i < j - 1 /\ ilq'[j - 1] = ilq[j]
    BY <1>1, <1>3
  <1> QED
    BY <1>3, <1>4, Zenon DEF Renews

\* A message reaches the core.
LEMMA ForwardOK ==
    ASSUME ILInv, qdr_link_forward_CT
    PROVE  ILInv'
  <1> USE DEF ILInv
  <1>1. /\ ilq # <<>> /\ ilq' = Tail(ilq) /\ ilq' \in Seq({"deliver", "flow", "drain"})
        /\ UNCHANGED <<ilcf, ilpn, ils>>
    BY Fields, TailFacts DEF qdr_link_forward_CT
  <1>2. CASE qdr_addr_path_count_CT(il) = 0 /\ Became(NoPath(State(il, ilw)))
    <2> DEFINE w == IF il.drain_mode THEN ilw
                    ELSE [flow |-> TRUE, value |-> ilw.value + 0, action |-> "set"]
               l == [il EXCEPT !.drain_mode = TRUE, !.credit_pending = Pending(il, 0)]
    <2>1. PICK n \in Nat : n = Pending(il, 0) + 1
      BY Fields DEF Pending
    <2>2. il' = [l EXCEPT !.credit_pending = @ + 1] /\ ilw' = w
      <3>1. CASE il.drain_mode = TRUE
        BY <1>2, <3>1, Zenon DEF Became, NoPath, qdr_link_issue_credit_CT, State
      <3>2. CASE il.drain_mode = FALSE
        BY <1>2, <3>2, Zenon DEF Became, NoPath, qdr_link_issue_credit_CT, State
      <3> QED
        BY <3>1, <3>2, Fields, Zenon
    <2>3. il' = [il EXCEPT !.drain_mode = TRUE, !.credit_pending = n]
      BY <2>1, <2>2, Zenon DEF ILTypeOK, LinkRecord
    <2>4. il' \in LinkRecord /\ il'.credit_pending = n /\ il'.local = il.local /\ il'.remote = il.remote
      BY <2>3, Zenon DEF ILTypeOK, LinkRecord
    <2>5. ilw' \in WorkRecord /\ ilw'.value = ilw.value
          /\ (ilw'.action = "clear" => ilw.action = "clear")
      <3>1. ilw.value + 0 = ilw.value
        BY Fields
      <3>2. CASE il.drain_mode = TRUE
        BY <2>2, <3>2 DEF ILTypeOK
      <3>3. CASE il.drain_mode = FALSE
        BY <2>2, <3>1, <3>3, Fields, SMTT(30) DEF WorkRecord
      <3> QED
        BY <3>2, <3>3, Fields, Zenon
    <2>6. ILTypeOK' /\ FramesOrdered' /\ AnswersFollowed'
      BY <1>1, <2>4, <2>5 DEF ILTypeOK, FramesOrdered, AnswersFollowed, Out
    <2>7. NotLost' /\ NotPending'
      BY <1>2, <2>1, <2>4, Fields DEF NotLost, NotPending, qdr_addr_path_count_CT, Pending
    <2> QED
      BY <1>1, <2>5, <2>6, <2>7, Taken
  <1>3. CASE Became(qdr_link_issue_credit_CT(State(il, ilw), 1, FALSE))
    <2>1. 1 \in Nat /\ 1 > 0 /\ il \in LinkRecord /\ ilw \in WorkRecord
      BY DEF ILTypeOK
    <2>2. il' \in LinkRecord /\ ilw' \in WorkRecord /\ ilw'.value = ilw.value + 1
      BY <1>3, <2>1, Issued, Zenon DEF Became
    <2>3. ILTypeOK'
      BY <1>1, <2>2 DEF ILTypeOK
    <2> QED
      BY <1>1, <2>2, <2>3, Fields, CreditGiven
  <1>4. ASSUME UNCHANGED ilw, il' \in LinkRecord,
               il'.unsettledLocal > 0 \/ il'.unsettledRemote > 0
        PROVE  ILInv'
    <2>1. ILTypeOK' /\ FramesOrdered' /\ AnswersFollowed'
      BY <1>1, <1>4 DEF ILTypeOK, FramesOrdered, AnswersFollowed, Out
    <2>2. NotLost' /\ NotPending'
      BY <1>4 DEF NotLost, NotPending, Underway, Held
    <2> QED
      BY <1>1, <1>4, <2>1, <2>2, Taken
  <1>5. CASE il' = [il EXCEPT !.unsettledLocal = @ + 1] /\ UNCHANGED ilw
    <2>1. PICK n \in Nat : n = il.unsettledLocal + 1 /\ n > 0
      BY Fields
    <2>2. il' = [il EXCEPT !.unsettledLocal = n]
      BY <1>5, <2>1
    <2> QED
      BY <1>4, <1>5, <2>1, <2>2 DEF ILTypeOK, LinkRecord
  <1>6. CASE il' = [il EXCEPT !.unsettledRemote = @ + 1] /\ UNCHANGED ilw
    <2>1. PICK n \in Nat : n = il.unsettledRemote + 1 /\ n > 0
      BY Fields
    <2>2. il' = [il EXCEPT !.unsettledRemote = n]
      BY <1>6, <2>1
    <2> QED
      BY <1>4, <1>6, <2>1, <2>2 DEF ILTypeOK, LinkRecord
  <1> QED
    BY <1>2, <1>3, <1>5, <1>6, Zenon DEF qdr_link_forward_CT

\* The sender's answer to a drain reaches the core.
LEMMA FlowOK ==
    ASSUME ILInv, qdr_link_flow_CT_in
    PROVE  ILInv'
  <1> USE DEF ILInv
  <1> DEFINE drain == Head(ilq) = "drain"
             pending == IF drain THEN ilcf.capacity ELSE il.credit_pending
  <1>1. /\ ilq # <<>> /\ ilq' = Tail(ilq) /\ ilq' \in Seq({"deliver", "flow", "drain"})
        /\ Head(ilq) = ilq[1] /\ ilq[1] \in {"flow", "drain"}
        /\ UNCHANGED <<ilcf, ilw, ilpn, ils>>
    BY Fields, TailFacts DEF qdr_link_flow_CT_in
  <1>2. il' = [il EXCEPT !.drain_mode = drain, !.credit_pending = pending]
    BY DEF qdr_link_flow_CT_in
  <1>3. pending \in Nat /\ drain \in BOOLEAN
    BY Fields
  <1>4. il' \in LinkRecord /\ il'.drain_mode = drain /\ il'.credit_pending = pending
        /\ il'.unsettledLocal = il.unsettledLocal /\ il'.unsettledRemote = il.unsettledRemote
    <2> HIDE DEF drain, pending
    <2> QED
      BY <1>2, <1>3, Zenon DEF ILTypeOK, LinkRecord
  <1>5. ILTypeOK' /\ FramesOrdered' /\ AnswersFollowed'
    BY <1>1, <1>4 DEF ILTypeOK, FramesOrdered, AnswersFollowed, Out
  <1>6. NotLost' /\ NotPending'
    <2>1. CASE drain
      <3>1. pending > 0
        BY <2>1, Fields
      <3>2. il'.drain_mode = TRUE /\ il'.credit_pending > 0
        BY <1>4, <2>1, <3>1, Zenon
      <3> QED
        BY <3>2 DEF NotLost, NotPending
    <2>2. CASE ~drain
      <3>1. /\ Len(ilq) \in Nat /\ Len(ilq) >= 1 /\ Len(ilq') = Len(ilq) - 1
            /\ \A k \in 1 .. Len(ilq) - 1 : ilq'[k] = ilq[k + 1]
        BY <1>1, Fields, TailFacts
      <3>2. \/ Out \/ MessageComes \/ AnswerComes
            \/ \E j \in 1 .. Len(ilq) : 1 < j /\ Renews(j)
        <4>1. 1 \in 1 .. Len(ilq) /\ ilq[1] = "flow"
          BY <1>1, <2>2, <3>1
        <4> QED
          BY <4>1 DEF FlowsFollowed
      <3>3. ASSUME NEW j \in 1 .. Len(ilq), 1 < j, Renews(j)
            PROVE  Underway'
        <4>1. j - 1 \in 1 .. Len(ilq') /\ ilq'[j - 1] = ilq[j]
          BY <3>1, <3>3
        <4> QED
          BY <3>3, <4>1 DEF Underway, Renews
      <3>4. Out \/ MessageComes \/ AnswerComes => Underway'
        BY <1>1 DEF Underway, Out, MessageComes, AnswerComes
      <3> QED
        BY <3>2, <3>3, <3>4 DEF NotLost, NotPending
    <2> QED
      BY <2>1, <2>2
  <1> QED
    BY <1>1, <1>5, <1>6, Taken

\* The work list goes out to the sender.
LEMMA FlowWorkOK ==
    ASSUME ILInv, FlowWork
    PROVE  ILInv'
  <1> USE DEF ILInv
  <1>1. PICK n \in Nat : n = ilpn.limit + ilw.value
    BY Fields
  <1>2. PICK d \in BOOLEAN : d = IF ilw.action = "none" THEN ilpn.drain ELSE ilw.action = "set"
    <2>1. ilpn.drain \in BOOLEAN /\ (ilw.action = "set") \in BOOLEAN
      BY Fields
    <2>2. CASE ilw.action = "none"
      BY <2>1, <2>2
    <2>3. CASE ilw.action # "none"
      BY <2>1, <2>3, Zenon
    <2> QED
      BY <2>2, <2>3
  <1> DEFINE p == [limit |-> n, drain |-> d]
             down == Append(ils.down, p)
  <1>3. /\ ilpn' = p /\ ils' = [ils EXCEPT !.down = down] /\ ilw' = NoWork
        /\ UNCHANGED <<ilcf, ilq, il>>
    BY <1>1, <1>2 DEF FlowWork
  <1>4. p \in Receiver /\ p.limit = n /\ p.drain = d
    BY DEF Receiver
  <1>5. /\ down \in Seq(Receiver) /\ Len(ils.down) \in Nat /\ Len(down) = Len(ils.down) + 1
        /\ \A i \in 1 .. Len(ils.down) : down[i] = ils.down[i]
        /\ down[Len(ils.down) + 1] = p /\ down # <<>>
    <2>1. ils.down \in Seq(Receiver)
      BY Fields
    <2> HIDE DEF p
    <2> QED
      BY <1>4, <2>1, AppendFacts
  <1> HIDE DEF p, down
  <1>6. /\ ilpn'.limit = n /\ ilpn'.drain = d
        /\ ilw'.value = 0 /\ ilw'.action = "none" /\ ilw' \in WorkRecord
    BY <1>3, <1>4 DEF NoWork, WorkRecord
  <1>7. /\ ils' \in Sender /\ ils'.down = down /\ ils'.up = ils.up
        /\ ils'.limit = ils.limit /\ ils'.used = ils.used /\ ils'.drain = ils.drain
    BY <1>3, <1>5, Zenon DEF ILTypeOK, Sender
  <1>8. ILTypeOK'
    BY <1>3, <1>4, <1>6, <1>7 DEF ILTypeOK
  <1>9. ilpn.limit <= n /\ ils.used <= ilpn.limit
    BY <1>1, Fields, SMTT(30) DEF FramesOrdered, Frames
  <1>10. ASSUME ~d PROVE ilpn.drain = FALSE \/ ilpn.limit < n
    <2>1. CASE ilw.action = "none"
      BY <1>2, <1>10, <2>1, Fields
    <2>2. CASE ilw.action = "clear"
      BY <1>1, <2>2, Fields DEF FramesOrdered
    <2> QED
      BY <1>2, <1>10, <2>1, <2>2, Fields, Zenon
  <1>11. FramesOrdered'
    <2>1. Frames(ils.used, ils.limit, ils.drain, ils.down, ilpn.limit, ilpn.drain)
      BY DEF FramesOrdered
    <2>2. d \/ ~ilpn.drain \/ ilpn.limit < n
      BY <1>10, Zenon
    <2>5. /\ ils.used \in Nat /\ ils.limit \in Nat /\ ils.drain \in BOOLEAN
          /\ ils.down \in Seq(Receiver) /\ ilpn.limit \in Nat /\ ilpn.drain \in BOOLEAN
      BY Fields
    <2>6. p \in Receiver /\ p.limit = n /\ p.drain = d /\ ilpn.limit <= n
      BY <1>4, <1>9
    <2>3. Frames(ils.used, ils.limit, ils.drain, Append(ils.down, p), n, d)
      BY <2>1, <2>2, <2>5, <2>6, FrameAdded, SMTT(30)
    <2>4. Frames(ils'.used, ils'.limit, ils'.drain, ils'.down, ilpn'.limit, ilpn'.drain)
      BY <1>6, <1>7, <2>3 DEF down
    <2> QED
      BY <1>6, <2>4 DEF FramesOrdered
  <1>12. Out' <=> Out
    BY <1>1, <1>6, <1>7, Fields, SMTT(30) DEF Out
  <1>13. MessageComes' <=> MessageComes
    BY <1>7 DEF MessageComes
  <1>14. AnswerComes => AnswerComes' \/ Out'
    <2>1. CASE d = TRUE
      BY <1>6, <1>7, <2>1 DEF AnswerComes
    <2>2. CASE d = FALSE
      <3>1. CASE ilpn.drain = FALSE
        BY <3>1 DEF AnswerComes
      <3>2. CASE ilpn.limit < n
        BY <1>1, <1>9, <1>12, <3>2, Fields DEF Out
      <3> QED
        BY <1>10, <2>2, <3>1, <3>2, Zenon
    <2> QED
      BY <2>1, <2>2, Zenon
  <1>15. NotLost' /\ NotPending' /\ FlowsFollowed'
    BY <1>3, <1>12, <1>13, <1>14 DEF NotLost, NotPending, FlowsFollowed, Underway, Held, Renews
  <1>16. AnswersFollowed'
    <2>1. CASE d = FALSE
      <3>1. CASE ilpn.drain = FALSE
        BY <1>7, <1>12, <3>1 DEF AnswersFollowed
      <3>2. CASE ilpn.limit < n
        BY <1>1, <1>9, <1>12, <3>2, Fields DEF AnswersFollowed, Out
      <3> QED
        BY <1>10, <2>1, <3>1, <3>2, Zenon
    <2> QED
      BY <1>6, <2>1, Zenon DEF AnswersFollowed
  <1> QED
    BY <1>8, <1>11, <1>15, <1>16

\* A message or an answer arrives at the router.
LEMMA ArrivesOK ==
    ASSUME ILInv, Arrives
    PROVE  ILInv'
  <1> USE DEF ILInv
  <1> DEFINE e == IF Head(ils.up) = "message" THEN "deliver"
                  ELSE IF ilpn.drain THEN "drain" ELSE "flow"
  <1>1. /\ ils.up # <<>> /\ ilq' = Append(ilq, e) /\ ils' = [ils EXCEPT !.up = Tail(ils.up)]
        /\ UNCHANGED <<ilcf, il, ilw, ilpn>>
    BY DEF Arrives
  <1>2. e \in {"deliver", "flow", "drain"}
    BY Zenon
  <1>3. /\ Tail(ils.up) \in Seq({"message", "drained"})
        /\ Len(ils.up) \in Nat /\ Len(ils.up) >= 1 /\ Len(Tail(ils.up)) = Len(ils.up) - 1
        /\ \A i \in 1 .. Len(ils.up) - 1 : Tail(ils.up)[i] = ils.up[i + 1]
        /\ Head(ils.up) = ils.up[1] /\ ils.up[1] \in {"message", "drained"}
    <2>1. ils.up \in Seq({"message", "drained"}) /\ ils.up # <<>>
      BY <1>1, Fields
    <2> QED
      BY <2>1, TailFacts
  <1>4. /\ ilq' \in Seq({"deliver", "flow", "drain"}) /\ Len(ilq) \in Nat
        /\ Len(ilq') = Len(ilq) + 1 /\ ilq'[Len(ilq) + 1] = e
        /\ \A i \in 1 .. Len(ilq) : ilq'[i] = ilq[i]
    <2> HIDE DEF e
    <2> QED
      BY <1>1, <1>2, Fields, AppendFacts, SMTT(30)
  <1>5. /\ ils' \in Sender /\ ils'.up = Tail(ils.up) /\ ils'.down = ils.down
        /\ ils'.limit = ils.limit /\ ils'.used = ils.used /\ ils'.drain = ils.drain
    <2> DEFINE up == Tail(ils.up)
    <2>1. up \in Seq({"message", "drained"}) /\ ils' = [ils EXCEPT !.up = up]
      BY <1>1, <1>3
    <2> HIDE DEF up
    <2>2. /\ ils' \in Sender /\ ils'.up = up /\ ils'.down = ils.down
          /\ ils'.limit = ils.limit /\ ils'.used = ils.used /\ ils'.drain = ils.drain
      BY <2>1, Zenon DEF ILTypeOK, Sender
    <2> QED
      BY <2>2 DEF up
  <1>6. ILTypeOK' /\ FramesOrdered'
    BY <1>1, <1>4, <1>5 DEF ILTypeOK, FramesOrdered
  <1>7. Out' <=> Out
    BY <1>1, <1>5 DEF Out
  <1>8. AnswersFollowed'
    <2> SUFFICES ASSUME ilpn.drain = FALSE, NEW i \in 1 .. Len(ils'.up), ils'.up[i] = "drained", ~Out
                 PROVE  \E j \in 1 .. Len(ils'.up) : i < j /\ ils'.up[j] = "message"
      BY <1>1, <1>7, Fields, Zenon DEF AnswersFollowed
    <2>1. i + 1 \in 1 .. Len(ils.up) /\ ils.up[i + 1] = "drained"
      BY <1>3, <1>5
    <2>2. PICK j \in 1 .. Len(ils.up) : i + 1 < j /\ ils.up[j] = "message"
      BY <2>1 DEF AnswersFollowed
    <2>3. j - 1 \in 1 .. Len(ils'.up) /\ i < j - 1 /\ ils'.up[j - 1] = "message"
      BY <1>3, <1>5, <2>2
    <2> QED
      BY <2>3
  <1>9. CASE e # "flow"
    <2>1. PICK k \in 1 .. Len(ilq') : k = Len(ilq) + 1 /\ ilq'[k] # "flow"
      BY <1>4, <1>9
    <2>2. FlowsFollowed'
      <3> SUFFICES ASSUME NEW i \in 1 .. Len(ilq'), ilq'[i] = "flow"
                   PROVE  \E j \in 1 .. Len(ilq') : i < j /\ Renews(j)'
        BY DEF FlowsFollowed
      <3>1. i < k
        BY <1>4, <2>1
      <3> QED
        BY <2>1, <3>1 DEF Renews
    <2> QED
      BY <1>6, <1>8, <2>1, <2>2 DEF NotLost, NotPending, Underway, Renews
  <1>10. CASE e = "flow"
    <2>1. ils.up[1] = "drained" /\ ilpn.drain = FALSE /\ 1 \in 1 .. Len(ils.up)
      BY <1>3, <1>10, Fields, SMTT(30)
    <2>2. Out \/ \E j \in 1 .. Len(ils.up) : 1 < j /\ ils.up[j] = "message"
      BY <2>1 DEF AnswersFollowed
    <2>3. ASSUME NEW j \in 1 .. Len(ils.up), 1 < j, ils.up[j] = "message"
          PROVE  MessageComes'
      <3>1. j - 1 \in 1 .. Len(ils'.up) /\ ils'.up[j - 1] = "message"
        BY <1>3, <1>5, <2>3
      <3> QED
        BY <3>1 DEF MessageComes
    <2>4. Out' \/ MessageComes'
      BY <1>7, <2>2, <2>3
    <2> QED
      BY <1>6, <1>8, <2>4 DEF NotLost, NotPending, Underway, FlowsFollowed
  <1> QED
    BY <1>9, <1>10

\* A flow frame reaches the sender.
LEMMA SenderFlowOK ==
    ASSUME ILInv, SenderFlow
    PROVE  ILInv'
  <1> USE DEF ILInv
  <1> DEFINE down == Tail(ils.down)
  <1>1. ils.down \in Seq(Receiver) /\ ils.down # <<>> /\ UNCHANGED <<ilcf, ilq, il, ilw, ilpn>>
    BY Fields DEF SenderFlow
  <1>2. /\ down \in Seq(Receiver) /\ Len(ils.down) \in Nat /\ Len(ils.down) >= 1
        /\ Len(down) = Len(ils.down) - 1
        /\ \A i \in 1 .. Len(ils.down) - 1 : down[i] = ils.down[i + 1]
        /\ Head(ils.down) = ils.down[1] /\ ils.down[1] \in Receiver
    BY <1>1, TailFacts
  <1>3. PICK h \in Receiver : h = ils.down[1] /\ h.limit \in Nat /\ h.drain \in BOOLEAN
    BY <1>2 DEF Receiver
  <1>4. ils' = [ils EXCEPT !.limit = h.limit, !.drain = h.drain, !.down = down]
    BY <1>2, <1>3 DEF SenderFlow
  <1> HIDE DEF down
  <1>5. /\ ils' \in Sender /\ ils'.down = down /\ ils'.up = ils.up
        /\ ils'.limit = h.limit /\ ils'.used = ils.used /\ ils'.drain = h.drain
    BY <1>2, <1>3, <1>4, Zenon DEF ILTypeOK, Sender
  <1>6. ILTypeOK'
    BY <1>1, <1>5 DEF ILTypeOK
  <1>8. FramesOrdered'
    <2>1. Frames(ils.used, ils.limit, ils.drain, ils.down, ilpn.limit, ilpn.drain)
      BY DEF FramesOrdered
    <2>2. Frames(ils.used, Head(ils.down).limit, Head(ils.down).drain, Tail(ils.down),
                 ilpn.limit, ilpn.drain)
      BY <1>1, <2>1, Fields, FrameTaken
    <2>3. Frames(ils'.used, ils'.limit, ils'.drain, ils'.down, ilpn'.limit, ilpn'.drain)
      BY <1>1, <1>2, <1>3, <1>5, <2>2 DEF down
    <2> QED
      BY <1>1, <2>3 DEF FramesOrdered
  <1>9. (Out' <=> Out) /\ (MessageComes' <=> MessageComes) /\ (AnswerComes' <=> AnswerComes)
    BY <1>1, <1>5 DEF Out, MessageComes, AnswerComes
  <1>10. NotLost' /\ NotPending'
    BY <1>1, <1>5, <1>9 DEF NotLost, NotPending, Underway, Held, Renews
  <1>11. FlowsFollowed' /\ AnswersFollowed'
    BY <1>1, <1>5, <1>9 DEF FlowsFollowed, AnswersFollowed, Renews
  <1> QED
    BY <1>6, <1>8, <1>10, <1>11

\* The sender sends a message, or answers a drain: it appends to what it has sent.
LEMMA SenderStep ==
    ASSUME ILInv, NEW n \in Nat, NEW u \in Nat, NEW e \in {"message", "drained"},
           ils' = [ils EXCEPT !.used = u, !.sent = n, !.up = Append(ils.up, e)],
           u <= ils.limit, UNCHANGED <<ilcf, ilq, il, ilw, ilpn>>
    PROVE  /\ ILTypeOK' /\ FramesOrdered' /\ ils'.used = u /\ Len(ils.up) \in Nat
           /\ Len(ils'.up) = Len(ils.up) + 1 /\ ils'.up[Len(ils.up) + 1] = e
           /\ \A i \in 1 .. Len(ils.up) : ils'.up[i] = ils.up[i]
  <1> USE DEF ILInv
  <1> DEFINE up == Append(ils.up, e)
  <1>1. /\ up \in Seq({"message", "drained"}) /\ Len(ils.up) \in Nat /\ Len(up) = Len(ils.up) + 1
        /\ \A i \in 1 .. Len(ils.up) : up[i] = ils.up[i]
        /\ up[Len(ils.up) + 1] = e
    <2>1. ils.up \in Seq({"message", "drained"})
      BY Fields
    <2> QED
      BY <2>1, AppendFacts
  <1>2. ils' = [ils EXCEPT !.used = u, !.sent = n, !.up = up]
    OBVIOUS
  <1> HIDE DEF up
  <1>3. /\ ils' \in Sender /\ ils'.up = up /\ ils'.down = ils.down
        /\ ils'.limit = ils.limit /\ ils'.used = u /\ ils'.drain = ils.drain
    BY <1>1, <1>2, Zenon DEF ILTypeOK, Sender
  <1>4. ILTypeOK' /\ FramesOrdered'
    BY <1>3, Fields DEF ILTypeOK, FramesOrdered, Frames
  <1> QED
    BY <1>1, <1>3, <1>4

\* The sender uses a credit: its message is on the way to the core.
LEMMA SenderSendsOK ==
    ASSUME ILInv, SenderSends
    PROVE  ILInv'
  <1> USE DEF ILInv
  <1>1. PICK n \in Nat : n = ils.sent + 1
    BY DEF ILTypeOK, Sender
  <1>2. PICK u \in Nat : u = ils.used + 1
    BY Fields
  <1>3. /\ ils' = [ils EXCEPT !.used = u, !.sent = n, !.up = Append(ils.up, "message")]
        /\ UNCHANGED <<ilcf, ilq, il, ilw, ilpn>>
    BY <1>1, <1>2 DEF SenderSends
  <1>4. u <= ils.limit
    BY <1>2, Fields, SMTT(30) DEF SenderSends, SenderCredit
  <1>5. /\ ILTypeOK' /\ FramesOrdered' /\ Len(ils.up) \in Nat
        /\ Len(ils'.up) = Len(ils.up) + 1 /\ ils'.up[Len(ils.up) + 1] = "message"
        /\ \A i \in 1 .. Len(ils.up) : ils'.up[i] = ils.up[i]
    BY <1>3, <1>4, SenderStep, Zenon
  <1>6. PICK k \in 1 .. Len(ils'.up) : k = Len(ils.up) + 1 /\ ils'.up[k] = "message"
    BY <1>5
  <1>7. MessageComes'
    BY <1>6 DEF MessageComes
  <1>8. AnswersFollowed'
    <2> SUFFICES ASSUME NEW i \in 1 .. Len(ils'.up), ils'.up[i] = "drained"
                 PROVE  i < k
      BY <1>6 DEF AnswersFollowed
    <2> QED
      BY <1>5, <1>6
  <1> QED
    BY <1>5, <1>7, <1>8 DEF NotLost, NotPending, Underway, FlowsFollowed

\* The sender gives up its credit: its answer is on the way to the core, or a later frame is to it.
LEMMA SenderDrainedOK ==
    ASSUME ILInv, SenderDrained
    PROVE  ILInv'
  <1> USE DEF ILInv
  <1>1. ils.sent \in Nat /\ ils.limit \in Nat /\ ils.limit <= ils.limit
    BY DEF ILTypeOK, Sender
  <1>2. /\ ils' = [ils EXCEPT !.used = ils.limit, !.sent = ils.sent, !.up = Append(ils.up, "drained")]
        /\ ils.drain /\ UNCHANGED <<ilcf, ilq, il, ilw, ilpn>>
    BY Zenon DEF SenderDrained, ILTypeOK, Sender
  <1>3. /\ ILTypeOK' /\ FramesOrdered' /\ ils'.used = ils.limit /\ Len(ils.up) \in Nat
        /\ Len(ils'.up) = Len(ils.up) + 1 /\ ils'.up[Len(ils.up) + 1] = "drained"
    BY <1>1, <1>2, SenderStep, Zenon
  <1>4. CASE ilpn.drain = TRUE
    <2>1. PICK k \in 1 .. Len(ils'.up) : ils'.up[k] = "drained"
      BY <1>3
    <2>2. AnswerComes'
      BY <1>2, <1>4, <2>1 DEF AnswerComes
    <2> QED
      BY <1>2, <1>3, <1>4, <2>2 DEF NotLost, NotPending, Underway, FlowsFollowed, AnswersFollowed
  <1>5. CASE ilpn.drain = FALSE
    <2>1. Out'
      BY <1>2, <1>3, <1>5, Fields, SMTT(30) DEF Out, FramesOrdered, Frames
    <2> QED
      BY <1>3, <2>1 DEF NotLost, NotPending, Underway, FlowsFollowed, AnswersFollowed
  <1> QED
    BY <1>4, <1>5, Fields, Zenon

-----------------------------------------------------------------------------

\* The link is attached with all of its credit pending.
LEMMA InitOK == ILInit => ILInv
  <1> SUFFICES ASSUME ILInit PROVE ILInv
    OBVIOUS
  <1>1. ilcf \in ILConfig /\ ilcf.capacity \in Nat /\ ilcf.capacity > 0
    BY ILAssumption, SMTT(30) DEF ILInit, ILConfig
  <1>2. ILTypeOK
    BY <1>1, SMTT(30) DEF ILInit, ILTypeOK, LinkRecord, WorkRecord, NoWork, Receiver, Sender
  <1>3. FramesOrdered /\ FlowsFollowed /\ AnswersFollowed
    BY SMTT(30) DEF ILInit, NoWork, FramesOrdered, Frames, FlowsFollowed, AnswersFollowed
  <1>4. NotLost /\ NotPending
    BY <1>1 DEF ILInit, NotLost, NotPending, qdr_addr_path_count_CT
  <1> QED
    BY <1>2, <1>3, <1>4 DEF ILInv

\* Every step of the core, of the I/O thread and of the sender keeps track of the credit.
LEMMA NextOK == ILInv /\ [ILNext]_ilvars => ILInv'
  <1> SUFFICES ASSUME ILInv, [ILNext]_ilvars PROVE ILInv'
    BY SMTT(30)
  <1>1. CASE UNCHANGED ilvars
    BY <1>1, Zenon DEF ilvars, ILInv, ILTypeOK, FramesOrdered, NotLost, NotPending, Underway, Out,
                MessageComes, AnswerComes, Held, Renews, FlowsFollowed, AnswersFollowed
  <1> QED
    BY <1>1, AppearsOK, LeavesOK, SettledOK, ForwardOK, FlowOK, FlowWorkOK, ArrivesOK,
       SenderFlowOK, SenderSendsOK, SenderDrainedOK DEF ILNext

\* Once nothing is under way, credit that is out is the sender's.
LEMMA QuietCredit == ILInv => CreditKept
  <1> SUFFICES ASSUME ILInv, Quiet
               PROVE  /\ SenderCredit > 0 \/ il.credit_pending > 0
                      /\ qdr_addr_path_count_CT(il) > 0 /\ ~il.drain_mode => SenderCredit > 0
    BY DEF CreditKept
  <1>1. ~MessageComes /\ ~AnswerComes /\ ~Held /\ ~\E i \in 1 .. Len(ilq) : Renews(i)
    BY DEF Quiet, MessageComes, AnswerComes, Held
  <1>2. Out => SenderCredit > 0
    BY Fields DEF ILInv, Quiet, NoWork, FramesOrdered, Frames, Out, SenderCredit
  <1> QED
    BY <1>1, <1>2 DEF ILInv, NotLost, NotPending, Underway

\* Whatever drains, answers to drains, settlements and changes of the address's paths cross,
\* the credit of a sender is not lost (qdr_link_issue_credit_CT, qdr_link_flow_CT,
\* qdr_addr_start_inlinks_CT): for every capacity and every number of messages.
THEOREM CreditIsKept == ILSpec => []CreditKept
  <1>1. ILInv /\ [ILNext]_ilvars => ILInv'
    BY NextOK
  <1> QED
    BY <1>1, InitOK, QuietCredit, PTL DEF ILSpec
=============================================================================
