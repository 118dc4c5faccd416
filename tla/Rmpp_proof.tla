----------------------------- MODULE Rmpp_proof -----------------------------
(***************************************************************************)
(* Segmented MADs: the invariants of module Rmpp and its refinement of     *)
(* RmppContract, for any number of segments, window, number of retries and *)
(* capacity of the network.                                                *)
(*                                                                         *)
(* The inductive invariant has three parts: what the sender's fields say   *)
(* of each other, what the receiver's fields say of each other, and what   *)
(* the packets on their way say of both ends.                              *)
(***************************************************************************)
EXTENDS Rmpp, WellFoundedInduction, TLAPS

Statuses == {"SUCCESS", "ERROR", "GENERAL_ERR", "REM_ABORT_ERR", "WR_FLUSH_ERR"}

SenderType ==
    /\ list \in {"none", "send", "wait", "done", "gone"}
    /\ refcount \in 0..2 /\ seg_num \in 0..N /\ last_ack \in 0..N /\ newwin \in Nat
    /\ retries_left \in 0..MaxRetries
    /\ timeout_ms \in {"none", "short", "long"}
    /\ timeout \in {"zero", "span", "instant"} /\ delay \in {"zero", "span", "instant"}
    /\ status \in Statuses /\ posted \in BOOLEAN /\ answered \in BOOLEAN
    /\ cq \in {"idle", "SUCCESS", "REM_ABORT_ERR", "RESPONSE"}
    /\ result \in Statuses \cup {"none", "RESP_TIMEOUT_ERR"}

\* The send is over for the sender: with timeout zero only the QP or the CQ thread has it.
Marked == list \in {"send", "done"} /\ timeout = "zero" /\ status = "SUCCESS"

SenderInv ==
    /\ SendRefs
    /\ list = "none" => /\ refcount = 0 /\ seg_num = 0 /\ ~posted /\ cq = "idle"
                        /\ last_ack = 0 /\ newwin = 1 /\ status = "SUCCESS"
    /\ list # "none" => seg_num >= 1
    /\ result = "none" <=> list # "gone"
    /\ cq # "idle" => timeout = "zero"
    /\ list = "wait" => timeout # "zero"
    /\ list \in {"send", "done"} /\ status # "SUCCESS" => timeout = "zero"
    /\ list # "gone" /\ status = "SUCCESS" /\ timeout_ms = "none" /\ last_ack = N
          => timeout = "zero"
    /\ seg_num <= newwin
    /\ last_ack < newwin \/ last_ack = N
    /\ newwin = 1 \/ last_ack >= 1
    /\ Marked /\ cq \notin {"REM_ABORT_ERR", "RESPONSE"} /\ timeout_ms # "none" => answered
    /\ ResponseFirst

ReceiverInv ==
    /\ rstate \in {"none", "ACTIVE", "COMPLETE", "TIMEOUT"}
    /\ rseg \in 0..N /\ rcq \in 0..N /\ rwin \in Nat /\ segs \subseteq 1..N
    /\ wc \in {"none", "recv", "client", "freed"} /\ delivered \in Seq(SUBSET (1..N))
    /\ rstate = "none" => rseg = 0 /\ segs = {}
    /\ rstate # "none" => /\ 1 \in segs /\ rseg \in segs
                          /\ rseg < rwin \/ rseg = N
                          /\ \A s \in segs : s <= rwin
    /\ rcq # 0 => rstate # "none" /\ rcq <= rwin
    /\ rtimer = "destroy" => rstate \in {"TIMEOUT", "COMPLETE"}
    /\ rstate = "COMPLETE" \/ rseg = N \/ wc = "client" => delivered # << >>

\* A packet that is one of the protocol's, for a window that reaches to w.
PacketOK(p, w) ==
    /\ p.type \in {"DATA", "ACK", "ABORT", "RESP"}
    /\ p.type = "DATA" => p.seg \in 1..N /\ p.seg <= w
    /\ p.type = "ACK" => /\ p.seg \in 1..N /\ p.win \in Nat
                         /\ p.seg <= w /\ p.seg <= p.win
                         /\ p.seg < p.win \/ p.seg = N
                         /\ p.seg = N => delivered # << >>
    /\ p.type = "RESP" => delivered # << >>

\* With the last segment acknowledged, a response, or success, the message was delivered.
Reached ==
    last_ack = N \/ (Marked /\ cq # "REM_ABORT_ERR") \/ result = "SUCCESS" => delivered # << >>

LinkInv ==
    /\ \A p \in network : PacketOK(p, newwin)
    /\ \A s \in segs : s <= newwin
    /\ rcq <= newwin
    /\ list = "none" => network = {} /\ rstate = "none" /\ rcq = 0 /\ delivered = << >>
    /\ delivered # << >> => newwin >= N
    /\ Reached

RmppInv == SenderType /\ SenderInv /\ ReceiverInv /\ LinkInv

\* A message of more than one segment is delivered once, unless it was completed in a
\* receive that recv_timeout_handler destroys: its first segment is not sent again after
\* the last one was, and finds the receive complete if it was sent before.
Once ==
    /\ delivered \in {<< >>, <<1..N>>}
    /\ rstate \in {"ACTIVE", "TIMEOUT"} => delivered = << >>
    /\ rstate = "COMPLETE" => rtimer # "destroy"
    /\ delivered # << >> /\ rstate # "COMPLETE" => Data(1) \notin network

OnceInv == overlap \/ Once

-----------------------------------------------------------------------------
(* update_seg_num.                                                         *)

\* A set of numbers has a least one, so segs has a first gap.
LEMMA LeastNumber ==
    ASSUME NEW T, T \subseteq Nat, T # {}
    PROVE  \E x \in T : \A y \in T : x <= y
<1> DEFINE R == {ss \in Nat \X Nat : ss[1] < ss[2]}
<1>1. IsWellFoundedOn(R, Nat)
  BY NatLessThanWellFounded DEF OpToRel
<1> HIDE DEF R
<1>2. \E x \in T : \A y \in T : ~(<<y, x>> \in R)
  BY <1>1, WFMin
<1>3. PICK x \in T : \A y \in T : ~(<<y, x>> \in R)
  BY <1>2
<1>4. \A y \in T : ~(y < x)
  BY <1>3 DEF R
<1> QED
  BY <1>4

\* What update_seg_num finds, the segment before the first gap, has been received, and so
\* have all before it.
LEMMA LastInOrderType ==
    ASSUME NEW ss, ss \subseteq 1..N, 1 \in ss
    PROVE  /\ LastInOrder(ss) \in ss
           /\ \A t \in 1..LastInOrder(ss) : t \in ss
<1> DEFINE T == {n \in Nat : n >= 1 /\ n \notin ss}
<1>0. N \in Nat
  BY RmppAssumption
<1>1. T \subseteq Nat /\ N + 1 \in T
  BY <1>0
<1>2. PICK m \in T : \A y \in T : m <= y
  <2> HIDE DEF T
  <2> QED BY <1>1, LeastNumber
<1>3. /\ m - 1 \in ss /\ (m - 1) + 1 \notin ss
      /\ \A t \in 1..(m - 1) : t \in ss
  BY <1>2, <1>0
<1>4. \E s \in ss : s + 1 \notin ss /\ \A t \in 1..s : t \in ss
  BY <1>3
<1> QED
  BY <1>4 DEF LastInOrder

-----------------------------------------------------------------------------
(* Frames.                                                                 *)

\* A post adds at most its packet to the network.
LEMMA SentPackets ==
    ASSUME NEW net, NEW p, NEW q \in Sent(net, p)
    PROVE  q \in net \/ q = p
BY DEF Sent

\* A step that leaves the receiver's fields alone keeps what they say of each other.
LEMMA ReceiverFrame ==
    ASSUME ReceiverInv, UNCHANGED recvVars
    PROVE  ReceiverInv'
BY DEF ReceiverInv, recvVars

\* A step that leaves the sender's fields alone keeps what they say of each other.
LEMMA SenderFrame ==
    ASSUME SenderType, SenderInv, UNCHANGED sendVars
    PROVE  SenderType' /\ SenderInv'
BY DEF SenderType, SenderInv, SendRefs, Marked, ResponseFirst, sendVars, wrVars

\* A step of the sender opens its window or leaves it, takes packets from the network and
\* adds at most the segment it posts.
LEMMA SenderLink ==
    ASSUME RmppInv, SenderType', SenderInv', UNCHANGED recvVars,
           newwin' >= newwin, list' # "none", Reached',
           \A p \in network' : p \in network \/ p = Data(seg_num')
    PROVE  ReceiverInv' /\ LinkInv'
<1>1. ReceiverInv'
  BY ReceiverFrame DEF RmppInv
<1>2. N \in Nat \ {0} /\ newwin \in Nat /\ newwin' \in Nat /\ seg_num' \in 1..N /\ seg_num' <= newwin'
  BY RmppAssumption DEF RmppInv, SenderType, SenderInv
<1>3. /\ segs' = segs /\ rcq' = rcq /\ delivered' = delivered /\ rstate' = rstate
      /\ segs \subseteq 1..N /\ rcq \in 0..N
  BY DEF recvVars, RmppInv, ReceiverInv
<1>4. ASSUME NEW p \in network'
      PROVE  PacketOK(p, newwin)' 
  <2>1. CASE p \in network
    BY <2>1, <1>2, <1>3 DEF RmppInv, LinkInv, PacketOK
  <2>2. CASE p = Data(seg_num')
    BY <2>2, <1>2, <1>3 DEF PacketOK, Data
  <2> QED BY <2>1, <2>2
<1>5. /\ \A s \in segs' : s <= newwin'
      /\ rcq' <= newwin'
      /\ delivered' # << >> => newwin' >= N
  BY <1>2, <1>3 DEF RmppInv, LinkInv
<1> QED
  BY <1>1, <1>3, <1>4, <1>5 DEF LinkInv

-----------------------------------------------------------------------------
(* The sender's steps.                                                     *)

\* The first segment is posted, with a reference for the post and one for its answer.
LEMMA Step_ib_send_rmpp_mad ==
    ASSUME RmppInv, ib_send_rmpp_mad
    PROVE  RmppInv'
<1> USE RmppAssumption DEF RmppInv, ib_send_rmpp_mad, send_next_seg, StayOn, AckTimeout, Span
<1>1. SenderType'
  BY DEF SenderType, Statuses
<1>2. SenderInv'
  BY DEF SenderType, SenderInv, SendRefs, One, Marked, ResponseFirst
<1>3. ReceiverInv' /\ LinkInv'
  <2>1. \A p \in network' : p \in network \/ p = Data(seg_num')
    BY SentPackets
  <2>2. Reached' /\ newwin' >= newwin /\ list' # "none" /\ UNCHANGED recvVars
    BY DEF Marked, SenderInv, SenderType, Reached
  <2> HIDE DEF ib_send_rmpp_mad, send_next_seg, StayOn, AckTimeout, Span
  <2> QED BY <1>1, <1>2, <2>1, <2>2, SenderLink
<1> QED BY <1>1, <1>2, <1>3

\* The client is given the response before its request completes.
LEMMA Step_recv_handler ==
    ASSUME RmppInv, recv_handler
    PROVE  RmppInv'
<1> USE DEF RmppInv , recv_handler, wrVars
<1>1. SenderType'
  BY DEF SenderType
<1>2. SenderInv'
  BY DEF SenderType, SenderInv, SendRefs, One, Marked, ResponseFirst
<1>3. /\ Reached' /\ newwin' >= newwin /\ list' # "none" /\ network' = network
      /\ UNCHANGED recvVars
  BY DEF SenderInv, SendRefs, LinkInv, Reached, Marked, SenderType, recvVars
<1>4. ReceiverInv' /\ LinkInv'
  <2> HIDE DEF recv_handler, wrVars
  <2> QED BY <1>1, <1>2, <1>3, SenderLink
<1> QED BY <1>1, <1>2, <1>4

\* A cancelled send is left to its post or, if it waits, to the timer.
LEMMA Step_ib_cancel_mad ==
    ASSUME RmppInv, ib_cancel_mad
    PROVE  RmppInv'
<1> USE DEF RmppInv , ib_cancel_mad, wait_for_response
<1>1. SenderType'
  BY DEF SenderType, SenderInv, SendRefs, One, Statuses
<1>2. SenderInv'
  BY <1>1 DEF SenderType, SenderInv, SendRefs, One, Marked, ResponseFirst
<1>3. /\ Reached' /\ newwin' >= newwin /\ list' # "none" /\ network' = network
      /\ UNCHANGED recvVars
  BY DEF SenderInv, SendRefs, LinkInv, Reached, Marked, SenderType, recvVars
<1>4. ReceiverInv' /\ LinkInv'
  <2> HIDE DEF ib_cancel_mad, wait_for_response
  <2> QED BY <1>1, <1>2, <1>3, SenderLink
<1> QED BY <1>1, <1>2, <1>4

\* The timer sends the segment after last_ack again, or ends the send.
LEMMA Step_timeout_sends ==
    ASSUME RmppInv, timeout_sends
    PROVE  RmppInv'
<1> USE DEF RmppInv
<1>1. /\ list = "wait" /\ ~posted /\ cq = "idle" /\ timeout # "zero"
      /\ refcount = (IF status = "SUCCESS" THEN 1 ELSE 0) /\ result = "none" /\ seg_num >= 1
      /\ UNCHANGED <<timeout_ms, last_ack, newwin, status, cq, answered, recvVars>>
  BY DEF timeout_sends, SenderInv, SendRefs, One
<1>2. CASE /\ status = "SUCCESS" /\ retries_left > 0 /\ last_ack # N
           /\ retries_left' = retries_left - 1 /\ seg_num' = last_ack + 1
           /\ timeout' = "span" /\ posted' = TRUE /\ refcount' = refcount + 1
           /\ list' = "send" /\ delay' = "zero" /\ UNCHANGED result
           /\ network' = Sent(network, Data(last_ack + 1))
  <2>1. SenderType' /\ SenderInv'
    BY <1>1, <1>2, RmppAssumption DEF SenderType, SenderInv, SendRefs, One, Marked, ResponseFirst
  <2>2. \A p \in network' : p \in network \/ p = Data(seg_num')
    BY <1>2, SentPackets
  <2>3. Reached' /\ newwin' >= newwin
    BY <1>1, <1>2 DEF LinkInv, Reached, Marked, SenderType, recvVars
  <2> QED BY <1>1, <1>2, <2>1, <2>2, <2>3, SenderLink
<1>3. CASE /\ list' = "gone" /\ delay' = "zero"
           /\ result' = IF status = "SUCCESS" THEN "RESP_TIMEOUT_ERR" ELSE status
           /\ UNCHANGED <<refcount, timeout, seg_num, retries_left, posted, network>>
  <2>1. SenderType' /\ SenderInv'
    BY <1>1, <1>3 DEF SenderType, SenderInv, SendRefs, Marked, ResponseFirst, Statuses
  <2>2. Reached' /\ newwin' >= newwin
    BY <1>1, <1>3 DEF LinkInv, Reached, Marked, SenderType, recvVars
  <2> QED BY <1>1, <1>3, <2>1, <2>2, SenderLink
<1>4. timeout_ms \in {"none", "short", "long"} /\ (timeout_ms = "none" \/ Span(timeout_ms) = "span")
  BY DEF SenderType, Span
<1> QED
  BY <1>2, <1>3, <1>4 DEF timeout_sends, MayRetry, RetryRefs, send_next_seg, StayOn, AckTimeout

\* An ABORT or a response marks the send as done.
LEMMA Step_MarkDone ==
    ASSUME RmppInv, NEW p \in network,
           abort_send(p) \/ ib_mad_complete_recv(p)
    PROVE  RmppInv'
<1> USE DEF RmppInv, abort_send, ib_mad_complete_recv, MarkDone, StayOn, Receive, NotDone, Found
<1>1. SenderType'
  BY DEF SenderType, SenderInv
<1>2. SenderInv'
  BY <1>1 DEF SenderType, SenderInv, SendRefs, One, Marked, ResponseFirst
<1>3. p.type = "RESP" => delivered # << >>
  BY DEF LinkInv, PacketOK
<1>4. /\ Reached' /\ newwin' >= newwin /\ list' # "none" /\ network' \subseteq network
      /\ UNCHANGED recvVars
  BY <1>3 DEF SenderInv, LinkInv, Reached, Marked, SenderType, recvVars
<1>5. ReceiverInv' /\ LinkInv'
  <2> HIDE DEF abort_send, ib_mad_complete_recv, MarkDone, StayOn, Receive, NotDone, Found
  <2> QED BY <1>1, <1>2, <1>4, SenderLink
<1> QED BY <1>1, <1>2, <1>5

\* A packet that no end wants, or that is lost, only leaves the network.
LEMMA Step_drop ==
    ASSUME RmppInv, NEW p \in network, drop(p) \/ lose(p)
    PROVE  RmppInv'
<1> USE DEF RmppInv
<1>1. SenderType' /\ SenderInv'
  BY SenderFrame DEF drop, lose
<1>2. /\ UNCHANGED <<sendVars, recvVars>> /\ network' \subseteq network
      /\ list # "none"
  BY DEF drop, lose, LinkInv
<1>3. Reached' /\ newwin' >= newwin /\ list' # "none" /\ UNCHANGED recvVars
  BY <1>2 DEF LinkInv, Reached, Marked, SenderType, sendVars, wrVars, recvVars
<1>4. ReceiverInv' /\ LinkInv'
  BY <1>1, <1>2, <1>3, SenderLink
<1> QED BY <1>1, <1>4

\* An ACK that opens the window.
LEMMA Step_process_rmpp_ack ==
    ASSUME RmppInv, NEW p \in network, process_rmpp_ack(p)
    PROVE  RmppInv'
<1> USE DEF RmppInv
<1>1. /\ list \in {"send", "wait"} /\ status = "SUCCESS" /\ timeout # "zero" /\ cq = "idle"
      /\ result = "none" /\ last_ack # N /\ seg_num >= 1
      /\ list = "wait" => ~posted /\ refcount = 1
      /\ list = "send" => refcount = IF posted THEN 2 ELSE 1
      /\ UNCHANGED <<timeout_ms, status, answered, result, recvVars>>
      /\ last_ack' = p.seg /\ newwin' = p.win
      /\ retries_left' = IF p.seg > last_ack THEN MaxRetries ELSE retries_left
  BY DEF process_rmpp_ack, NotDone, Found, Receive, SenderInv, SendRefs, One, SenderType
<1>2. /\ p.seg \in 1..N /\ p.win \in Nat /\ p.seg <= newwin /\ p.seg <= p.win
      /\ p.seg < p.win \/ p.seg = N
      /\ p.seg = N => delivered # << >>
      /\ p.win >= newwin /\ p.seg >= last_ack
  BY DEF process_rmpp_ack, OldAck, LinkInv, PacketOK, SenderType
<1>3. ASSUME SenderType', SenderInv', list' # "none",
             \A q \in network' : q \in network \/ q = Data(seg_num'),
             Marked' => p.seg = N
      PROVE  RmppInv'
  <2>1. Reached' /\ newwin' >= newwin /\ UNCHANGED recvVars
    BY <1>1, <1>2, <1>3 DEF Reached, recvVars
  <2> QED BY <1>3, <2>1, SenderLink
<1>4. CASE /\ p.seg = N /\ timeout_ms = "none" /\ timeout' = "zero"
           /\ StayOn(IF refcount = 1 THEN "done" ELSE list)
           /\ cq' = "SUCCESS" /\ network' = network \ {p}
           /\ UNCHANGED <<refcount, seg_num, posted>>
  <2>1. SenderType' /\ SenderInv'
    BY <1>1, <1>2, <1>4, RmppAssumption
    DEF StayOn, SenderType, SenderInv, SendRefs, One, Marked, ResponseFirst
  <2> QED BY <1>1, <1>3, <1>4, <2>1 DEF StayOn
<1>5. CASE /\ p.seg = N /\ timeout_ms # "none"
           /\ IF refcount = 1 THEN wait_for_response(Span(timeout_ms))
              ELSE UNCHANGED <<list, timeout, delay>>
           /\ network' = network \ {p}
           /\ UNCHANGED <<refcount, seg_num, posted, cq>>
  <2>1. SenderType' /\ SenderInv'
    BY <1>1, <1>2, <1>5, RmppAssumption
    DEF wait_for_response, Span, SenderType, SenderInv, SendRefs, One, Marked, ResponseFirst
  <2> QED BY <1>1, <1>3, <1>5, <2>1 DEF wait_for_response
<1>6. CASE /\ p.seg # N /\ SendsMore(p.win)
           /\ send_next_seg(seg_num, timeout, network \ {p})
           /\ refcount' = refcount + 1 /\ StayOn("send")
           /\ UNCHANGED cq
  <2>1. SenderType' /\ SenderInv'
    BY <1>1, <1>2, <1>6, RmppAssumption
    DEF SendsMore, send_next_seg, AckTimeout, StayOn, SenderType, SenderInv, SendRefs, One,
        Marked, ResponseFirst
  <2>2. \A q \in network' : q \in network \/ q = Data(seg_num')
    BY <1>6, SentPackets DEF send_next_seg
  <2> QED BY <1>1, <1>3, <1>6, <2>1, <2>2 DEF StayOn, Marked, send_next_seg, AckTimeout
<1>7. CASE /\ p.seg # N /\ SendsMore(p.win)
           /\ send_next_seg_fails(network \ {p})
           /\ UNCHANGED <<list, delay, refcount, cq>>
  <2>0. posted = FALSE /\ posted' = FALSE /\ seg_num' = seg_num + 1 /\ seg_num < p.win /\ seg_num < N
        /\ timeout' \in {timeout, "span"}
    BY <1>1, <1>7 DEF SendsMore, send_next_seg_fails, AckTimeout, One, SenderType
  <2>p. posted' \in BOOLEAN
    BY <2>0, Zenon
  <2>1. SenderType' /\ SenderInv'
    BY <1>1, <1>2, <1>7, <2>0, <2>p, RmppAssumption
    DEF SenderType, SenderInv, SendRefs, One, Marked, ResponseFirst
  <2> QED BY <1>1, <1>3, <1>7, <2>1 DEF send_next_seg_fails, Marked, AckTimeout
<1>8. CASE /\ p.seg # N /\ network' = network \ {p}
           /\ UNCHANGED <<list, refcount, timeout, delay, seg_num, posted, cq>>
  <2>1. SenderType' /\ SenderInv'
    BY <1>1, <1>2, <1>8, RmppAssumption
    DEF SenderType, SenderInv, SendRefs, One, Marked, ResponseFirst
  <2> QED BY <1>1, <1>3, <1>8, <2>1 DEF Marked
<1> QED
  BY <1>4, <1>5, <1>6, <1>7, <1>8 DEF process_rmpp_ack, AllAcked, MarkDone

\* ib_mad_complete_send_wr by the CQ thread that marked the request done.
LEMMA Step_complete_send ==
    ASSUME RmppInv, complete_send
    PROVE  RmppInv'
<1> USE DEF RmppInv
<1>1. /\ cq \in {"SUCCESS", "REM_ABORT_ERR"} /\ timeout = "zero" /\ list \in {"send", "done"}
      /\ refcount = (IF posted THEN 2 ELSE 1) /\ result = "none" /\ seg_num >= 1
      /\ cq' = "idle"
      /\ UNCHANGED <<timeout_ms, last_ack, newwin, retries_left, seg_num, posted, answered,
                     recvVars, network>>
  BY DEF complete_send, AfterMark, Complete, SenderInv, SendRefs, One, SenderType
<1>2. /\ refcount' = (IF posted THEN 1 ELSE 0) /\ timeout' = "zero"
      /\ status' = IF cq # "SUCCESS" /\ status = "SUCCESS" THEN cq ELSE status
      /\ list' = (IF posted THEN list ELSE "gone") /\ delay' = "zero"
      /\ result' = IF posted THEN "none" ELSE IF status' = "SUCCESS" THEN cq ELSE status'
  BY <1>1 DEF complete_send, Complete, StartsWait, StayOn, One, SenderType
<1>3. SenderType'
  BY <1>1, <1>2 DEF SenderType, Statuses, One
<1>4. SenderInv'
  <2>1. SendRefs' 
    BY <1>1, <1>2 DEF SendRefs, One
  <2>2. ResponseFirst' /\ (Marked' /\ cq' \notin {"REM_ABORT_ERR", "RESPONSE"} /\ timeout_ms' # "none" => answered')
    BY <1>1, <1>2 DEF SenderType, SenderInv, Marked, ResponseFirst
  <2> QED BY <1>1, <1>2, <2>1, <2>2 DEF SenderType, SenderInv, Statuses
<1>5. Reached' /\ newwin' >= newwin /\ list' # "none"
  BY <1>1, <1>2 DEF LinkInv, Reached, Marked, SenderType, recvVars
<1>6. ReceiverInv' /\ LinkInv'
  BY <1>1, <1>3, <1>4, <1>5, SenderLink
<1> QED BY <1>3, <1>4, <1>6

\* A work request completes: the next segment is posted with it, or it waits, or ends.
LEMMA Step_ib_mad_send_done ==
    ASSUME RmppInv, ib_mad_send_done
    PROVE  RmppInv'
<1> USE DEF RmppInv
<1>1. /\ posted = TRUE /\ cq = "idle" /\ list \in {"send", "done"} /\ result = "none" /\ seg_num >= 1
      /\ refcount = IF timeout # "zero" THEN 2 ELSE 1
      /\ UNCHANGED <<timeout_ms, last_ack, newwin, retries_left, cq, answered, recvVars>>
      /\ timeout # "zero" => status = "SUCCESS"
  <2>1. posted = TRUE /\ cq = "idle"
    BY DEF ib_mad_send_done, SenderType
  <2>2. /\ list \in {"send", "done"} /\ result = "none" /\ seg_num >= 1
        /\ refcount = IF timeout # "zero" THEN 2 ELSE 1
        /\ timeout # "zero" => status = "SUCCESS"
    BY <2>1 DEF SenderInv, SendRefs, One, SenderType
  <2>3. UNCHANGED <<timeout_ms, last_ack, newwin, retries_left, cq, answered, recvVars>>
    BY DEF ib_mad_send_done, Complete
  <2> QED BY <2>1, <2>2, <2>3
<1>2. ASSUME SenderType', SenderInv', list' # "none",
             \A q \in network' : q \in network \/ q = Data(seg_num'),
             Marked' \/ result' = "SUCCESS" => delivered # << >>
      PROVE  RmppInv'
  <2>1. Reached' /\ newwin' >= newwin /\ UNCHANGED recvVars
    BY <1>1, <1>2 DEF LinkInv, Reached, SenderType, recvVars
  <2> QED BY <1>2, <2>1, SenderLink
<1>3. CASE /\ timeout # "zero" /\ status' = status /\ refcount' = refcount
           /\ list' = list /\ delay' = delay /\ result' = result
           /\ seg_num # newwin /\ seg_num # N /\ last_ack # N
           /\ send_next_seg(seg_num, timeout, network)
  <2>1. SenderType' /\ SenderInv'
    BY <1>1, <1>3, RmppAssumption
    DEF send_next_seg, AckTimeout, SenderType, SenderInv, SendRefs, One, Marked, ResponseFirst
  <2>2. \A q \in network' : q \in network \/ q = Data(seg_num')
    BY <1>3, SentPackets DEF send_next_seg
  <2> QED BY <1>1, <1>2, <1>3, <2>1, <2>2 DEF Marked, send_next_seg, AckTimeout
<1>4. CASE /\ list' = "gone" /\ delay' = "zero" /\ posted' = FALSE /\ refcount' = 0
           /\ seg_num' \in {seg_num, seg_num + 1}
           /\ seg_num' # seg_num => seg_num # newwin /\ seg_num # N
           /\ status' \in Statuses /\ result' = status' /\ timeout' \in {timeout, "span"}
           /\ status' = "SUCCESS" => timeout = "zero" /\ status = "SUCCESS"
           /\ network' = network
  <2>p. posted' \in BOOLEAN
    BY <1>4, Zenon
  <2>0. SenderType'
    BY <1>1, <1>4, <2>p, RmppAssumption DEF SenderType, SenderInv, Statuses
  <2>a. SendRefs' /\ ~Marked'
    BY <1>1, <1>4 DEF SendRefs, Marked
  <2>b. ResponseFirst'
    BY <1>1, <1>4 DEF SenderInv, Marked, ResponseFirst
  <2>1. SenderType' /\ SenderInv'
    BY <1>1, <1>4, <2>0, <2>a, <2>b, RmppAssumption DEF SenderType, SenderInv, Statuses
  <2>2. result' = "SUCCESS" => delivered # << >>
    BY <1>1, <1>4 DEF LinkInv, Reached, Marked
  <2> QED BY <1>1, <1>2, <1>4, <2>1, <2>2 DEF Marked
<1>5. CASE /\ timeout # "zero" /\ status' = status /\ refcount' = 1 /\ result' = result
           /\ wait_for_response(timeout) \/ wait_for_response(Span(timeout_ms))
           /\ posted' = FALSE /\ UNCHANGED <<seg_num, network>>
           /\ last_ack = N => timeout_ms # "none"
  <2>0. list' = "wait" /\ timeout' = "instant" /\ delay' \in {"zero", "span", "instant"}
        /\ status = "SUCCESS"
    BY <1>1, <1>5 DEF wait_for_response, Span, SenderType
  <2>p. posted' \in BOOLEAN
    BY <1>5, Zenon
  <2>a. SenderType'
    BY <1>1, <1>5, <2>0, <2>p DEF SenderType
  <2>b. SendRefs'
    BY <1>1, <1>5, <2>0 DEF SendRefs, One
  <2>1. SenderType' /\ SenderInv'
    BY <1>1, <1>5, <2>0, <2>a, <2>b DEF SenderType, SenderInv, Marked, ResponseFirst
  <2> QED BY <1>1, <1>2, <1>5, <2>0, <2>1 DEF Marked
<1>6. PICK st \in {"SUCCESS", "ERROR"} :
          LET acked == st = "SUCCESS" /\ status = "SUCCESS" /\ timeout # "zero" /\ last_ack = N
          IN
          \/ /\ GoesOn(st) /\ send_next_seg(seg_num, timeout, network)
             /\ UNCHANGED <<list, refcount, timeout_ms, delay, last_ack, newwin, retries_left,
                            status, result>>
          \/ /\ GoesOn(st) /\ send_next_seg_fails(network)
             /\ Complete("GENERAL_ERR", AckTimeout(timeout))
          \/ /\ ~GoesOn(st) /\ Complete(st, IF acked THEN Span(timeout_ms) ELSE timeout)
             /\ posted' = FALSE
             /\ UNCHANGED <<seg_num, network>>
  BY DEF ib_mad_send_done
<1>7. CASE GoesOn(st) /\ send_next_seg(seg_num, timeout, network)
           /\ UNCHANGED <<list, refcount, timeout_ms, delay, last_ack, newwin, retries_left,
                          status, result>>
  BY <1>3, <1>7 DEF GoesOn
<1>8. CASE GoesOn(st) /\ send_next_seg_fails(network)
           /\ Complete("GENERAL_ERR", AckTimeout(timeout))
  <2>1. timeout # "zero" /\ status = "SUCCESS" /\ AckTimeout(timeout) \in {timeout, "span"}
        /\ seg_num # newwin /\ seg_num # N /\ seg_num' = seg_num + 1 /\ posted' = FALSE
        /\ network' = network
    BY <1>8 DEF GoesOn, send_next_seg_fails, AckTimeout
  <2>2. refcount' = 0 /\ status' = "GENERAL_ERR"
    BY <1>1, <1>8, <2>1 DEF Complete, One
  <2>3. list' = "gone" /\ delay' = "zero" /\ timeout' = AckTimeout(timeout) /\ result' = status'
    BY <1>8, <2>1, <2>2 DEF Complete, StayOn
  <2> QED BY <1>4, <2>1, <2>2, <2>3 DEF Statuses
<1>9. CASE /\ ~GoesOn(st) /\ posted' = FALSE /\ UNCHANGED <<seg_num, network>>
           /\ Complete(st, IF st = "SUCCESS" /\ status = "SUCCESS" /\ timeout # "zero" /\ last_ack = N
                           THEN Span(timeout_ms) ELSE timeout)
  <2>1. CASE timeout = "zero" \/ st = "ERROR"
    <3>1. Complete(st, timeout) /\ status \in Statuses
      BY <1>9, <2>1 DEF SenderType
    <3>2. /\ refcount' = 0 /\ status' \in Statuses
          /\ status' = "SUCCESS" => timeout = "zero" /\ status = "SUCCESS" /\ st = "SUCCESS"
      BY <1>1, <2>1, <3>1 DEF Complete, One, Statuses
    <3>3. list' = "gone" /\ delay' = "zero" /\ timeout' = timeout /\ result' = status'
      BY <1>1, <2>1, <3>1, <3>2 DEF Complete, StayOn
    <3> QED BY <1>4, <1>9, <3>2, <3>3
  <2>2. CASE timeout # "zero" /\ st = "SUCCESS"
    <3>1. (last_ack = N => timeout_ms # "none") /\ status = "SUCCESS"
      BY <1>1, <2>2 DEF SenderInv
    <3>2. PICK t \in {"zero", "span", "instant"} :
               t \in {timeout, Span(timeout_ms)} /\ t # "zero" /\ Complete(st, t)
      BY <1>9, <2>2, <3>1 DEF Span, SenderType
    <3>3. refcount' = 1 /\ status' = status
      BY <1>1, <2>2, <3>1, <3>2 DEF Complete, One
    <3>4. wait_for_response(t) /\ result' = result
      BY <1>1, <2>2, <3>1, <3>2, <3>3 DEF Complete, StartsWait
    <3> QED BY <1>5, <1>9, <2>2, <3>1, <3>2, <3>3, <3>4
  <2> QED BY <2>1, <2>2
<1> QED BY <1>6, <1>7, <1>8, <1>9

-----------------------------------------------------------------------------
(* The receiver's steps.                                                   *)

\* A step of the receiver takes packets from the network and adds an ACK for what it has,
\* an ABORT, or the response to what it delivered.
LEMMA ReceiverLink ==
    ASSUME RmppInv, UNCHANGED sendVars, ReceiverInv',
           \A p \in network' : \/ p \in network \/ p = Abort
                               \/ p = Resp /\ delivered' # << >>
                               \/ p = Ack(rseg', rwin') /\ rstate' # "none",
           delivered # << >> => delivered' # << >>,
           \A s \in segs' : s <= newwin,
           rcq' <= newwin,
           list # "none",
           delivered' # << >> => newwin >= N
    PROVE  RmppInv'
<1> USE DEF RmppInv
<1>1. SenderType' /\ SenderInv'
  BY SenderFrame
<1>2. /\ newwin' = newwin /\ list' = list /\ last_ack' = last_ack /\ result' = result
      /\ Marked' = Marked /\ cq' = cq
  BY DEF sendVars, wrVars, Marked
<1>3. ASSUME NEW p \in network'
      PROVE  PacketOK(p, newwin)'
  <2>1. CASE p \in network
    BY <2>1, <1>2 DEF LinkInv, PacketOK
  <2>2. CASE p = Abort \/ (p = Resp /\ delivered' # << >>)
    BY <2>2, <1>2 DEF Abort, Resp, PacketOK
  <2>3. CASE p = Ack(rseg', rwin') /\ rstate' # "none"
    <3>1. /\ rseg' \in 1..N /\ rwin' \in Nat /\ rseg' <= newwin' /\ rseg' <= rwin'
          /\ rseg' < rwin' \/ rseg' = N
          /\ rseg' = N => delivered' # << >>
      BY <2>3, <1>2 DEF ReceiverInv
    <3> QED BY <2>3, <3>1 DEF Ack, PacketOK
  <2> QED BY <2>1, <2>2, <2>3
<1>4. Reached'
  BY <1>2 DEF LinkInv, Reached
<1>5. LinkInv'
  BY <1>2, <1>3, <1>4 DEF LinkInv
<1> QED BY <1>1, <1>5

\* ack_recv adds at most its ACK to the network.
LEMMA AckedPackets ==
    ASSUME NEW s, NEW w, NEW net, ack_recv(s, w, net)
    PROVE  \A p \in network' : p \in net \/ p = Ack(s, w)
BY SentPackets DEF ack_recv

\* The first segment starts a receive, which a message of one segment completes.
LEMMA Step_start_rmpp ==
    ASSUME RmppInv, NEW p \in network, start_rmpp(p)
    PROVE  RmppInv'
<1> USE DEF RmppInv
<1>1. /\ rstate = "none" /\ rcq = 0 /\ rcq' = 0 /\ rtimer' = rtimer /\ UNCHANGED sendVars
      /\ newwin >= 1 /\ list # "none" /\ newwin \in Nat /\ rtimer # "destroy"
  BY DEF start_rmpp, LinkInv, PacketOK, Data, SenderInv, SenderType, ReceiverInv
<1>2. CASE /\ network' = network \ {p}
           /\ UNCHANGED <<rstate, rseg, segs, rwin, rack, wc, delivered>>
  <2>1. ReceiverInv'
    BY <1>1, <1>2 DEF ReceiverInv
  <2> QED BY <1>1, <1>2, <2>1, ReceiverLink DEF LinkInv
<1>3. CASE /\ NewReceive(IF N = 1 THEN "COMPLETE" ELSE "ACTIVE")
           /\ rwin' = 1 + (IF N = 1 THEN 0 ELSE Window)
           /\ ack_recv(1, rwin', network \ {p})
  <2>1. /\ rseg' = 1 /\ segs' = {1} /\ rwin' \in Nat /\ rwin' >= 1
        /\ N # 1 => rwin' > 1
        /\ rstate' = (IF N = 1 THEN "COMPLETE" ELSE "ACTIVE")
        /\ delivered' = (IF N = 1 THEN Append(delivered, {1}) ELSE delivered)
        /\ wc' = (IF N = 1 THEN "client" ELSE "recv")
    BY <1>3, RmppAssumption DEF NewReceive
  <2>2. /\ delivered' \in Seq(SUBSET (1..N))
        /\ delivered' # << >> \/ N # 1
        /\ delivered # << >> => delivered' # << >>
        /\ delivered' # << >> => delivered # << >> \/ N = 1
    <3>1. delivered \in Seq(SUBSET (1..N)) /\ N \in Nat \ {0}
      BY RmppAssumption DEF ReceiverInv
    <3>2. {1} \in SUBSET (1..N)
      BY <3>1
    <3> QED BY <2>1, <3>1, <3>2
  <2>3. ReceiverInv'
    BY <1>1, <2>1, <2>2, RmppAssumption DEF ReceiverInv
  <2>4. \A q \in network' : q \in network \/ q = Ack(rseg', rwin')
    BY <1>3, <2>1, AckedPackets
  <2>5. delivered' # << >> => newwin >= N
    BY <1>1, <2>2 DEF LinkInv
  <2> QED BY <1>1, <2>1, <2>2, <2>3, <2>4, <2>5, ReceiverLink
<1> QED BY <1>2, <1>3 DEF start_rmpp

\* A later segment is kept if it is in the window, and may complete the message.
LEMMA Step_continue_rmpp ==
    ASSUME RmppInv, NEW p \in network, continue_rmpp(p)
    PROVE  RmppInv'
<1> USE DEF RmppInv
<1>1. /\ p.seg \in 1..N /\ p.seg <= newwin /\ newwin \in Nat /\ list # "none"
  BY DEF continue_rmpp, LinkInv, PacketOK, SenderType
<1>2. ReceiverInv'
  BY <1>1, RmppAssumption DEF continue_rmpp, ReceiverInv
<1> QED
  BY <1>1, <1>2, ReceiverLink DEF continue_rmpp, LinkInv

\* The segment is an old one, is kept for later, is the next one, or the last one.
LEMMA Step_continue_segment ==
    ASSUME RmppInv, continue_segment
    PROVE  RmppInv'
<1> USE DEF RmppInv
<1> DEFINE ss == segs \cup {rcq}
           last == LastInOrder(ss)
<1>1. /\ rcq \in 1..N /\ rcq <= newwin /\ rcq <= rwin
      /\ rstate \in {"ACTIVE", "COMPLETE", "TIMEOUT"}
      /\ rcq' = 0 /\ UNCHANGED <<sendVars, rtimer>> /\ list # "none" /\ newwin \in Nat
  BY DEF continue_segment, ReceiverInv, LinkInv, SenderType
<1>2. /\ ss \subseteq 1..N /\ 1 \in ss /\ rseg \in ss /\ rwin \in Nat
      /\ \A s \in ss : s <= rwin /\ s <= newwin
  BY <1>1 DEF ReceiverInv, LinkInv
<1>3. /\ last \in ss /\ \A t \in 1..last : t \in ss
  <2> HIDE DEF ss
  <2> QED BY <1>2, LastInOrderType
<1> HIDE DEF last, ss
<1>4. CASE /\ ack_recv(rseg, rwin, network)
           /\ UNCHANGED <<rstate, rseg, rwin, segs, wc, delivered>>
  <2>1. ReceiverInv'
    BY <1>1, <1>4, RmppAssumption DEF ReceiverInv
  <2>2. \A q \in network' : q \in network \/ q = Ack(rseg', rwin')
    BY <1>4, AckedPackets
  <2> QED BY <1>1, <1>4, <2>1, <2>2, ReceiverLink DEF LinkInv
<1>5. CASE /\ segs' = ss
           /\ UNCHANGED <<rstate, rseg, rack, rwin, wc, delivered, network>>
  <2>1. ReceiverInv'
    BY <1>1, <1>2, <1>5, RmppAssumption DEF ReceiverInv
  <2> QED BY <1>1, <1>2, <1>5, <2>1, ReceiverLink DEF LinkInv
<1>6. CASE /\ segs' = ss /\ rseg' = last /\ last = N
           /\ rstate' = "COMPLETE" /\ wc' = "client"
           /\ delivered' = Append(delivered, ss)
           /\ ack_recv(last, rwin, network)
           /\ UNCHANGED rwin
  <2>1. delivered' \in Seq(SUBSET (1..N)) /\ delivered' # << >>
    BY <1>2, <1>6 DEF ReceiverInv
  <2>2. ReceiverInv'
    BY <1>1, <1>2, <1>3, <1>6, <2>1 DEF ReceiverInv
  <2>3. \A q \in network' : q \in network \/ q = Ack(rseg', rwin')
    BY <1>6, AckedPackets
  <2>4. newwin >= N
    BY <1>2, <1>3, <1>6
  <2> QED BY <1>1, <1>2, <1>6, <2>1, <2>2, <2>3, <2>4, ReceiverLink
<1>7. CASE /\ segs' = ss /\ rseg' = last /\ last # N /\ last = rwin
           /\ rwin' = rwin + Window
           /\ ack_recv(last, rwin', network)
           /\ UNCHANGED <<rstate, wc, delivered>>
  <2>1. ReceiverInv'
    BY <1>1, <1>2, <1>3, <1>7, RmppAssumption DEF ReceiverInv
  <2>2. \A q \in network' : q \in network \/ q = Ack(rseg', rwin')
    BY <1>7, AckedPackets
  <2>3. (delivered' # << >> => newwin >= N) /\ rcq' <= newwin
    BY <1>1, <1>7 DEF LinkInv
  <2> QED BY <1>1, <1>2, <1>7, <2>1, <2>2, <2>3, ReceiverLink
<1>8. CASE /\ segs' = ss /\ rseg' = last /\ last # N /\ last # rwin
           /\ UNCHANGED <<rstate, rwin, rack, wc, delivered, network>>
  <2>1. ReceiverInv'
    BY <1>1, <1>2, <1>3, <1>8, RmppAssumption DEF ReceiverInv
  <2>2. (delivered' # << >> => newwin >= N) /\ rcq' <= newwin
    BY <1>1, <1>8 DEF LinkInv
  <2> QED BY <1>1, <1>2, <1>8, <2>1, <2>2, ReceiverLink
<1> QED
  BY <1>4, <1>5, <1>6, <1>7, <1>8 DEF continue_segment, IsLast, last, ss

\* The timers of the receiver and the answer of its client end a receive.
LEMMA Step_receive_ends ==
    ASSUME RmppInv,
           recv_timeout_handler \/ timeout_destroy \/ recv_cleanup_handler \/ client_answers
    PROVE  RmppInv'
<1> USE DEF RmppInv
<1>1. list # "none" /\ UNCHANGED <<sendVars, rcq, delivered>> /\ newwin \in Nat
  BY DEF recv_timeout_handler, timeout_destroy, recv_cleanup_handler, client_answers, TimerSet,
         LinkInv, ReceiverInv, SenderType
<1>2. ReceiverInv'
  <2>1. CASE recv_timeout_handler
    BY <2>1 DEF recv_timeout_handler, TimerSet, ReceiverInv
  <2>2. CASE timeout_destroy
    BY <2>2, RmppAssumption DEF timeout_destroy, ForgetReceive, ReceiverInv
  <2>3. CASE recv_cleanup_handler
    BY <2>3, RmppAssumption DEF recv_cleanup_handler, ForgetReceive, ReceiverInv
  <2>4. CASE client_answers
    BY <2>4 DEF client_answers, ReceiverInv
  <2> QED BY <2>1, <2>2, <2>3, <2>4
<1>3. \A p \in network' : p \in network \/ p = Abort \/ (p = Resp /\ delivered' # << >>)
  BY SentPackets
  DEF recv_timeout_handler, timeout_destroy, recv_cleanup_handler, client_answers, ReceiverInv
<1>4. \A s \in segs' : s <= newwin
  BY DEF recv_timeout_handler, timeout_destroy, recv_cleanup_handler, client_answers,
         ForgetReceive, LinkInv
<1> QED
  BY <1>1, <1>2, <1>3, <1>4, ReceiverLink DEF LinkInv

-----------------------------------------------------------------------------
\* The invariant holds before the send.
LEMMA RmppInvInit == Init => RmppInv
<1> SUFFICES ASSUME Init PROVE RmppInv
  OBVIOUS
<1>1. posted \in BOOLEAN /\ answered \in BOOLEAN /\ ~posted
  BY DEF Init
<1>2. SenderType
  BY <1>1, RmppAssumption DEF Init, SenderType, Statuses
<1>3. SenderInv
  BY <1>1, RmppAssumption DEF Init, SenderInv, SendRefs, One, Marked, ResponseFirst
<1>4. ReceiverInv /\ LinkInv
  BY RmppAssumption DEF Init, ReceiverInv, LinkInv, Reached, Marked
<1> QED BY <1>2, <1>3, <1>4 DEF RmppInv

\* Every step of either end or of the network keeps it.
LEMMA RmppInvStep == RmppInv /\ [Next]_vars => RmppInv'
<1> SUFFICES ASSUME RmppInv, [Next]_vars
             PROVE  RmppInv'
  OBVIOUS
<1>1. CASE SenderStep
  BY <1>1, Step_ib_send_rmpp_mad, Step_ib_mad_send_done, Step_recv_handler, Step_complete_send,
     Step_timeout_sends, Step_ib_cancel_mad, Step_process_rmpp_ack, Step_MarkDone, Step_drop
  DEF SenderStep
<1>2. CASE ReceiverStep
  BY <1>2, Step_start_rmpp, Step_continue_rmpp, Step_continue_segment, Step_receive_ends
  DEF ReceiverStep
<1>3. CASE \E p \in network : lose(p)
  BY <1>3, Step_drop
<1>4. CASE UNCHANGED vars
  <2>1. SenderType' /\ SenderInv' /\ ReceiverInv'
    BY <1>4, SenderFrame, ReceiverFrame DEF RmppInv, vars
  <2>2. LinkInv'
    BY <1>4 DEF RmppInv, LinkInv, Reached, PacketOK, Marked, vars, sendVars, wrVars, recvVars
  <2> QED BY <2>1, <2>2 DEF RmppInv
<1> QED
  BY <1>1, <1>2, <1>3, <1>4 DEF Next

\* The fields of the work request and of the receive keep their types, for any message,
\* window and network.
THEOREM TypeCorrect == Spec => []TypeOK
<1>1. RmppInv => TypeOK
  BY DEF RmppInv, SenderType, ReceiverInv, TypeOK
<1> QED
  BY <1>1, RmppInvInit, RmppInvStep, PTL DEF Spec

\* mad_send_wr->refcount is exactly the number of the request's users.
THEOREM SendRefsHolds == Spec => []SendRefs
<1>1. RmppInv => SendRefs
  BY DEF RmppInv, SenderInv
<1> QED
  BY <1>1, RmppInvInit, RmppInvStep, PTL DEF Spec

\* process_rmpp_ack never aborts a transfer between two correct ends, and the sender
\* stays inside the receiver's window.
THEOREM WindowAlwaysKept == Spec => []WindowKept
<1>1. RmppInv => WindowKept
  <2>1. RmppInv => seg_num <= newwin
    BY DEF RmppInv, SenderInv
  <2>2. ASSUME RmppInv, NEW p \in network, p.type = "ACK"
        PROVE  ~BadAck(p)
    <3>1. /\ p.seg \in 1..N /\ p.win \in Nat /\ p.seg <= newwin /\ p.seg <= p.win
          /\ newwin \in Nat /\ N \in Nat
      BY <2>2, RmppAssumption DEF RmppInv, LinkInv, PacketOK, SenderType
    <3> QED BY <3>1 DEF BadAck
  <2> QED BY <2>1, <2>2 DEF WindowKept
<1> QED
  BY <1>1, RmppInvInit, RmppInvStep, PTL DEF Spec

\* A request that expects a response is completed with success only after the response was
\* handed to the client.
THEOREM ResponseAlwaysFirst == Spec => []ResponseFirst
<1>1. RmppInv => ResponseFirst
  BY DEF RmppInv, SenderInv
<1> QED
  BY <1>1, RmppInvInit, RmppInvStep, PTL DEF Spec

-----------------------------------------------------------------------------
(* The contract.                                                           *)

\* Nothing is delivered before the send.
LEMMA OnceInvInit == Init => OnceInv
BY DEF Init, OnceInv, Once

\* What a step of the sender may do to the outcome and to the network: the first segment
\* is sent again only while none is acknowledged.
LEMMA SenderEffect ==
    ASSUME RmppInv, SenderStep
    PROVE  /\ UNCHANGED recvVars
           /\ list' # "none"
           /\ list = "none" => list' # "gone"
           /\ list = "gone" => UNCHANGED <<list, result>>
           /\ \A p \in network' : \/ p \in network
                                  \/ /\ p = Data(seg_num')
                                     /\ list = "none" \/ last_ack = 0 \/ seg_num' > 1
<1> USE DEF RmppInv
<1>1. CASE ib_send_rmpp_mad
  BY <1>1, SentPackets DEF ib_send_rmpp_mad, StayOn, send_next_seg
<1>2. CASE ib_mad_send_done
  <2>1. posted /\ list \in {"send", "done"} /\ seg_num >= 1 /\ seg_num \in Nat
    <3>1. posted
      BY <1>2 DEF ib_mad_send_done
    <3> QED BY <3>1, RmppAssumption DEF SenderInv, SendRefs, SenderType
  <2>2. UNCHANGED recvVars /\ list' # "none"
    BY <1>2, <2>1 DEF ib_mad_send_done, Complete, StayOn, wait_for_response
  <2>3. network' = network \/ (seg_num' = seg_num + 1 /\ network' = Sent(network, Data(seg_num')))
    BY <1>2 DEF ib_mad_send_done, send_next_seg, send_next_seg_fails
  <2> QED BY <2>1, <2>2, <2>3, SentPackets
<1>3. CASE recv_handler \/ complete_send
  <2>1. list \in {"send", "done"}
    BY <1>3 DEF recv_handler, complete_send, AfterMark, SenderInv, SendRefs, SenderType
  <2> QED BY <1>3, <2>1 DEF recv_handler, complete_send, Complete, StayOn, wait_for_response, wrVars
<1>4. CASE timeout_sends
  <2>1. network' = network \/ (seg_num' = last_ack + 1 /\ network' = Sent(network, Data(seg_num')))
    BY <1>4 DEF timeout_sends, send_next_seg
  <2> QED BY <1>4, <2>1, SentPackets DEF timeout_sends, StayOn, SenderType
<1>5. CASE ib_cancel_mad
  BY <1>5 DEF ib_cancel_mad, wait_for_response
<1>6. ASSUME NEW p \in network,
             process_rmpp_ack(p) \/ abort_send(p) \/ ib_mad_complete_recv(p) \/ drop(p)
      PROVE  /\ UNCHANGED recvVars /\ list' # "none"
             /\ list # "none"
             /\ list = "gone" => UNCHANGED <<list, result>>
             /\ \A q \in network' : q \in network \/ (q = Data(seg_num') /\ seg_num' > 1)
  <2>1. list # "none" /\ seg_num >= 1 /\ seg_num \in Nat
    BY RmppAssumption DEF LinkInv, SenderInv, SenderType
  <2>2. CASE process_rmpp_ack(p)
    <3>1. \/ network' = network \ {p}
          \/ seg_num' = seg_num + 1 /\ network' = Sent(network \ {p}, Data(seg_num'))
      BY <2>2 DEF process_rmpp_ack, send_next_seg, send_next_seg_fails
    <3>2. UNCHANGED recvVars /\ list' # "none" /\ list # "gone"
      BY <2>1, <2>2
      DEF process_rmpp_ack, NotDone, Found, MarkDone, StayOn, wait_for_response
    <3> QED BY <2>1, <3>1, <3>2, SentPackets
  <2>3. CASE abort_send(p) \/ ib_mad_complete_recv(p)
    BY <2>1, <2>3 DEF abort_send, ib_mad_complete_recv, NotDone, Found, MarkDone, StayOn
  <2>4. CASE drop(p)
    BY <2>1, <2>4 DEF drop, sendVars, wrVars
  <2> QED BY <1>6, <2>2, <2>3, <2>4
<1> QED BY <1>1, <1>2, <1>3, <1>4, <1>5, <1>6 DEF SenderStep

\* What a step of the receiver may do.
LEMMA ReceiverEffect ==
    ASSUME RmppInv, OnceInv, N > 1, ReceiverStep
    PROVE  /\ UNCHANGED sendVars /\ list # "none" /\ OnceInv'
           /\ \/ delivered' = delivered
              \/ delivered = << >> /\ delivered' = <<1..N>>
              \/ overlap /\ delivered' = Append(delivered, 1..N)
<1> USE DEF RmppInv
<1>1. list # "none" /\ N \in Nat
  BY RmppAssumption
  DEF ReceiverStep, LinkInv, continue_segment, recv_timeout_handler, TimerSet, timeout_destroy,
      recv_cleanup_handler, client_answers, ReceiverInv
<1>2. ASSUME NEW p \in network, start_rmpp(p)
      PROVE  UNCHANGED <<sendVars, delivered>> /\ OnceInv'
  <2>1. UNCHANGED <<sendVars, delivered, overlap, rtimer>> /\ rtimer # "destroy"
    BY <1>2 DEF start_rmpp, NewReceive, ReceiverInv
  <2>2. Once => Once'
    BY <1>2, <2>1 DEF start_rmpp, Once, NewReceive
  <2> QED BY Zenon, <2>1, <2>2 DEF OnceInv
<1>3. ASSUME NEW p \in network, continue_rmpp(p)
      PROVE  UNCHANGED <<sendVars, delivered>> /\ OnceInv'
  <2>1. UNCHANGED <<sendVars, delivered, overlap, rtimer, rstate>> /\ network' = network \ {p}
    BY Zenon, <1>3 DEF continue_rmpp
  <2>2. Once => Once'
    BY Zenon, <2>1 DEF Once
  <2> QED BY Zenon, <2>1, <2>2 DEF OnceInv
<1>4. CASE continue_segment
  <2> DEFINE ss == segs \cup {rcq}
             last == LastInOrder(ss)
  <2>1. UNCHANGED <<sendVars, rtimer>> /\ rstate \in {"ACTIVE", "COMPLETE", "TIMEOUT"}
    BY <1>4 DEF continue_segment, ReceiverInv
  <2>2. Data(1) \in network' => Data(1) \in network
    <3>1. ASSUME NEW s, NEW w, ack_recv(s, w, network), Data(1) \in network'
          PROVE  Data(1) \in network
      BY <3>1, AckedPackets DEF Ack, Data
    <3>2. \/ network' = network \/ ack_recv(rseg, rwin, network)
          \/ ack_recv(last, rwin, network) \/ ack_recv(last, rwin', network)
      BY <1>4 DEF continue_segment
    <3> QED BY <3>1, <3>2
  <2>3. CASE UNCHANGED <<rstate, overlap, delivered>>
    <3>1. Once => Once'
      BY Zenon, <2>1, <2>2, <2>3 DEF Once
    <3> QED BY Zenon, <1>1, <2>1, <2>3, <3>1 DEF OnceInv
  <2>4. CASE /\ rstate # "COMPLETE" /\ last = N /\ rstate' = "COMPLETE"
             /\ delivered' = Append(delivered, ss)
             /\ overlap' = (overlap \/ rstate = "TIMEOUT")
    <3>1. ss \subseteq 1..N /\ 1 \in ss
      BY <1>1, <1>4 DEF continue_segment, ReceiverInv
    <3>2. \A t \in 1..last : t \in ss
      <4> HIDE DEF ss
      <4> QED BY <3>1, LastInOrderType
    <3>3. ss = 1..N
      BY <2>4, <3>1, <3>2
    <3> HIDE DEF ss, last
    <3>4. CASE overlap
      <4>1. overlap'
        BY Zenon, <2>4, <3>4
      <4> QED BY Zenon, <1>1, <2>1, <2>4, <3>3, <3>4, <4>1 DEF OnceInv
    <3>5. CASE Once
      <4>1. delivered = << >>
        BY Zenon, <2>1, <2>4, <3>5 DEF Once
      <4>2. delivered' = <<1..N>>
        BY <2>4, <3>3, <4>1
      <4>3. CASE rstate = "TIMEOUT"
        BY Zenon, <1>1, <2>1, <2>4, <4>1, <4>2, <4>3 DEF OnceInv
      <4>4. CASE rstate = "ACTIVE"
        <5>1. rtimer # "destroy"
          BY Zenon, <4>4 DEF ReceiverInv
        <5>2. Once'
          BY Zenon, <2>1, <2>4, <4>2, <5>1 DEF Once
        <5> QED BY Zenon, <1>1, <2>1, <4>1, <4>2, <5>2 DEF OnceInv
      <4> QED BY Zenon, <2>1, <2>4, <4>3, <4>4
    <3> QED BY Zenon, <3>4, <3>5 DEF OnceInv
  <2> QED
    BY <1>4, <2>1, <2>3, <2>4 DEF continue_segment, IsLast
<1>5. CASE recv_timeout_handler \/ timeout_destroy \/ recv_cleanup_handler \/ client_answers
  <2>1. UNCHANGED <<sendVars, delivered, overlap>>
    BY Zenon, <1>5 DEF recv_timeout_handler, timeout_destroy, recv_cleanup_handler, client_answers
  <2>2. Data(1) \in network' => Data(1) \in network
    BY <1>5, SentPackets
    DEF recv_timeout_handler, timeout_destroy, recv_cleanup_handler, client_answers, Data, Abort, Resp
  <2>3. Once => Once'
    BY <1>5, <2>1, <2>2
    DEF recv_timeout_handler, timeout_destroy, recv_cleanup_handler, client_answers, TimerSet,
        ForgetReceive, Quiet, Data, Once, ReceiverInv
  <2> QED BY Zenon, <1>1, <2>1, <2>3 DEF OnceInv
<1> QED BY <1>1, <1>2, <1>3, <1>4, <1>5 DEF ReceiverStep

\* Every step keeps a message of several segments from being delivered twice.
LEMMA OnceInvStep ==
    ASSUME N > 1, RmppInv, OnceInv, [Next]_vars
    PROVE  OnceInv'
<1>1. CASE SenderStep
  <2>1. UNCHANGED <<rstate, rtimer, overlap, delivered>>
    BY <1>1, SenderEffect DEF recvVars
  <2>2. delivered # << >> /\ Data(1) \in network' => Data(1) \in network
    <3>1. SUFFICES ASSUME delivered # << >>, Data(1) \in network', Data(1) \notin network
                   PROVE  FALSE
      OBVIOUS
    <3>2. Data(1) = Data(seg_num') /\ (list = "none" \/ last_ack = 0 \/ seg_num' > 1)
      BY <1>1, <3>1, SenderEffect
    <3>3. seg_num' = 1
      BY <3>2 DEF Data
    <3>4. list # "none" /\ newwin >= N /\ newwin \in Nat /\ (newwin = 1 \/ last_ack >= 1)
      BY <3>1 DEF RmppInv, LinkInv, SenderInv, SenderType
    <3> QED
      BY <3>2, <3>3, <3>4, RmppAssumption
  <2>3. Once => Once'
    BY Zenon, <2>1, <2>2 DEF Once
  <2> QED BY Zenon, <2>1, <2>3 DEF OnceInv
<1>2. CASE ReceiverStep
  BY <1>2, ReceiverEffect
<1>3. CASE (\E p \in network : lose(p)) \/ UNCHANGED vars
  <2>1. UNCHANGED <<rstate, rtimer, overlap, delivered>> /\ network' \subseteq network
    BY Zenon, <1>3 DEF lose, vars, recvVars
  <2>2. Once => Once'
    BY Zenon, <2>1 DEF Once
  <2> QED BY Zenon, <2>1, <2>2 DEF OnceInv
<1> QED BY <1>1, <1>2, <1>3 DEF Next

\* Every step of the transfer is one of the contract's or changes nothing it speaks of,
\* but for a delivery after an overlap.
LEMMA ContractStep ==
    ASSUME N > 1, RmppInv, RmppInv', OnceInv, [Next]_vars
    PROVE  [Contract!Next \/ (overlap /\ Again)]_<<Outcome, delivered>>
<1> USE DEF Contract!Next, Contract!Post, Contract!Deliver, Contract!Succeed, Contract!Fail
<1>1. CASE SenderStep
  <2>1. /\ delivered' = delivered /\ list' # "none"
        /\ list = "none" => list' # "gone"
        /\ list = "gone" => UNCHANGED <<list, result>>
    BY <1>1, SenderEffect DEF recvVars
  <2>2. /\ result = "none" <=> list # "gone"
        /\ result' = "none" <=> list' # "gone"
        /\ result' = "SUCCESS" => delivered # << >>
    BY <2>1 DEF RmppInv, SenderInv, LinkInv, Reached
  <2>3. Outcome = IF list = "none" THEN "none" ELSE IF list # "gone" THEN "posted"
                  ELSE IF result = "SUCCESS" THEN "success" ELSE "failed"
    BY <2>2 DEF Outcome
  <2>4. Outcome' = IF list' # "gone" THEN "posted"
                   ELSE IF result' = "SUCCESS" THEN "success" ELSE "failed"
    BY <2>1, <2>2 DEF Outcome
  <2> HIDE DEF Outcome
  <2> QED BY <2>1, <2>2, <2>3, <2>4
<1>2. CASE ReceiverStep
  <2>1. /\ Outcome' = Outcome /\ Outcome # "none"
        /\ \/ delivered' = delivered
           \/ delivered = << >> /\ delivered' = <<1..N>>
           \/ overlap /\ delivered' = Append(delivered, 1..N)
    BY <1>2, ReceiverEffect DEF Outcome, sendVars, wrVars
  <2> HIDE DEF Outcome
  <2> QED BY Zenon, <2>1 DEF Again
<1>3. CASE (\E p \in network : lose(p)) \/ UNCHANGED vars
  <2>1. Outcome' = Outcome /\ delivered' = delivered
    BY <1>3 DEF lose, vars, recvVars, sendVars, wrVars, Outcome
  <2> QED BY <2>1
<1> QED BY <1>1, <1>2, <1>3 DEF Next

\* A message of more than one segment is delivered whole and, unless its last segment came
\* in while recv_timeout_handler ran, at most once; its sender is told once how the send
\* ended, with success only after delivery.
THEOREM TransferContract ==
    ASSUME N > 1
    PROVE  Spec => ContractSpec
<1>1. Init => Contract!Init
  BY DEF Init, Contract!Init, Outcome
<1>2. OnceInv /\ RmppInv /\ [Next]_vars => OnceInv'
  BY OnceInvStep
<1>3. OnceInv /\ RmppInv /\ RmppInv' /\ [Next]_vars
         => [Contract!Next \/ (overlap /\ Again)]_<<Outcome, delivered>>
  BY ContractStep
<1> QED
  BY <1>1, <1>2, <1>3, OnceInvInit, RmppInvInit, RmppInvStep, PTL DEF Spec, ContractSpec
=============================================================================
