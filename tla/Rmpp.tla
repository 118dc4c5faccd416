-------------------------------- MODULE Rmpp --------------------------------
(***************************************************************************)
(* A segmented management datagram (infiniband/core/mad_rmpp.c, with the   *)
(* parts of mad.c that send, time out and complete it).  The sender keeps  *)
(* one work request, mad_send_wr, and posts the segments with it one after *)
(* the other, as far as the window reaches that the receiver's             *)
(* acknowledgements (ACKs) open; the receiver collects the segments in a   *)
(* mad_rmpp_recv and hands the whole message to its client.  The network   *)
(* loses and reorders; retries duplicate.                                  *)
(*                                                                         *)
(* On each side one thread handles the completions of the CQ (sends and    *)
(* receives), another one the timers; the sending client may cancel.  One  *)
(* transfer is modelled.  The response, if the sender expects one, is a    *)
(* plain datagram: the window of a segmented response (repwin) is not      *)
(* modelled.                                                               *)
(***************************************************************************)
EXTENDS Integers, FiniteSets, Sequences

CONSTANTS
    N,            \* send_buf.seg_count
    Window,       \* window_size(agent) of the receiver
    MaxRetries,   \* send_buf.retries
    TimeoutMs,    \* values of send_buf.timeout_ms: "none" if no response is expected,
                  \* "short" up to 2000, "long" above
    Capacity      \* bound on the packets in the network; what is more is lost

ASSUME RmppAssumption ==
    /\ N \in Nat \ {0} /\ Window \in Nat \ {0}
    /\ MaxRetries \in Nat /\ Capacity \in Nat \ {0}
    /\ TimeoutMs \subseteq {"none", "short", "long"}

VARIABLES
    \* mad_send_wr: the agent's list it is on; the segment posted last, acknowledged
    \* last, and the last one of the window; timeout is "zero", a "span" of time or, on
    \* the wait list, an "instant" (a span plus jiffies); delay is what the timer was
    \* set to when the request joined the wait list
    list, refcount, timeout_ms, timeout, delay, seg_num, last_ack, newwin, retries_left,
    status,
    posted,    \* the work request is on the QP
    cq,        \* sender's CQ thread: what it is about to complete the send with
    answered,  \* the response was handed to the sending client
    result,    \* what send_handler was told
    \* mad_rmpp_recv: state, last segment in order, segments on rmpp_list
    rstate, rseg, rack, rwin, segs,
    rcq,       \* receiver's CQ thread: the segment continue_rmpp handles, or 0
    rtimer,    \* recv_timeout_handler: "idle" or "destroy"
    wc,        \* who has the received buffers: nobody, the receive, the client; "freed" if
               \* they were freed although the client was given them
    overlap,   \* a message was completed in a receive that recv_timeout_handler destroys
    delivered, \* the segments of each message handed to the receiving client
    network

wrVars == <<list, refcount, timeout_ms, timeout, delay, seg_num, last_ack, newwin, retries_left, status>>
sendVars == <<wrVars, posted, cq, answered, result>>
recvVars == <<rstate, rseg, rack, rwin, segs, rcq, rtimer, wc, overlap, delivered>>
vars == <<sendVars, recvVars, network>>

Init ==
    /\ list = "none" /\ refcount = 0
    /\ timeout_ms \in TimeoutMs /\ timeout = "zero" /\ delay = "zero"
    /\ seg_num = 0 /\ last_ack = 0 /\ newwin = 1 /\ retries_left = MaxRetries
    /\ status = "SUCCESS" /\ posted = FALSE /\ cq = "idle"
    /\ answered = FALSE /\ result = "none"
    /\ rstate = "none" /\ rseg = 0 /\ rack = 0 /\ rwin = 0 /\ segs = {}
    /\ rcq = 0 /\ rtimer = "idle" /\ wc = "none" /\ overlap = FALSE
    /\ delivered = <<>>
    /\ network = {}

-----------------------------------------------------------------------------
(* The network.                                                            *)

Data(s) == [type |-> "DATA", seg |-> s, win |-> 0]
Ack(s, w) == [type |-> "ACK", seg |-> s, win |-> w]
Abort == [type |-> "ABORT", seg |-> 0, win |-> 0]
Resp == [type |-> "RESP", seg |-> 0, win |-> 0]

Sent(net, p) == IF Cardinality(net) < Capacity THEN net \cup {p} ELSE net

lose(p) ==
    /\ p \in network
    /\ network' = network \ {p}
    /\ UNCHANGED <<sendVars, recvVars>>

-----------------------------------------------------------------------------
(* The sender.                                                             *)

Span(ms) == IF ms = "none" THEN "zero" ELSE "span"

\* wait_for_response with timeout t: the request joins the wait list.
wait_for_response(t) == list' = "wait" /\ timeout' = "instant" /\ delay' = t
StayOn(l) == list' = l /\ delay' = IF l = "wait" THEN delay ELSE "zero"

\* send_next_seg after segment s, with timeout t before: the packet leaves at once, and
\* ib_send_mad posts the work request.
AckTimeout(t) == IF timeout_ms = "short" THEN t ELSE "span"
send_next_seg(s, t, net) ==
    /\ seg_num' = s + 1 /\ timeout' = AckTimeout(t)
    /\ posted' = TRUE
    /\ network' = Sent(net, Data(s + 1))
send_next_seg_fails(net) ==
    /\ seg_num' = seg_num + 1 /\ timeout' = AckTimeout(timeout)
    /\ posted' = FALSE
    /\ network' = net

\* ib_post_send_mad and ib_send_rmpp_mad: references for the QP and for the final ACK or
\* the response.  A post that fails is an error of the call.
ib_send_rmpp_mad ==
    /\ list = "none"
    /\ StayOn("send") /\ refcount' = 2
    /\ send_next_seg(0, Span(timeout_ms), network)
    /\ UNCHANGED <<timeout_ms, last_ack, newwin, retries_left, status, cq, answered, result,
                   recvVars>>

\* The request waits when only the reference of the ACK or response is left.
StartsWait_response(refs, t, st) ==
    refs = 1 /\ t # "zero" /\ st = "SUCCESS" /\ timeout_ms # "none"
StartsWait(refs, t, st) == refs = 1 /\ t # "zero" /\ st = "SUCCESS"

\* ib_mad_complete_send_wr when ib_process_rmpp_send_wc does not go on sending; t is
\* mad_send_wr->timeout after it.
Complete(st, t) ==
    LET fails == st # "SUCCESS" /\ status = "SUCCESS"
        s == IF fails THEN st ELSE status
        refs == refcount - (IF fails /\ t # "zero" THEN 1 ELSE 0) - 1
    IN  /\ refcount' = refs /\ status' = s
        /\ \/ /\ refs > 0
              /\ IF StartsWait(refs, t, s)
                 THEN wait_for_response(t)
                 ELSE StayOn(list) /\ timeout' = t
              /\ UNCHANGED result
           \/ /\ refs <= 0
              /\ StayOn("gone") /\ timeout' = t
              /\ result' = IF s = "SUCCESS" THEN st ELSE s
        /\ UNCHANGED <<timeout_ms, last_ack, newwin, retries_left>>

\* ib_process_rmpp_send_wc: the send is neither over nor at the end of its window.
GoesOn_past(st) ==
    /\ st = "SUCCESS" /\ status = "SUCCESS" /\ timeout # "zero"
    /\ last_ack # N /\ seg_num # N
GoesOn(st) ==
    /\ st = "SUCCESS" /\ status = "SUCCESS" /\ timeout # "zero"
    /\ last_ack # N /\ seg_num # newwin /\ seg_num # N

\* ib_mad_send_done: the work request completes.  With everything acknowledged the
\* timeout becomes send_buf.timeout_ms.
ib_mad_send_done ==
    /\ posted /\ cq = "idle"
    /\ \E st \in {"SUCCESS", "ERROR"} :
          LET acked == st = "SUCCESS" /\ status = "SUCCESS" /\ timeout # "zero" /\ last_ack = N
          IN
          \/ /\ GoesOn(st) /\ send_next_seg(seg_num, timeout, network)
             /\ UNCHANGED <<list, refcount, timeout_ms, delay, last_ack, newwin, retries_left,
                            status, result>>
          \/ /\ GoesOn(st) /\ send_next_seg_fails(network)
             /\ Complete("GENERAL_ERR", AckTimeout(timeout))
          \/ /\ ~GoesOn(st) /\ Complete(st, IF acked THEN Span(timeout_ms) ELSE timeout)
             /\ posted' = FALSE
             /\ UNCHANGED <<seg_num, network>>
    /\ UNCHANGED <<cq, answered, recvVars>>

\* ib_find_send_mad.
Found == status = "SUCCESS" /\ (list = "wait" \/ (list = "send" /\ timeout # "zero"))
NotDone == Found /\ last_ack # N /\ timeout # "zero"

\* ib_mark_mad_done; ib_mad_complete_send_wr follows, without the lock in between.
MarkDone(next) ==
    /\ timeout' = "zero"
    /\ StayOn(IF refcount = 1 THEN "done" ELSE list)
    /\ cq' = next

Receive(p) == cq = "idle" /\ p \in network
SendsMore(win) == refcount = 1 /\ seg_num < win /\ seg_num < N

\* last_ack is seg_count after this ACK.
AllAcked_window(p) == p.win >= N
AllAcked(p) == p.seg = N

\* A window smaller than the segment, or a segment that was not sent, aborts the send.
BadAck(p) == p.win < p.seg \/ (NotDone /\ (p.seg > N \/ p.seg > newwin))
OldAck(p) == p.win < newwin \/ p.seg < last_ack

process_rmpp_ack(p) ==
    LET rest == network \ {p} IN
    /\ p.type = "ACK" /\ Receive(p)
    /\ NotDone /\ ~BadAck(p) /\ ~OldAck(p)
    /\ last_ack' = p.seg /\ newwin' = p.win
    /\ retries_left' = IF p.seg > last_ack THEN MaxRetries ELSE retries_left
    /\ \/ /\ AllAcked(p) /\ timeout_ms = "none"  \* no response: the ACK completes the send
          /\ MarkDone("SUCCESS") /\ network' = rest
          /\ UNCHANGED <<refcount, seg_num, posted>>
       \/ /\ AllAcked(p) /\ timeout_ms # "none"
          /\ IF refcount = 1 THEN wait_for_response(Span(timeout_ms))
             ELSE UNCHANGED <<list, timeout, delay>>
          /\ network' = rest
          /\ UNCHANGED <<refcount, seg_num, posted, cq>>
       \/ /\ ~AllAcked(p) /\ SendsMore(p.win)
          /\ send_next_seg(seg_num, timeout, rest)
          /\ refcount' = refcount + 1 /\ StayOn("send")
          /\ UNCHANGED cq
       \/ /\ ~AllAcked(p) /\ SendsMore(p.win)  \* just a timeout and a retry
          /\ send_next_seg_fails(rest)
          /\ UNCHANGED <<list, delay, refcount, cq>>
       \/ /\ ~AllAcked(p) /\ ~SendsMore(p.win)
          /\ network' = rest
          /\ UNCHANGED <<list, refcount, timeout, delay, seg_num, posted, cq>>
    /\ UNCHANGED <<timeout_ms, status, answered, result, recvVars>>

\* abort_send: the receiver gave up, or the ACK is a bad one.
abort_send(p) ==
    /\ p.type = "ABORT" \/ (p.type = "ACK" /\ BadAck(p))
    /\ Receive(p) /\ NotDone
    /\ MarkDone("REM_ABORT_ERR")
    /\ network' = network \ {p}
    /\ UNCHANGED <<timeout_ms, refcount, seg_num, last_ack, newwin, retries_left, status,
                   posted, answered, result, recvVars>>

\* ib_mad_complete_recv: the response completes the request, acknowledged or not.
ib_mad_complete_recv(p) ==
    /\ p.type = "RESP" /\ Receive(p) /\ Found
    /\ MarkDone("RESPONSE")
    /\ network' = network \ {p}
    /\ UNCHANGED <<timeout_ms, refcount, seg_num, last_ack, newwin, retries_left, status,
                   posted, answered, result, recvVars>>

\* Nothing waits for it, or an old ACK.
drop(p) ==
    /\ Receive(p)
    /\ \/ p.type = "ACK" /\ (~NotDone \/ (~BadAck(p) /\ OldAck(p)))
       \/ p.type = "ABORT" /\ ~NotDone
       \/ p.type = "RESP" /\ ~Found
    /\ network' = network \ {p}
    /\ UNCHANGED <<sendVars, recvVars>>

\* ib_mad_complete_recv hands the response to the client, then completes the request.
AfterMark_unanswered == {"SUCCESS", "REM_ABORT_ERR", "RESPONSE"}
AfterMark == {"SUCCESS", "REM_ABORT_ERR"}

recv_handler ==
    /\ cq = "RESPONSE"
    /\ answered' = TRUE /\ cq' = "SUCCESS"
    /\ UNCHANGED <<wrVars, posted, result, recvVars, network>>

complete_send ==
    /\ cq \in AfterMark
    /\ Complete(IF cq = "RESPONSE" THEN "SUCCESS" ELSE cq, timeout)
    /\ cq' = "idle"
    /\ UNCHANGED <<seg_num, posted, answered, recvVars, network>>

\* timeout_sends, retry_send and ib_retry_rmpp: go back to the last acknowledged segment,
\* with a reference for the QP.  A send that only waits for its response is not repeated.
RetryRefs_none == 0
RetryRefs == 1
MayRetry_always == status = "SUCCESS" /\ last_ack # N
MayRetry == status = "SUCCESS" /\ retries_left > 0 /\ last_ack # N

timeout_sends ==
    /\ list = "wait"
    /\ \/ /\ MayRetry
          /\ retries_left' = retries_left - 1
          /\ send_next_seg(last_ack, Span(timeout_ms), network)
          /\ refcount' = refcount + RetryRefs /\ StayOn("send")
          /\ UNCHANGED result
       \/ /\ StayOn("gone")  \* no retry left, or it could not be posted
          /\ result' = IF status = "SUCCESS" THEN "RESP_TIMEOUT_ERR" ELSE status
          /\ UNCHANGED <<refcount, timeout, seg_num, retries_left, posted, network>>
    /\ UNCHANGED <<timeout_ms, last_ack, newwin, status, cq, answered, recvVars>>

\* ib_cancel_mad, ib_modify_mad: an idle request is left to the timer, due at once.
ib_cancel_mad ==
    LET active == timeout = "zero" \/ refcount > 1 IN
    /\ list \in {"send", "wait"} /\ status = "SUCCESS"
    /\ status' = "WR_FLUSH_ERR"
    /\ refcount' = refcount - (IF timeout = "zero" THEN 0 ELSE 1)
    /\ timeout_ms' = "none"
    /\ \/ active /\ timeout' = "zero" /\ UNCHANGED <<list, delay>>
       \/ ~active /\ wait_for_response("zero")
    /\ UNCHANGED <<seg_num, last_ack, newwin, retries_left, posted, cq, answered, result,
                   recvVars, network>>

-----------------------------------------------------------------------------
(* The receiver.                                                           *)

\* ack_recv of a receive that has all segments up to s, in window w.
ack_recv(s, w, net) ==
    \/ rack' = s /\ network' = Sent(net, Ack(s, w))
    \/ rack' = rack /\ network' = net  \* no memory for it

NewReceive(s) ==
    /\ rstate' = s /\ rseg' = 1 /\ segs' = {1}
    /\ delivered' = IF s = "COMPLETE" THEN Append(delivered, {1}) ELSE delivered
    /\ wc' = IF s = "COMPLETE" THEN "client" ELSE "recv"

\* The first segment; a duplicate of it goes to continue_rmpp.
start_rmpp(p) ==
    /\ p = Data(1) /\ p \in network /\ rcq = 0 /\ rstate = "none"
    /\ \/ NewReceive(IF N = 1 THEN "COMPLETE" ELSE "ACTIVE")
          /\ rwin' = 1 + (IF N = 1 THEN 0 ELSE Window)
          /\ ack_recv(1, rwin', network \ {p})
       \/ network' = network \ {p}  \* no memory
          /\ UNCHANGED <<rstate, rseg, segs, rwin, rack, wc, delivered>>
    /\ UNCHANGED <<sendVars, rcq, rtimer, overlap>>

\* acquire_rmpp_recv finds the receive on the list, from which recv_timeout_handler takes
\* it, and the first test finds a segment to be handled.
continue_rmpp(p) ==
    /\ p \in network /\ p.type = "DATA" /\ rcq = 0
    /\ p.seg = 1 => rstate # "none" /\ rtimer = "idle"
    /\ LET taken == rstate # "none" /\ rtimer = "idle" /\ p.seg <= rwin IN
       rcq' = IF taken THEN p.seg ELSE 0
    /\ network' = network \ {p}
    /\ UNCHANGED <<sendVars, rstate, rseg, rack, rwin, segs, rtimer, wc, overlap, delivered>>

\* update_seg_num: the last segment with no gap before it.
LastInOrder(ss) == CHOOSE s \in ss : s + 1 \notin ss /\ \A t \in 1..s : t \in ss

\* The segment in order is the last one of the message: get_last_flag(cur_seg_buf).
IsLast(ss) == LastInOrder(ss) = N

\* The rest of continue_rmpp, from the test of last_ack.  recv_timeout_handler may have
\* set RMPP_STATE_TIMEOUT since the first test: it does so under agent->lock, while
\* continue_rmpp has rmpp_recv->lock.  A message that is complete now goes to the client
\* all the same.
continue_segment ==
    LET s == rcq  ss == segs \cup {s}  last == LastInOrder(ss) IN
    /\ rcq # 0
    /\ rcq' = 0
    /\ IF s <= rack \/ rstate = "COMPLETE"
       THEN /\ ack_recv(rseg, rwin, network)
            /\ UNCHANGED <<rstate, rseg, rwin, segs, wc, overlap, delivered>>
       ELSE /\ segs' = ss
            /\ IF s \in segs \/ s # rseg + 1
               THEN UNCHANGED <<rstate, rseg, rack, rwin, wc, overlap, delivered, network>>
               ELSE /\ rseg' = last
                    /\ CASE IsLast(ss) ->
                              /\ rstate' = "COMPLETE" /\ wc' = "client"
                              /\ delivered' = Append(delivered, ss)
                              /\ overlap' = (overlap \/ rstate = "TIMEOUT")
                              /\ ack_recv(last, rwin, network)
                              /\ UNCHANGED rwin
                         [] ~IsLast(ss) /\ last = rwin ->
                              /\ rwin' = rwin + Window
                              /\ ack_recv(last, rwin', network)
                              /\ UNCHANGED <<rstate, wc, overlap, delivered>>
                         [] OTHER -> UNCHANGED <<rstate, rwin, rack, wc, overlap, delivered,
                                                 network>>
    /\ UNCHANGED <<sendVars, rtimer>>

\* recv_timeout_handler: off the list, and the sender is told.
TimerSet_first == rstate = "ACTIVE" /\ rseg = 1
TimerSet == rstate = "ACTIVE"
recv_timeout_handler ==
    /\ TimerSet
    /\ rstate' = "TIMEOUT" /\ rtimer' = "destroy"
    /\ network' = Sent(network, Abort)
    /\ UNCHANGED <<sendVars, rseg, rack, rwin, segs, rcq, wc, overlap, delivered>>

ForgetReceive == rstate' = "none" /\ rseg' = 0 /\ rack' = 0 /\ rwin' = 0 /\ segs' = {}

\* destroy_rmpp_recv waits for continue_rmpp to drop its reference; ib_free_recv_mad frees
\* the buffers, also those of a message that was completed meanwhile.
timeout_destroy ==
    /\ rtimer = "destroy" /\ rcq = 0
    /\ rtimer' = "idle" /\ wc' = IF rstate = "COMPLETE" THEN "freed" ELSE "none"
    /\ ForgetReceive
    /\ UNCHANGED <<sendVars, rcq, overlap, delivered, network>>

\* recv_cleanup_handler, 10 seconds after the message was complete: no segment sent
\* before is on its way any more, and recv_timeout_handler is done.
Quiet == \A p \in network : p.type # "DATA"

recv_cleanup_handler ==
    /\ rstate = "COMPLETE" /\ rtimer = "idle" /\ rcq = 0 /\ Quiet
    /\ ForgetReceive
    /\ UNCHANGED <<sendVars, rcq, rtimer, wc, overlap, delivered, network>>

\* The receiving client, external: it frees the message, and may answer it once.
client_answers ==
    /\ wc = "client"
    /\ wc' = "none"
    /\ network' = IF timeout_ms # "none" THEN Sent(network, Resp) ELSE network
    /\ UNCHANGED <<sendVars, rstate, rseg, rack, rwin, segs, rcq, rtimer, overlap, delivered>>

-----------------------------------------------------------------------------
SenderStep ==
    \/ ib_send_rmpp_mad \/ ib_mad_send_done \/ recv_handler \/ complete_send
    \/ timeout_sends \/ ib_cancel_mad
    \/ \E p \in network : process_rmpp_ack(p) \/ abort_send(p) \/ ib_mad_complete_recv(p) \/ drop(p)
ReceiverStep ==
    \/ \E p \in network : start_rmpp(p) \/ continue_rmpp(p)
    \/ continue_segment \/ recv_timeout_handler \/ timeout_destroy \/ recv_cleanup_handler
    \/ client_answers

Next == SenderStep \/ ReceiverStep \/ \E p \in network : lose(p)

\* Work requests complete, threads go on, timers expire: the network may lose everything.
Fairness ==
    /\ WF_vars(ib_mad_send_done) /\ WF_vars(recv_handler) /\ WF_vars(complete_send)
    /\ WF_vars(timeout_sends) /\ WF_vars(continue_segment)
    /\ WF_vars(recv_timeout_handler) /\ WF_vars(timeout_destroy)
    /\ WF_vars(recv_cleanup_handler)
    /\ WF_vars(\E p \in network : lose(p) \/ start_rmpp(p) \/ continue_rmpp(p))

Spec == Init /\ [][Next]_vars /\ Fairness

-----------------------------------------------------------------------------
(* Properties.                                                             *)

\* The fields keep their types: counts and segment numbers stay within bounds.
TypeOK ==
    /\ list \in {"none", "send", "wait", "done", "gone"}
    /\ refcount \in 0..2 /\ seg_num \in 0..N /\ last_ack \in 0..N
    /\ retries_left \in 0..MaxRetries
    /\ {timeout, delay} \subseteq {"zero", "span", "instant"}
    /\ rseg \in 0..N /\ segs \subseteq 1..N
    /\ wc \in {"none", "recv", "client", "freed"} /\ delivered \in Seq(SUBSET (1..N))

One(b) == IF b THEN 1 ELSE 0

\* mad_send_wr->refcount counts the QP, the thread about to complete the request and the
\* timer or response it waits for, so that its client gets the request back, and it is
\* posted again, only when nothing else uses it.
SendRefs ==
    /\ list \in {"send", "done"} =>
          refcount = One(posted) + One(cq # "idle") + One(timeout # "zero")
    /\ list = "wait" => ~posted /\ cq = "idle" /\ refcount = One(status = "SUCCESS")
    /\ list = "gone" => ~posted /\ cq = "idle"

\* The sender keeps to the receiver's window, and this receiver never sends an ACK for
\* which process_rmpp_ack aborts the transfer (W2S, S2B).
WindowKept ==
    /\ seg_num <= newwin
    /\ \A p \in network : p.type = "ACK" => ~BadAck(p)

\* ib_mad_complete_recv: "Defined behavior is to complete response before request".
ResponseFirst == result = "SUCCESS" /\ timeout_ms # "none" => answered

\* send_next_seg: "2 seconds for an ACK", so a request that waits for one was given a span
\* of time to wait, not a point in time.
AckTimer == list = "wait" => delay # "instant"

Outcome ==
    CASE list = "none" -> "none"
      [] list # "none" /\ result = "none" -> "posted"
      [] result = "SUCCESS" -> "success"
      [] OTHER -> "failed"

\* The transfer implements the contract: the message is delivered once and whole, the
\* sender told once, and told success only after delivery.  One thing may go beyond it:
\* after a message was completed in a receive that recv_timeout_handler destroys, its
\* segments no longer meet a receive that is complete, and it may be delivered again.
Contract == INSTANCE RmppContract WITH Message <- 1..N, outcome <- Outcome
Again == delivered' = Append(delivered, 1..N) /\ UNCHANGED Outcome
ContractSpec == Contract!Init /\ [][Contract!Next \/ (overlap /\ Again)]_<<Outcome, delivered>>

\* Every send is reported to its client, whatever the network loses.
SendCompletes == list = "send" ~> list = "gone"

\* The receive ends too, and its buffers are given up or are the client's: unless the last
\* segment came in while recv_timeout_handler ran, the client's buffers are never freed.
ReceiveEnds ==
    rstate # "none" ~> rstate = "none" /\ (wc \in {"none", "client"} \/ overlap)
=============================================================================
