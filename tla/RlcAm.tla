-------------------------------- MODULE RlcAm --------------------------------
(***************************************************************************)
(* One direction of an acknowledged bearer: the transmitting side of one   *)
(* RLC AM entity and the receiving side of its peer (rlc_am_lte.cc).       *)
(*                                                                         *)
(* Abstractions.  SDUs and PDUs are counted in units of payload, and the   *)
(* units of the whole stream are numbered; the headers (fi, li) are        *)
(* replaced by the units that end an SDU.  Timers expire at any time while *)
(* they run.  t_status_prohibit only delays a status, as a missing         *)
(* opportunity does.  Every poll_pdu / poll_byte threshold may or may not  *)
(* be reached.  max_retx_attempted() of the eNB is empty, so retx_count is *)
(* left out.                                                               *)
(***************************************************************************)
EXTENDS Integers, FiniteSets, Sequences, SequencesExt

CONSTANTS Window,   \* RLC_AM_WINDOW_SIZE
          SduEnds,  \* the last unit of each SDU that will be written
          Grants,   \* units a MAC opportunity can carry, as a PDU and as a segment,
                    \* whose header is longer
          Ample,    \* the largest of them
          Early,    \* may a threshold of poll_pdu or poll_byte be reached, or not
          MaxAir, MaxStatuses, \* PDUs and statuses on the air at once
          MaxRetx,  \* longest retx_queue at which the poll timer may run out
          MaxLosses

ASSUME RlcAssumption ==
  /\ Window \in Nat \ {0} /\ SduEnds \in Seq(Nat \ {0})
  /\ \A k \in 2 .. Len(SduEnds) : SduEnds[k - 1] < SduEnds[k]
  /\ Grants \subseteq [pdu : Nat \ {0}, segment : Nat] /\ Ample \in Grants
  /\ \A g \in Grants : g.segment <= g.pdu /\ g.pdu <= Ample.segment
  /\ Early \subseteq BOOLEAN
  /\ MaxAir \in Nat \ {0} /\ MaxStatuses \in Nat \ {0} /\ MaxRetx \in Nat /\ MaxLosses \in Nat

VARIABLES
  written,                 \* SDUs given to write_sdu
  moved,                   \* units that have been put into PDUs
  vt_a, vt_s,              \* edges of the transmitting window
  tx_window, retx_queue,
  poll_retx_timer,         \* "off", "running" or "expired"
  air, statuses,           \* PDUs and status PDUs on the air, oldest first
  losses,
  misled,                  \* history: a status was overtaken and erased PDUs
  vr_r, vr_ms, vr_h, vr_x, \* receiving window and its reordering state
  rx_window, rx_segments,
  reordering,              \* reordering_timer is running
  do_status, poll_received,
  rx_sdu, delivered        \* the SDU being put together, and those given to PDCP

txVars == <<moved, vt_a, vt_s, tx_window, retx_queue, poll_retx_timer>>
rxVars == <<vr_r, vr_ms, vr_h, vr_x, rx_window, rx_segments, reordering,
            do_status, poll_received, rx_sdu, delivered>>
vars == <<written, txVars, air, statuses, losses, misled, rxVars>>

MOD == 2 * Window
SNs == 0 .. MOD - 1
Up(sn, n) == (sn + n) % MOD
Base(sn, edge) == (sn - edge) % MOD \* TX_MOD_BASE, RX_MOD_BASE
From(edge, n) == [k \in 1 .. n |-> Up(edge, k - 1)]

EndOf(k) == IF k = 0 THEN 0 ELSE SduEnds[k]
Ends == {SduEnds[k] : k \in DOMAIN SduEnds}
Units(a, b) == [k \in 1 .. b - a + 1 |-> a + k - 1]
Smaller(a, b) == IF a < b THEN a ELSE b

-----------------------------------------------------------------------------
(* The transmitting side.                                                  *)

WriteSdu ==
  /\ written < Len(SduEnds)
  /\ written' = written + 1
  /\ UNCHANGED <<txVars, air, statuses, losses, misled, rxVars>>

TxSdu == moved \notin Ends \cup {0}                  \* tx_sdu != NULL
QueueLen(m) == Cardinality({k \in 1 .. written : EndOf(k - 1) >= m})
Full == Cardinality(DOMAIN tx_window) >= Window
HasData == retx_queue # << >> \/ moved < EndOf(written)

\* poll_required, with the state of the timer and of the queues when it is asked
PollRequired(timer, early, sduQueue, retxQueue) ==
  \/ early
  \/ timer = "expired"
  \/ Full
  \/ sduQueue = 0 /\ retxQueue = << >>

WholeRetx(sn) == [sn |-> sn, is_segment |-> FALSE, so_start |-> 0, so_end |-> Len(tx_window[sn])]

\* Bug: the timer expires and queues nothing.
Bug_NoRandom(queue) == {queue}

\* retransmit_random_pdu
RandomRetx(queue) ==
  IF tx_window = << >> THEN {queue}
  ELSE {Append(queue, WholeRetx(sn)) : sn \in DOMAIN tx_window}

\* The entries left when those at the front that are no longer in tx_window go.
InTxWindow(queue) ==
  LET kept == {k \in DOMAIN queue : queue[k].sn \in DOMAIN tx_window}
  IN  IF kept = {} THEN << >> ELSE SubSeq(queue, Min(kept), Len(queue))

NeedsSegment(retx, grant) == retx.is_segment \/ Len(tx_window[retx.sn]) > grant.pdu

\* poll_retx_timer, once poll_required has been answered
Armed(timer, poll) == IF poll THEN "running" ELSE timer

\* build_retx_pdu and build_segment: the entry is still in the queue when
\* poll_required looks at it.
BuildRetx(queue, grant, early) ==
  LET retx    == Head(queue)
      data    == tx_window[retx.sn]
      segment == NeedsSegment(retx, grant)
      so_end  == Smaller(retx.so_end, retx.so_start + grant.segment)
      last    == ~segment \/ so_end = Len(data)
      poll    == PollRequired(poll_retx_timer, early, QueueLen(moved), queue)
  IN  /\ air' = Append(air, [sn |-> retx.sn, rf |-> segment, so |-> retx.so_start,
                             lsf |-> segment /\ last, p |-> poll,
                             data |-> IF segment THEN SubSeq(data, retx.so_start + 1, so_end)
                                                 ELSE data])
      /\ poll_retx_timer' = Armed(poll_retx_timer, poll)
      /\ retx_queue' = IF last THEN Tail(queue)
                       ELSE <<[retx EXCEPT !.is_segment = TRUE, !.so_start = so_end]>> \o Tail(queue)
      /\ UNCHANGED <<moved, vt_a, vt_s, tx_window>>

\* build_data_pdu: a full window stops it only between two SDUs.  A PDU on the
\* air reaches the receiver or is lost before the window has moved past it.
BuildData(queue, timer, size, early) ==
  /\ retx_queue' = queue
  /\ IF moved < EndOf(written) /\ (TxSdu \/ ~Full)
     THEN LET upto == Smaller(moved + size, EndOf(written))
              data == Units(moved + 1, upto)
              poll == PollRequired(timer, early, QueueLen(upto), queue)
          IN  /\ \A k \in DOMAIN air : Base(vt_s, air[k].sn) < Window
              /\ air' = Append(air, [sn |-> vt_s, rf |-> FALSE, so |-> 0, lsf |-> FALSE,
                                     p |-> poll, data |-> data])
              /\ poll_retx_timer' = Armed(timer, poll)
              /\ tx_window' = [sn \in DOMAIN tx_window \cup {vt_s} |->
                                 IF sn = vt_s THEN data ELSE tx_window[sn]]
              /\ vt_s' = Up(vt_s, 1)
              /\ moved' = upto
              /\ UNCHANGED vt_a
     ELSE /\ poll_retx_timer' = timer
          /\ UNCHANGED <<air, moved, vt_a, vt_s, tx_window>>

\* read_pdu of the transmitting side.  When no segment fits, build_segment has
\* answered poll_required and armed the timer before it gives up.
ReadPdu(grant) ==
  /\ HasData
  /\ Len(air) < MaxAir
  /\ \E early \in Early :
       \E queue \in IF Full /\ retx_queue = << >> THEN RandomRetx(retx_queue) ELSE {retx_queue} :
         LET left == InTxWindow(queue)
         IN  CASE left = << >> -> BuildData(left, poll_retx_timer, grant.pdu, early)
               [] left # << >> /\ (NeedsSegment(Head(left), grant) => grant.segment > 0) ->
                    BuildRetx(left, grant, early)
               [] OTHER ->
                    LET poll == PollRequired(poll_retx_timer, early, QueueLen(moved), left)
                    IN  BuildData(left, Armed(poll_retx_timer, poll), grant.pdu, early)
  /\ UNCHANGED <<written, statuses, losses, misled, rxVars>>

\* timer_expired of the transmitting side
ExpirePoll ==
  /\ poll_retx_timer = "running" /\ Len(retx_queue) <= MaxRetx
  /\ poll_retx_timer' = "expired"
  /\ IF (retx_queue = << >> /\ QueueLen(moved) = 0) \/ Full
     THEN retx_queue' \in RandomRetx(retx_queue)
     ELSE UNCHANGED retx_queue
  /\ UNCHANGED <<written, moved, vt_a, vt_s, tx_window, air, statuses, losses, misled, rxVars>>

\* A NACK of a PDU that does not wait in the queue already.
Requeue(queue, sn, nacks) ==
  IF sn \in nacks \cap DOMAIN tx_window /\ \A k \in DOMAIN queue : queue[k].sn # sn
  THEN Append(queue, WholeRetx(sn))
  ELSE queue

\* handle_control_pdu: the SNs from vt_a to ack_sn, ack_sn apart.  stop() does
\* not alter a timer that has expired.
HandleControl(status) ==
  LET visited == From(vt_a, Smaller(Base(status.ack_sn, vt_a), Base(vt_s, vt_a)))
      acked   == CHOOSE n \in 0 .. Len(visited) :
                   /\ \A k \in 1 .. n : visited[k] \notin status.nacks
                   /\ n < Len(visited) => visited[n + 1] \in status.nacks
      flushed == IF status.nacks # {} THEN << >> ELSE retx_queue
  IN  /\ tx_window' = [sn \in DOMAIN tx_window \ {visited[k] : k \in 1 .. acked} |-> tx_window[sn]]
      /\ vt_a' = Up(vt_a, acked)
      /\ retx_queue' = FoldLeft(LAMBDA queue, sn : Requeue(queue, sn, status.nacks), flushed, visited)
      /\ poll_retx_timer' = IF poll_retx_timer = "running" THEN "off" ELSE poll_retx_timer
      /\ UNCHANGED <<moved, vt_s>>

\* Statuses overtake on HARQ as data does.  One whose ack_sn vt_a has passed is late:
\* modulo MOD that SN is ahead of vt_s, and all up to vt_s counts as acknowledged.
Behind(sn) == Base(sn, vt_a) < Base(vt_a', vt_a)
ReceiveStatus(k) ==
  /\ HandleControl(statuses[k])
  /\ statuses' = LET rest == RemoveAt(statuses, k)
                 IN  [j \in DOMAIN rest |-> [rest[j] EXCEPT !.late = @ \/ Behind(rest[j].ack_sn)]]
  /\ misled' = (misled \/ (statuses[k].late /\ vt_a' # vt_a))
  /\ UNCHANGED <<written, air, losses, rxVars>>

-----------------------------------------------------------------------------
(* The receiving side.                                                     *)

\* Bug: duplicates of PDUs delivered are not recognised.
Bug_AnySn(sn) == TRUE

InsideRxWindow(sn) == Base(sn, vr_r) < Window

\* How many SNs from SN on are in the receiving window.
InSequence(window, sn) ==
  CHOOSE n \in 0 .. MOD : /\ \A k \in 0 .. n - 1 : Up(sn, k) \in DOMAIN window
                          /\ Up(sn, n) \notin DOMAIN window

\* The SDUs that end in DATA are delivered, the rest waits in rx_sdu.
Deliver(data) ==
  FoldLeft(LAMBDA rx, unit :
             IF unit \in Ends THEN [sdu |-> << >>, out |-> Append(rx.out, Append(rx.sdu, unit))]
                              ELSE [rx EXCEPT !.sdu = Append(@, unit)],
           [sdu |-> rx_sdu, out |-> delivered], data)

\* A segment of a PDU not seen in this form yet, or the PDU itself, may ask for a
\* status: at once, or when the reordering timer expires.
PolledNow(sn, ms) == Base(sn, vr_r) < Base(ms, vr_r) \/ ~InsideRxWindow(sn)
Higher(sn) == IF Base(sn, vr_r) >= Base(vr_h, vr_r) THEN Up(sn, 1) ELSE vr_h

\* handle_data_pdu, with reassemble_rx_sdus and the reordering timer.
HandleData(sn, data, p, segments, asked) ==
  IF ~InsideRxWindow(sn) \/ sn \in DOMAIN rx_window
  THEN /\ do_status' = (asked \/ p)
       /\ rx_segments' = segments
       /\ UNCHANGED <<vr_r, vr_ms, vr_h, vr_x, rx_window, reordering, poll_received, rx_sdu, delivered>>
  ELSE
    LET window == [s \in DOMAIN rx_window \cup {sn} |-> IF s = sn THEN data ELSE rx_window[s]]
        ms     == Up(vr_ms, InSequence(window, vr_ms))
        n      == InSequence(window, vr_r)
        passed == {Up(vr_r, k) : k \in 0 .. n - 1}
        rx     == Deliver(FlattenSeq([k \in 1 .. n |-> window[Up(vr_r, k - 1)]]))
        edge   == Up(vr_r, n)
        h      == Higher(sn)
        inside == Base(vr_x, edge) < Window
        stays  == reordering /\ vr_x # edge /\ (inside \/ vr_x = Up(edge, Window))
    IN  /\ rx_window' = [s \in DOMAIN window \ passed |-> window[s]]
        /\ rx_segments' = [s \in DOMAIN segments |-> IF s \in passed THEN << >> ELSE segments[s]]
        /\ vr_h' = h
        /\ vr_ms' = ms
        /\ vr_r' = edge
        /\ rx_sdu' = rx.sdu
        /\ delivered' = rx.out
        /\ poll_received' = (poll_received \/ p)
        /\ do_status' = (asked \/ (p /\ PolledNow(sn, ms)))
        /\ reordering' = (stays \/ Base(h, edge) > 0)
        /\ vr_x' = IF ~stays /\ Base(h, edge) > 0 THEN h ELSE vr_x

\* The segment is put at its offset, in place of a shorter one.
Insert(list, seg) ==
  LET same == {k \in DOMAIN list : list[k].so = seg.so}
      less == Cardinality({k \in DOMAIN list : list[k].so < seg.so})
  IN  IF same = {} THEN InsertAt(list, less + 1, seg)
      ELSE [k \in DOMAIN list |->
              IF k \in same /\ Len(seg.data) > Len(list[k].data) THEN seg ELSE list[k]]

\* The walk along the segments: how far they reach without a gap; those that add
\* nothing to it go.
Walk(list) ==
  FoldLeft(LAMBDA w, seg :
             LET end == seg.so + Len(seg.data)
             IN  IF w.gap \/ w.so < seg.so
                 THEN [w EXCEPT !.gap = TRUE, !.list = Append(@, seg)]
                 ELSE IF end <= w.so THEN w
                 ELSE [gap |-> FALSE, so |-> end, list |-> Append(w.list, seg),
                       data |-> w.data \o SubSeq(seg.data, w.so - seg.so + 1, Len(seg.data))],
           [gap |-> FALSE, so |-> 0, list |-> << >>, data |-> << >>], list)

\* handle_data_pdu_segment and add_segment_and_check
HandleSegment(pdu) ==
  LET seg == [so |-> pdu.so, data |-> pdu.data, lsf |-> pdu.lsf]
      put(list) == [s \in DOMAIN rx_segments \cup {pdu.sn} |->
                      IF s = pdu.sn THEN list ELSE rx_segments[s]]
      without   == [s \in DOMAIN rx_segments \ {pdu.sn} |-> rx_segments[s]]
  IN
  CASE ~InsideRxWindow(pdu.sn) ->
         /\ do_status' = (do_status \/ pdu.p)
         /\ UNCHANGED <<vr_r, vr_ms, vr_h, vr_x, rx_window, rx_segments, reordering,
                        poll_received, rx_sdu, delivered>>
    [] InsideRxWindow(pdu.sn) /\ pdu.sn \notin DOMAIN rx_segments ->
         /\ rx_segments' = put(<<seg>>)
         /\ vr_h' = Higher(pdu.sn)
         /\ poll_received' = (poll_received \/ pdu.p)
         /\ do_status' = (do_status \/ (pdu.p /\ PolledNow(pdu.sn, vr_ms)))
         /\ UNCHANGED <<vr_r, vr_ms, vr_x, rx_window, reordering, rx_sdu, delivered>>
    [] OTHER ->
         LET walked == Walk(Insert(rx_segments[pdu.sn], seg))
         IN  IF walked.gap \/ ~Last(walked.list).lsf
             THEN /\ rx_segments' = put(walked.list)
                  /\ do_status' = (do_status \/ pdu.p)
                  /\ UNCHANGED <<vr_r, vr_ms, vr_h, vr_x, rx_window, reordering,
                                 poll_received, rx_sdu, delivered>>
             ELSE HandleData(pdu.sn, walked.data, FALSE, without, do_status \/ pdu.p)

\* write_pdu of the receiving side
ReceivePdu(k) ==
  /\ IF air[k].rf THEN HandleSegment(air[k])
                  ELSE HandleData(air[k].sn, air[k].data, air[k].p, rx_segments, do_status)
  /\ air' = RemoveAt(air, k)
  /\ UNCHANGED <<written, txVars, statuses, losses, misled>>

\* timer_expired of the receiving side
ExpireReordering ==
  /\ reordering
  /\ LET ms == Up(vr_x, InSequence(rx_window, vr_x))
     IN  /\ vr_ms' = ms
         /\ do_status' = (do_status \/ poll_received)
         /\ reordering' = (Base(vr_h, vr_r) > Base(ms, vr_r))
         /\ vr_x' = IF Base(vr_h, vr_r) > Base(ms, vr_r) THEN vr_h ELSE vr_x
  /\ UNCHANGED <<written, txVars, air, statuses, losses, misled, vr_r, vr_h, rx_window, rx_segments,
                 poll_received, rx_sdu, delivered>>

\* Bug: a status that is cut still acknowledges up to vr_ms.
Bug_CutKeepsAck(n) ==
  [nacks |-> {Up(vr_r, k) : k \in 0 .. n - 1} \ DOMAIN rx_window, ack_sn |-> vr_ms, late |-> FALSE]

\* get_status_pdu: a status that is too long ends before a NACK, and then names
\* none if its ack_sn, the last SN received of those it looks at, is not received.
StatusUpTo(n) ==
  LET sns == {Up(vr_r, k) : k \in 0 .. n - 1}
      had == {k \in 0 .. n - 1 : Up(vr_r, k) \in DOMAIN rx_window}
      cut == n < Base(vr_ms, vr_r)
  IN  [nacks |-> IF cut /\ had = {} THEN {} ELSE sns \ DOMAIN rx_window,
       ack_sn |-> IF had = {} THEN vr_r ELSE Up(vr_r, CHOOSE k \in had : \A l \in had : l <= k),
       late |-> FALSE]

\* build_status_pdu and reset_status
BuildStatus(n) ==
  /\ do_status
  /\ Len(statuses) < MaxStatuses
  /\ n < Base(vr_ms, vr_r) => Up(vr_r, n) \notin DOMAIN rx_window
  /\ statuses' = Append(statuses, StatusUpTo(n))
  /\ do_status' = FALSE
  /\ poll_received' = FALSE
  /\ UNCHANGED <<written, txVars, air, losses, misled, vr_r, vr_ms, vr_h, vr_x, rx_window, rx_segments,
                 reordering, rx_sdu, delivered>>

-----------------------------------------------------------------------------
\* MAC gives up a PDU or a status.
Lose ==
  /\ losses < MaxLosses
  /\ losses' = losses + 1
  /\ \/ \E k \in DOMAIN air : air' = RemoveAt(air, k) /\ UNCHANGED statuses
     \/ \E k \in DOMAIN statuses : statuses' = RemoveAt(statuses, k) /\ UNCHANGED air
  /\ UNCHANGED <<written, txVars, misled, rxVars>>

Init ==
  /\ written = 0 /\ moved = 0 /\ vt_a = 0 /\ vt_s = 0
  /\ tx_window = << >> /\ retx_queue = << >> /\ poll_retx_timer = "off"
  /\ air = << >> /\ statuses = << >> /\ losses = 0 /\ misled = FALSE
  /\ vr_r = 0 /\ vr_ms = 0 /\ vr_h = 0 /\ vr_x = 0
  /\ rx_window = << >> /\ rx_segments = << >> /\ reordering = FALSE
  /\ do_status = FALSE /\ poll_received = FALSE
  /\ rx_sdu = << >> /\ delivered = << >>

Next == \/ WriteSdu \/ ExpirePoll \/ ExpireReordering \/ Lose
        \/ \E n \in 0 .. Base(vr_ms, vr_r) : BuildStatus(n)
        \/ \E grant \in Grants : ReadPdu(grant)
        \/ \E k \in DOMAIN air : ReceivePdu(k)
        \/ \E k \in DOMAIN statuses : ReceiveStatus(k)

\* MAC gives opportunities while the buffer is not empty, and not for ever such
\* as are too small for what get_buffer_state asked for; the oldest PDU and
\* status on the air come down or are lost; the timers run out.
PduArrives == air # << >> /\ air' = Tail(air)
StatusArrives == /\ statuses # << >>
                 /\ \E late \in [1 .. Len(statuses) - 1 -> BOOLEAN] :
                      statuses' = [j \in DOMAIN late |-> [statuses[j + 1] EXCEPT !.late = late[j]]]
PollRunsOut == poll_retx_timer = "running" /\ poll_retx_timer' = "expired" /\ Len(retx_queue) <= MaxRetx
Fairness ==
  /\ SF_vars(ReadPdu(Ample)) /\ SF_vars(BuildStatus(Base(vr_ms, vr_r)))
  /\ WF_air(PduArrives) /\ WF_statuses(StatusArrives)
  /\ WF_poll_retx_timer(PollRunsOut) /\ WF_<<reordering, vr_ms>>(ExpireReordering)

Spec == Init /\ [][Next]_vars /\ Fairness

-----------------------------------------------------------------------------
(* Properties.                                                             *)

\* The sender lets go of a PDU only when the receiver has it: no unit that has
\* been put into a PDU is in neither place (handle_control_pdu erases what a
\* status does not name as missing).  The code keeps this, and all that follows,
\* until a status that was overtaken arrives: that one erases what nobody received.
UnitsOf(seqs) == UNION {{s[k] : k \in DOMAIN s} : s \in seqs}
Held == UnitsOf({tx_window[sn] : sn \in DOMAIN tx_window})
Received == UnitsOf({rx_window[sn] : sn \in DOMAIN rx_window} \cup {rx_sdu}
                    \cup {delivered[k] : k \in DOMAIN delivered})
NothingForgotten == misled \/ 1 .. moved \subseteq Held \cup Received

\* SDUs come out whole, in order and once, whatever is lost, overtaken, sent
\* again or cut into segments.
Queue == INSTANCE SduQueue WITH
           Sdus <- [k \in 1 .. Len(SduEnds) |-> Units(EndOf(k - 1) + 1, EndOf(k))]
InSequenceDelivery == Queue!Init /\ [][misled' \/ Queue!Next]_Queue!vars

\* Once the losses end, all that was written is delivered, but for one way of
\* coming to rest, which the code has: handle_control_pdu stops the poll timer on
\* any status, also on one that says nothing of the PDUs outstanding, and clears
\* retx_queue on any that names a PDU as missing; and a retransmission from the end
\* of retx_queue carries no poll.
\* (An expired timer only makes the next PDU carry a poll.)
Quiet == /\ ~HasData /\ tx_window # << >> /\ poll_retx_timer # "running"
         /\ air = << >> /\ statuses = << >> /\ ~do_status
Delivered == Len(delivered) = written
DeliveredOrQuiet == <>[]Delivered \/ <>[]Quiet \/ <>misled
=============================================================================
