# Verification of the SCOPE base station's MAC

This directory holds TLA+ models of the part of SCOPE (colosseum-scope) that decides who
transmits where and when: the downlink scheduler with SCOPE's network slicing, the uplink
scheduler, HARQ in both directions between the base station and a UE, random access, the files
by which SCOPE's API changes slices at run time, SCOPE's policies that share a slice among its
users, and RLC acknowledged mode above the MAC. TLC checks them on small instances; TLAPS
proves the safety properties of both schedulers, of HARQ, of random access, of the slice files,
of the policies and of RLC for every value of the constants (section 4).

Paths below are relative to `src/radio_code/srsLTE/` unless they start with `src/`; file
names without a path are in `srsenb/src/stack/mac/`.

## 1. Inventory

### 1.1 The system

SCOPE is an srsLTE base station (`srsenb`) with run-time control. An API (Python, `src/radio_api`)
writes small text files; the base station rereads them while it runs and changes the
slices' RBGs and scheduling policies, the power of users, and so on.

| part | state | operations | talks to |
|---|---|---|---|
| DL scheduler with slicing (`scheduler_metric.cc`, `scheduler_grid.cc`, `scheduler_carrier.cc`, `scheduler_ue.cc`) | RBG grid of the TTI, allocations, `slicing_structure` (mask, per-TTI copy, policy), users with buffers, slice and counters | `generate_tti_result`, `bc_sched`, `sched_users`, `allocate_user`, `find_allocation(_slicing)`, `generate_sched_results`, `ue_cfg`, `ue_rem`, buffer and ACK reports | HARQ (ask for processes, start them), PDCCH tree, slice files, `ue_resources` |
| DL HARQ (`scheduler_harq.cc`; `srsenb/hdr/phy/phy_ue_db.h` and `lib/src/phy/enb/enb_dl.c` for the feedback; UE: `srsue/src/stack/mac/dl_harq.cc`) | per process: active, ACK state, TTI, NDI, number of retransmissions; pending ACKs with their preset; at the UE: NDI, size, ACK, counter of duplicates | `new_tx`, `new_retx`, `set_ack_info`, `reset_pending_data`; `set_ack_pending`, `send_uci_data`; `new_grant_dl`, `tb_decoded` | scheduler, PHY workers (feedback), the radio |
| Random access (`ra_sched` in `scheduler_carrier.cc`, `alloc_rar` and `new_tti` in `scheduler_grid.cc`) | `pending_rars`, the ring `sf_scheds` with RAR and Msg3 grants | `dl_rach_info`, `dl_sched`, `ul_sched`, `get_sf_sched` | MAC stack task, workers, UL grid |
| PHY workers (`srsenb/src/phy/txrx.cc`, `sf_worker.cc`, `phy_common.cc`) | stage of each TTI in flight, chain of semaphores | decode UL and feedback of a TTI, schedule it, transmit in order | MAC |
| UL scheduler and UL HARQ (`ul_metric_rr`, `ul_harq_proc`, `alloc_phich`; UE: `srsue/src/stack/mac/ul_harq.cc`, `srsue/src/phy/cc_worker.cc`) | PRB grid, one synchronous process per UE and TTI mod 8, pending ACK; at the UE: NDI, size, number of transmissions, feedback | retransmissions first, then new data; PHICH; `new_grant_ul` | Msg3, PDCCH, radio |
| PDCCH tree (`pdcch_grid_t`) | tree of DCI positions per CFI | `alloc_dci` with growth of the CFI | DL and UL allocation |
| Slice files (`srsenb/src/slicing_functions.cc`, writer in `src/radio_api/scope_api.py`) | one text file per tenant, a `flock` | read a line of a mask; write by truncation | scheduler |
| Slice allocation of the API (`scope_api.py`) | masks of all tenants | equal split, grow or shrink one slice | slice files |
| PRB policies (`srsenb/src/prb_allocation_functions.cc`) | none | waterfilling, proportional | scheduler |
| UE registry (`ue_resources`, `ue_imsi_functions.cc`, `srsenb/src/stack/rrc/rrc.cc`) | array of users: IMSI, TMSI, slice | capture, copy on TMSI match, clear | scheduler, PHY, RRC |
| RLC AM (`lib/src/upper/rlc_am_lte.cc`) | windows, retransmission queue, polls, segments, two timers per direction | `write_sdu`, `read_pdu`, `write_pdu`, `timer_expired` | PDCP above, MAC opportunities below |
| Power scaling, metrics, start-up, heuristics | files, processes | numeric or I/O; `heuristic.py` writes slice masks | API |
| srsLTE base: PHY library, RLC UM and TM, PDCP, srsUE, srsEPC | - | - | - |

### 1.2 What is hard

* **Threads.** `nof_phy_threads` workers (3 by default, `main.cc:186`) each handle one TTI.
  They start and transmit in order, but nothing orders their calls into the scheduler, which
  only share `sched_mutex`. The stack thread adds users and preambles late. RRC writes
  `ue_resources` with no lock at all.
* **State that outlives a TTI.** A TB is transmitted with one mask and retransmitted after the
  slice mask was reread; a Msg3 grant is put into the grid of a TTI that is yet to come.
* **Unreliable radio.** DCIs, data and feedback are lost one by one; feedback carries a TTI and
  no process number, and is reported whether or not the UE answered. PDUs and statuses of RLC
  overtake each other on HARQ.
* **Time.** TTIs count modulo 10240; some code compares them with `tti_point`, some as integers.
* **Two books of one resource.** `dl_mask` and `avail_rbg`; the slice mask and its per-TTI copy,
  marked before the grid has accepted the grant.
* **Files.** Read while the writer has truncated them, under a lock the writer does not take;
  several files make one configuration, and their writers are separate programs.
* **Implicit agreement.** An uplink retransmission on the same PRBs has no DCI: two state machines
  stay in step through PHICH, a one-bit NDI and two counters. RLC's windows wrap, and both ends
  must agree on the lap.
* **Word size.** SCOPE's policies subtract unsigned numbers and test the result for `> 0`.

The list with lines is `hazards` in `PROJECT.json`; each entry names the properties that
would catch it, or says why none does.

### 1.3 What makes each part correct

* DL scheduler: no RBG twice; both books agree; new data stays inside the slice; a
  retransmission keeps its size; one grant per user, on a process that may be used; the
  per-TTI mask offers only what is free; retransmissions that fit go before new data.
* HARQ: an acknowledged TB was delivered; none is delivered twice (up to the duplicate
  timeout); feedback reaches the process that sent, and says what the UE answered; every process is
  freed in the end.
* Random access: each preamble is in one pending RAR until it is answered or given up; Msg3
  grants are disjoint, clear of PUCCH and PRACH, and kept; the loop over RARs returns.
* UL: grants are disjoint ranges clear of PUCCH, PRACH and Msg3; retransmissions go before new
  data; UE and scheduler agree on who sends which TB where.
* PDCCH: DCIs at disjoint positions, also after the CFI grows.
* Slice files and allocation: the reader never takes a file that is being rewritten for a mask,
  and catches up with every write; slices stay disjoint; a call gives what was asked for.
* PRB policies: never more PRBs than the slice has; nobody is starved by rounding; the loops end.
* RLC AM: SDUs come out whole, in order, once; nothing is forgotten before it was received;
  everything is delivered in the end.

## 2. Modules

| module | what it is |
|---|---|
| `SlicedDlSched` | one TTI of the downlink scheduler of a carrier, and the calls between TTIs |
| `MCSlicedDlSched` | instances of it: masks, needs, views |
| `SlicedDlSched_proofs` | its inductive invariant and ten theorems |
| `OrderFacts` | lemmas the proofs share: least and greatest elements, ranks of the elements of a finite set, quotients, remainders of what wraps |
| `DlHarq` | eNB HARQ entity, PHY workers and their feedback, radio and UE HARQ entity |
| `TbDelivery` | what a set of HARQ processes promises; `DlHarq` breaks the promise (`harq_ack`) |
| `MCDlHarq` | instances |
| `DlHarq_proofs` | the clock invariant, the matching of feedback, the parity of the NDI, what is delivered and how often |
| `RaSched` | RARs, the ring of `sf_sched`s and Msg3 |
| `MCRaSched` | instances |
| `RaSched_proofs` | preambles and RARs, and the Msg3 of the ring |
| `UlSched` | the uplink of a carrier: `ul_metric_rr`, one UL HARQ process per UE, and the UE's side of it |
| `MCUlSched` | instances, view |
| `UlSched_proofs` | the grid, the NDI's parity, the agreement of UE and scheduler |
| `SliceMasks` | slice mask files: programs that write them, the base station that rereads them |
| `MCSliceMasks` | instances: files, allocations, bits |
| `SliceMasks_proofs` | what the reader may see, what a call takes, calls one after the other |
| `PrbPolicies` | waterfilling and proportional sharing of a slice's PRBs |
| `MCPrbPolicies` | the exponentials of the proportional policy |
| `PrbPolicies_proofs` | sums over users, then the two policies |
| `RlcAm` | one direction of an RLC AM bearer with the channel between its ends |
| `SduQueue` | what an acknowledged bearer promises; `RlcAm` implements it until an overtaken status misleads it |
| `MCRlcAm` | instances: SDU sizes, opportunities, view |
| `RlcAm_proofs` | the numbers behind the SNs, how the stream is cut, the two windows, the refinement of `SduQueue` |

### 2.1 SlicedDlSched

A TTI runs under `sched_mutex`, so its stages are actions of one sequential program (`pc`), and
the calls of other layers happen at `pc = "idle"`.

| action | code |
|---|---|
| `NewTti` | `generate_tti_result`: a cleared `sf_sched`; `sf_dl_mask` may close the downlink |
| `AllocBc`, `AllocRar` | `bc_sched::dl_sched`, `alloc_rar` through `alloc_dl_ctrl` |
| `StartUsers` | `alloc_dl_users` (PRACH reservation of 6-PRB cells) and the head of `sched_users`: refresh of the slices, copy to the TTI masks, random first user. UL users may have raised the CFI before |
| `Visit(u)` | one round of the loop of `sched_users`: slice of the user, policy, `allocate_user` |
| `GenerateResults` | `generate_sched_results`: processes start or resume; some grants come to nothing |
| `Nack`, `Release` | ACK reports, end by `max_retx` or by age |
| `BufferState`, `UeCfg`, `UeRem` | buffer reports, users that come and go |

`allocate_user` is split as its code is: `Pending`, `RetxMask`, `FirstFit` (the same mask, else
`find_allocation` with the same count), `Retransmit`; then `NewMask`, `MarkTaken`, `Transmit`.
`MarkTaken` is applied whether or not the grid then accepts the mask, as the code does.

Abstractions: the PDCCH answers each DCI with "no space", or with space at a CFI that did not
shrink; buffers are the range of RBGs the user needs; a TB is its size in RBGs; PRB policies
give any number of RBGs, or no entry (`std::map::at` throws and the user is left to the next
TTI). With slice -1 (IMSI not captured) past `sched_threshold`, the code reads
`slicing_structure[-1]`: the model takes any policy. Bytes of a mask are 0, 1 or 255 (a mask
whose file was not read). `times_scheduled` stops at `SchedThreshold + 2`, past every test of it.

### 2.2 DlHarq and TbDelivery

One UE and one carrier. `work[t]` is the stage of the worker of TTI t: it reports the feedback of
its TTI (`ReceiveUci`, or `NoUci` if nothing is due), then schedules it (`Schedule`: retransmission of the
oldest pending process, new data in the first empty one, or nothing; then `finish_tti` with
`reset_pending_data`), then ends in order (`EndWorker`). `Reach` is the radio and the UE: the DCI is
missed, or `new_grant_dl` decides between new TB, combination and duplicate. Either way the eNB
awaits an answer (`Expect`, `set_ack_pending`): `air` holds what was sent with what the UE answers, "none" if it
missed the DCI.

What the scheduler is told is not what the UE answered. `set_ack_pending` presets an ACK for each TB
(`srsenb/src/phy/phy_ue_db.cc:437`); `srslte_enb_dl_get_ack` lets the decoded bit replace it only if that bit is an ACK
(`lib/src/phy/enb/enb_dl.c:532`); `send_uci_data` reports each TB that is due, detected or not
(`phy_ue_db.cc:546-558`). So `Decoded` is the bit the decoder found (any bit where the UE sent nothing, or always
if `UciWrong`), `GetAck` applies the preset, and `Gates` is the bit that is tested: the same bit on one carrier,
and with `KeepDrx` that of another TB, since with several carriers lines 543-557 test `ack_value[cc_idx]` and then copy
`ack_value[cc_idx * nof_tb + tb]`. On one carrier, then, every report is an ACK. The errors the decoder's calls may return
(`srsenb/src/phy/cc_worker.cc:386-400`) are left out.

Histories: `got` counts how often the UE delivered the TB of a process, `heard` is the set of sizes in which it was
granted, `told` is what the eNB concluded, `odd` says that the UE heard nothing of an odd number of TBs just before
this one, and `astray` that the last step reported feedback that found no process. `n_rtx` stops at `NofRtx`, past every
test of it.

`TbDelivery` is the abstract specification: a TB is tried, delivered, then acknowledged or
dropped; only a delivered one is acknowledged. `Delivers` states that `DlHarq` implements it
under the mapping `Fate`; it does not (3.1). What it does keep is said by `AckedIsDelivered` (an ACK the UE sent itself
stands for a TB it delivered) and `DeliveredOnce`.

### 2.3 RaSched

The scheduling of a TTI is `BeginTti`, one `RarStep` per round of the loop in
`ra_sched::dl_sched`, and `GenerateResults`; rounds are separate actions so that a loop that does
not return is a behaviour. Any of the TTIs in flight may be scheduled next. `GetSfSched` is the
slot lookup with its `new_tti` when the label differs; labels are not taken modulo the TTI
period, as in the code. `RachDetected(r, late)` is the task of `mac::rach_detected`, up to
`MaxLate` TTIs after the PRACH. `rach` is a history of each preamble. `UeRem` may remove a user
between its RAR and its Msg3.

Abstractions: a TTI has room for up to `MaxRoom` RARs and then lacks RBGs or DCI positions;
an RNTI is reused only when nothing refers to it (the code counts through 65k others).

`Msg3Kept` says exactly when a user that was sent a RAR has its Msg3 grant in the ring: until the Msg3's subframe is
scheduled, but for two cases the code has. One is a subframe that was scheduled before the RAR (`rach` says "late"), the
other one of the next period, whose slot is cleared when it begins. `Msg3Promised` excepts neither, and `ExpiredDiscarded` says what the comment on
discarding says; the code keeps neither of the two (3.1).

### 2.4 UlSched

`get_ul_harq` picks the process by the TTI modulo 8, so the eight processes of a UE share nothing but
its buffer, which is free here. The module follows one process of each UE; a round is one UL
subframe of it, and the next round is 8 TTIs later.

| action | code |
|---|---|
| `StartTti` | `alloc_phich` for all users, Msg3 granted before, then `alloc_ul_users` up to the walk: PRACH and PUCCH reserved |
| `VisitRetx`, `VisitNewTx` | the two walks of `ul_metric_rr::sched_users`, both from the same user on; `allocate_user_retx_prbs` tries the same PRBs, else as many elsewhere |
| `GenerateResults` | `generate_format0` (`new_tx`, `new_retx`) and `finish_tti` |
| `Air` | DCIs and PHICH reach the UE or not; `work_ul` and `new_grant_ul` decide what it sends |
| `UlCrcInfo` | the CRCs of the round: a PUSCH is decoded only if it was sent as the grant says, and may fail then too |

`missed` and `astray` are histories: an odd number of new TBs lost since the UE last heard a DCI; a DCI lost
or a retransmission refused since it last started a TB. `tb` says whose data the UE's buffer
holds. Abstractions: Msg3 of other users takes PRBs before the walk; the PDCCH has room or not;
a TB is its size class; a PHICH that was sent is read as it was sent, and one that was not is
noise; the UE's `current_tx_nb` stops at `MaxTx`, where its only test is; the UE always has a MAC PDU
to send. Only users in `Lossy` miss DCIs.

### 2.5 SliceMasks

Nothing but the file system lies between the API and the base station. A call of the API is a
small program: it reads files one by one (`ReadOwn`, `ReadAll`, `Decide`, `ReadBit`), then writes its
plan, each file in two steps, `OpenFile`, which empties it, and `CloseFile`, when the buffered row arrives.
`Killed` stops it anywhere. `SetSlice`, `SetAllocation`, `SetEqual`, `SetSliceResources` and `Heuristic` start
calls; `Callers` are programs side by side. The reader is `StartUpdate` and one `ReadMask` per open and
read of a file: the recursion of `read_slice_allocation_mask` is a read again for line 0.
`held`, `apart`, `raced` and `cutShort` are histories: what each file has shown all along a call, the
slices the last whole allocation set, whether two calls overlapped, whether one was stopped half-way.

A row is the set of its 1s. 25 digits, `MAX_RBG` 17 and a cell of 13 RBGs are scaled to 5, 4 and 4;
`max_lines` 10 is 2. The reader's `flock` is left out: it waits for the lock, and should it fail (for want of memory or on a signal)
the mask is 255s until the next reading.

What the code does here: growth to the left never takes RBG 0 unless it is
the first one tried, and may take RBG `MAX_RBG` if it is the first one tried to the right. `set_slice`
takes a missing or empty file for a slice without RBGs while it has read no row yet; after that an
empty row raises IndexError and the call ends. A slice that has no RBG cannot grow (`min()` of an empty
list raises). A slice that `passed_slice_allocation` is not told about keeps the mask it had, where its comment
promises an empty allocation. A program stopped between opening and closing a file leaves it
empty, and the base station then calls itself without end; `MasksTakeEffect` excepts that state.

An equal division of the 25 RBGs the API is written for (`rbg_tot` and `rbg_available`,
`src/radio_api/scope_api.py:330-331`) among three tenants fails: each gets 8, tenant 0 one more, and when tenant 2 comes 8
are left, of which its extra one would be the ninth (`free_rbg_list[8]`, line 465). The call ends in an IndexError after the files of
the first two tenants were rewritten, and tenant 2 keeps the mask it had. The comment at 458-460 ("assign one extra
bit to first and last tenants in case num_tenants is 3") takes it that this works. `EqualPlan` stops there as the call does; on
the 5 RBGs of `slice_files` the division works, so no run shows this.

### 2.6 PrbPolicies

Slices have disjoint users and are computed one after the other, so a behaviour is the computation for
one slice: `Visit` is one user in one pass of waterfilling, `EndOfPass` the test after it; `Softmax` is the
first part of the proportional policy and `Extra` one iteration of its second. `Minus` is the unsigned
subtraction (`Word` is 256 for 2^32): a request that goes below zero becomes a huge one, and the user takes
PRBs until the slice is sold out. `WithinSlice` and `WaterLevel` hold even so, since each round is compared with
what is left, and so say nothing of the wrap; `Ends` and `NothingLeftOver` do. Limits of the code that the properties state rather than hide: waterfilling hands out no rest
smaller than `prb_leftover`; the proportional policy gives nobody anything when every floor is 0.

### 2.7 RlcAm and SduQueue

One direction of a bearer: the `tx` half of one entity, the `rx` half of its peer, and the channel.
SDUs and PDUs are counted in units of payload, and the units of the whole stream are numbered, so that any
loss, repetition or mixture is visible; headers (`fi`, `li`) are replaced by the units that end an SDU.

| action | code |
|---|---|
| `WriteSdu` | `write_sdu` |
| `ReadPdu(grant)` | `read_pdu` in an opportunity of this size: retransmission (whole or as a segment), else new data |
| `ExpirePoll`, `ExpireReordering` | `timer_expired` of the two sides, at any time while the timer runs |
| `ReceivePdu(k)` | `write_pdu` of the k-th PDU on the air (HARQ may let PDUs overtake): `handle_data_pdu`, `handle_data_pdu_segment`, `add_segment_and_check`, reassembly |
| `BuildStatus(n)` | `get_status_pdu` cut after n SNs, or whole, and `reset_status` |
| `ReceiveStatus(k)` | `handle_control_pdu` of the k-th status on the air: statuses overtake each other too |
| `Lose` | MAC gives up a PDU or a status |

A status that was overtaken may acknowledge an SN that `vt_a` has passed (`late`). Modulo the number of SNs that is ahead of
`vt_s`, so the loop of `handle_control_pdu` (`rlc_am_lte.cc:960`) counts every SN up to `vt_s` as acknowledged and erases it, received
or not (1011-1020); SRBs have a `t_status_prohibit` of 0, so two statuses may well be on HARQ together. The history `misled` is true from
the arrival of such a status that erased something on: PDUs are lost for good then, and the windows of the two ends may come
apart by a lap.

`SduQueue` is the abstract specification: what was written comes out in order and once.
`InSequenceDelivery` states that `RlcAm` implements it until `misled`, and `NothingForgotten` and `DeliveredOrQuiet` say what they say
until then. So they show that a status which arrives late is, beside the one step beyond the window of `rlc_full`, the only
way to lose data or order, whatever else is lost, overtaken, repeated, segmented or cut.

Abstractions: `t_status_prohibit` only delays a status, as a missing opportunity does; a PDU
reaches the receiver or is lost before the window has moved past it;
`max_retx_attempted` of the base station is empty, so `retx_count` is left out. The thresholds `poll_pdu`
and `poll_byte` may or may not be reached (`Early`); in the runs they are not, which leaves the polls that
progress depends on. `configure`, `stop`, `reestablish` and the buffer state are not modelled.

What the code does here, and the properties allow: any status stops the poll timer, also one that says
nothing of the PDUs outstanding; a NACK clears `retx_queue`; a PDU retransmitted from the end of the queue
carries no poll, since its entry is still there when `poll_required` looks. Together they let the sender
come to rest with unacknowledged PDUs (`Quiet`), until the next SDU is written. `build_segment` arms the poll
timer before it finds that no segment fits. A NACK of `ack_sn` itself is ignored.

## 3. Checks

| run | instance | result |
|---|---|---|
| `slicing` | 3 RBGs, 2 users with or without a slice, 2 processes, 2 tenants with masks that swap, both branches of the policies, DCI may fail, CFI 1..2, the PRACH reservation of 6-PRB cells | types, exclusive grid, both books, HARQ respected, new data in its slice, per-TTI mask sound, the PRACH's subframe free, sizes kept without a slice mask, retransmissions that fit first |
| `harq` | 2 processes, 2 workers, period 16, DCIs missed, answers misread and reported anyhow, sizes that change | what the UE acknowledged it delivered; no TB delivered twice but for named reasons; feedback reaches its sender; every process is freed |
| `rar` | 2 RNTIs, 3 workers, RAR windows clear of the wrap, both shortages, an MBSFN subframe | no preamble lost or repeated, Msg3 disjoint and kept but in the two cases named, RARs end |
| `uplink` | 6 PRBs, PUCCH at both ends, PRACH, a Msg3, 2 users, 2 transmissions, one user misses DCIs, DCI may fail | all hold |
| `slice_files` | 3 slices, 5 RBGs, 2 programs, 2 calls of any kind, two sets of initial files, programs may be stopped | all hold, liveness included |
| `policies` | 3 users, requests up to 8, slices up to 9, a cell of every class of sizes | all hold, termination included |
| `rlc` | window 2 (4 SNs), 3 SDUs of which one may need two PDUs, opportunities of 1 or 2 units, a loss, 2 statuses on the air, overtaking of PDUs and statuses | until `misled`: refinement of `SduQueue`, nothing forgotten, delivery or the rest described in 2.7 |
| `retx_size` | the slicing instance with one process | violated |
| `harq_ack` | one size, no missed DCI, no misread bit | violated |
| `rar_msg3` | 1 RNTI, 3 workers | violated |
| `rar_wrap` | 1 RNTI, a PRACH whose window ends past the wrap | violated |
| `rlc_full` | as `rlc`, with an SDU that may fill the window with its first half | violated |

**Bounds and why they are enough.** Slicing: 3 RBGs (6 in the smallest cell, to which the PRACH reservation belongs) leave one for control and one or two per tenant,
so that collisions, partial fits and the skipped RBG all happen; two users are the least that
compete and wrap the walk; `Left` and `Right` are disjoint masks, and rereading them at any TTI
gives every relation between the mask of a TB and the mask of its slice. A user has two HARQ processes, the least for which
one pends and another takes new data; the constraint `Bounds` of `MCSlicedDlSched` keeps the second empty while another user is
there, and in TTIs with control, so that `RetxFirst` is checked with one user and the rest with both. `SchedThreshold = 0`
puts users past the threshold at once; the walk before it serves a user as policy 0 does (`ServeDefault`). A user may stay without
a slice (-1) for any number of TTIs, and then goes the way every user goes with slicing off.
HARQ: the period of 16 stands for 10240 and wraps in every
behaviour; ages and delays are shortened in proportion (`OldAge >= Rtt`,
`OldAge + 2 * Workers < TtiMod / 2`, as for the real values 100, 8 and 10240); two processes
make feedback of one meet the other; two workers are the least that overtake. `DupTimeout = 1`
(6 in the code) lets the UE reach its duplicate timeout. `harq` has every outcome of the radio and the decoder. Its
constraint `Bounds` takes it in two parts: process 0 alone with two sizes and all that the UE may do, for what is delivered;
and once process 1 is used, one size and a UE that hears and decodes everything, for which feedback finds which
process. The processes of the UE share nothing, and the decoder may report any bit whatever the UE answers, so the eNB's
side has all of its behaviours in both parts. RAR: three workers, the default; a ring of 5 for 10,
a window that ends 2 TTIs after it began; the real delay of two TTIs between a RAR and its Msg3, so that the third TTI in flight is that of the Msg3 of the
first. The windows of its PRACHs (at 1 and 2 of a period of 10) end before the wrap, which `rar_wrap` is
about; the last RAR of a window has its Msg3 in the next period.
Uplink: with PUCCH at both ends of 6 PRBs and PRACH or Msg3 in the middle there are runs of one, two and four
PRBs, so that a grant of two fits, is cut or collides; `MaxTx = 2` (5 in the code) ends a TB after one
retransmission, so that every counter is reached; a user that misses DCIs beside one that does not
keeps the comparison. Slice files: three slices are the least for which an equal division treats the first
and the last apart, and for a union of rows to matter; two programs are the least that race, and two calls (`MaxCalls`)
let one follow or meet another. Policies: three users and passes from any of them; requests beyond the slice and
below it; `Word = 256` is more than any sum, as 2^32 is. RLC: a window of 2 over 4 SNs is the
512 of 1024, so each behaviour passes the window and wraps the SNs; one loss suffices for every retransmission,
poll and reordering path to be taken (`MaxLosses = 1`), and expired timers add retransmissions that nothing lost
made necessary (`MaxRetx` bounds the queue at which the timer may expire). Two statuses on the air (`MaxStatuses`) are the least
that overtake; the run comes to `misled` with and without a loss.

**Views.** The cfgs give a `VIEW` that leaves out what no later step reads before it is overwritten:
the grid between two TTIs, masks and policies before a walk (which starts with any), which of two users is which
(the walk goes round, from any of them on), the size of
a TB where no property reads it, the UE's NDI beyond its
agreement with the eNB, the UE of `harq` once process 1 is used (see Bounds), the slots of TTIs that are over, the values of an UL process that is empty, `vr_x` while
the reordering timer is off, all of `RlcAm` once it is `misled`. Histories a property reads stay in. `harq_ack`, `rar_msg3`, `rar_wrap`,
`slice_files` and `policies` use no view.

**Fairness.** `DlHarq!FairSpec` is weak fairness of `Next`: the radio delivers samples for one TTI
after another and a worker that was started comes to its end. Nothing is assumed of the radio:
`TbEnds` holds whatever is lost, once no worker overtakes the one that brings the feedback of a process any more. `RaSched!FairSpec` is weak fairness of the
workers only (`Sched`); preambles and removals need not come. `RarEnds` is stated for behaviours in which the
loop returns, since it need not (3.2). `SliceMasks!Spec` is weak fairness of each call that was begun
(`Continue`; it may still be stopped) and of the base station's updates, which run in every TTI as long as a user is
attached. `PrbPolicies!Spec` is weak fairness of `Next`: the computation runs inside one call.
`RlcAm!Fairness` is strong fairness of an ample opportunity (`ReadPdu(Ample)`) and of a status that
fits whole, because MAC sizes its grants by what `get_buffer_state` asks for and gives some again and again; weak fairness
of the arrival or loss of the oldest PDU and status, and of both timers. Losses are not fair: `MaxLosses` ends
them. `SlicedDlSched` and `UlSched` have safety properties and no fairness. `rlc`, `rlc_full`, `slice_files` and `policies`
do not check deadlock: all SDUs written and delivered, all calls made or stopped and the
computation done are ends.

### 3.1 What the violated runs show

1. `retx_size`: with slicing on, a retransmission takes the whole slice mask
   (`scheduler_metric.cc:398-400`), whatever the size of its TB; the comment at 420 asks for the
   same number of RBGs.
2. `harq_ack`: a NACK, or no answer, reaches the scheduler as an ACK (2.2), and a TB the UE did not deliver is counted as
   acknowledged. The declaration of `send_uci_data` says that it "Sends the decoded Uplink Control Information"
   (`srsenb/hdr/phy/phy_ue_db.h:336`), and the PHY's own test asserts that the ACK it reads is the one that was sent
   (`srsenb/test/phy/enb_phy_test.cc:692`). What it means: on one carrier the first transmission of a TB is the only one, and
   RLC has to make up for the rest.
3. `rar_msg3`: `ra_sched::ul_sched` puts a Msg3 into the subframe two TTIs on (`scheduler_carrier.cc:242`, 339) without a look at
   whether that was scheduled already. Workers come to the scheduler in any order (`worker_end`, `srsenb/src/phy/phy_common.cc:133`,
   puts only their transmissions in sequence) and there are three by default (`srsenb/src/main.cc:186`), so it may have been: the
   RAR then promises a Msg3 for which there is no grant. The scheduler's test asks for the Msg3
   (`srsenb/test/mac/scheduler_test_common.cc:429`), and calls the scheduler in the order of TTIs only.
4. `rar_wrap`: the end of the RAR window is not taken modulo 10240 (`scheduler_carrier.cc:158`): a window that runs past the
   wrap has an end that no TTI reaches, so a RAR that was not served in it stays at the front of the queue, and blocks those behind it,
   until its window comes again a period later. The comment at 144-145 says that it is discarded.
5. `rlc_full`: a full window stops new PDUs only between two SDUs (`lib/src/upper/rlc_am_lte.cc:779`); the PDU
   beyond it lets the receiver's window reach the next lap, where a retransmission is taken for new data.

### 3.2 Behaviours of the code that the models show and no run is about

These were met while modelling; changing the constants as said shows each of them.

* The fallback of a retransmission (`scheduler_metric.cc:422`) looks for RBGs in the whole cell: it leaves the
  slice of its user, where the repository's `README.md:101` calls an RBG with a 0 not permitted. `NewDataInSlice` is
  therefore about new data only.
* `find_allocation_slicing` skips RBGs for control by the number of control symbols
  (`scheduler_metric.cc:317`), and none at CFI 1, wherever control is; the grid then refuses the grant.
* A worker may overtake the one that brings the feedback of a process already retransmitted once; the
  process is sent again, its TTI moves, and the feedback finds no process (`scheduler_harq.cc:206`).
  `FirstRetxAnswered` is about the retransmission before that.
* A RAR without a DCI position is tried again for ever under `sched_mutex` (`scheduler_carrier.cc:181-183`): `RaSched`'s
  loop (`RarStep`) does not return once `Shortages` contains "DCI", and `RarEnds` excepts it.
* The TTI of a Msg3 is not taken modulo 10240 (`scheduler_carrier.cc:339`). After a RAR of TTI 10238 or 10239 the slot
  of its Msg3 has a label past the period; TTI 0 or 1 takes it for an old one, and `new_tti` clears it. `Msg3Kept` names these
  Msg3 as one of its two cases; with `PrachTtis = {12}` and two workers `rar_msg3` is violated by them.
* With a RAR window past the wrap (`rar_wrap`) `RarEnds` fails too: the preamble waits for the window of the next period, and
  that may be missed again. The `rar` run has its PRACHs away from the wrap.
* An overtaken status makes the sender of RLC AM forget PDUs nobody received (2.7). No comment or test of the code speaks of statuses
  out of order, so no run reports it; the properties of `rlc` end at `misled`, and without that exception TLC finds
  `NothingForgotten` violated after eleven steps with no PDU lost.
* An equal division of 25 RBGs among three tenants ends in an IndexError (2.5).
* A retransmission the scheduler has no PRBs for is still sent by the UE, which heard a NACK on the PHICH. No CRC is
  reported for it, so no PHICH answers it, and the UE goes on by the noise it reads there
  (`srsue/src/stack/mac/ul_harq.cc:346`). `GrantObeyed` excepts a TB to which this happened (`astray`).

Each passing property has a mutant, a plausible slip in a mapped definition (`Bug_...`), that
violates it.

## 4. Proofs

TLAPS checks every theorem below for every value of the constants that satisfies the named assumptions of
the module it is about. The assumptions are what the code is configured with: finite sets of users,
processes and RNTIs, a cell of at least one RBG or PRB, and these relations.

| assumption | relation, and why the code has it |
|---|---|
| `GridAssumption`, `UserAssumption`, `ConfigAssumption` | CFIs in 1..3, mask bytes 0, 1 or 255, tenant 0 among the slices |
| `HarqAssumption` | `OldAge + 2 * Workers < TtiMod / 2` (100 ms, at most 4 workers, 10240), a worker ends within a round trip of 8 ms, a process is not old before its answer is due |
| `TtiAssumption`, `PrbAssumption` | the ring divides the TTI period (10 and 10240) and, with the delay of a Msg3, is far shorter than it; TTIs in flight (at most 4) and Msg3 ahead (2) fit in the ring |
| `CellAssumption`, `UlAssumption` | PUCCH at both edges fits in the cell; the PRACH is inside it, which `cell_cfg` checks (`scheduler.cc:82-90`) |
| `BoundsAssumption`, `FilesAssumption`, `InputsAssumption` | calls name slices that have a file, and a dictionary has each slice once |
| `SizesAssumption` | a word holds twice the PRBs of a cell (2^32 and 100) |
| `RlcAssumption` | a window of half the SNs (512 and 1024), SDUs that are not empty, a segment no larger than a PDU; any number of PDUs, statuses and losses |

### 4.1 What is proved

| module | theorem | says |
|---|---|---|
| `SlicedDlSched_proofs` | `Inductive` | `IInv` holds in every reachable state |
| | `TypeCorrect` | `[]TypeOK` |
| | `ExclusiveGrid`, `GridBooks` | `[]GridExclusive`, `[]GridAccounts` |
| | `SliceIsolation`, `TtiMasks` | `[]NewDataInSlice`, `[]TtiMaskSound` |
| | `HarqRespected`, `PrachFree` | `[]GrantsMatchHarq`, `[]PrachKeptFree` |
| | `RetxSize`, `RetxBeforeNewData` | `[]UnslicedKeepsSize`, `RetxFirst` |
| `DlHarq_proofs` | `Timely` | `Times`: how far apart the TTIs of processes, feedback and workers are |
| | `TypeCorrect`, `FeedbackMatched` | `[]TypeOK`, `FeedbackToSender` |
| | `AckedDelivered`, `DeliveredOnceOnly` | `AckedIsDelivered`, `DeliveredOnce`, if `MaxRetx # 0` |
| | `FirstAnswered` | `FirstRetxAnswered`, if `MaxRetx # 0` |
| `RaSched_proofs` | `TypeCorrect`, `GrantsConserved`, `Msg3Disjoint` | `[]TypeOK`, `[]Conserved`, `[]Msg3Exclusive` |
| | `Msg3Granted` | `[]Msg3Kept` |
| `UlSched_proofs` | `TypeCorrect`, `Exclusive`, `RetxFirst` | `[]TypeOK`, `[]UlExclusive`, `[]RetxBeforeNew` |
| | `NewDataHeard`, `Obeyed` | `NewDataTaken`, `[]GrantObeyed` |
| `SliceMasks_proofs` | `TypeCorrect`, `MasksNeverTorn` | `[]TypeOK`, `NeverTorn` |
| | `NothingHeldTaken`, `SizesRight` | `TakesNothingHeld`, `SizesAsAsked` |
| | `CallsKeepApart` | `[]QuietDisjoint`, if `InputsApart` |
| `PrbPolicies_proofs` | `TypeCorrect`, `SliceNotExceeded` | `[]TypeOK`, `[]WithinSlice` |
| | `LevelKept`, `NothingWasted` | `[]WaterLevel`, `[]NothingLeftOver` |
| `RlcAm_proofs` | `SenderKeepsMissing` | `[]NothingForgotten`, if `Segmentable` |
| | `ImplementsQueue` | `InSequenceDelivery`, the refinement of `SduQueue` until `misled`, if `Segmentable` |

**Hypotheses.** They are about constants, and the run of the same property meets them:

* `MaxRetx # 0` (`AckedDelivered`, `DeliveredOnceOnly`, `FirstAnswered`): RRC configures 1 to 28 transmissions. With 0,
  `reset_pending_data` frees a process at the end of every TTI, while its feedback is still to come, and the feedback may then meet the
  next TB.
* `InputsApart`: the initial files and the ranges of each allocation given to `set_slice_allocation` do not overlap, and
  the equal division of each number of tenants stays in the row. The first two are the caller's; the third is arithmetic
  on `NofRbgs`, and false for three tenants on 25 RBGs (2.5).
* `Segmentable` (`SenderKeepsMissing`, `ImplementsQueue`): a grant that carries a PDU carries at least one unit of a segment too.
  Without it `build_segment` sends nothing, `read_pdu` goes on to new data although the window is full, and `rlc_full` (3.1) is the
  counterexample. So the theorems say that such a grant is, beside an overtaken status, the only way to lose order: it is the guard at
  `rlc_am_lte.cc:779`, which does not look at the window in the middle of an SDU, that needs a retransmission to come first.

The other theorems have no hypothesis. What the properties except, they say themselves: `AckedIsDelivered` and `DeliveredOnce` a TB
before which the UE heard nothing of an odd number of TBs (`odd`), since the one-bit NDI cannot tell; `DeliveredOnce`
also the UE's duplicate timeout and a TB granted in several sizes; `Msg3Kept` the two cases of 2.3.

### 4.2 How

**SlicedDlSched.** `IInv` joins `GridInv`, `UserType`, `WalkOrder`, `TtiWithin`, `TtiClear`, `NewDataInSlice`, `GrantsMatchHarq`
and `PrachKeptFree`. None of the properties is inductive alone. A grant is checked against `dl_mask` only, so exclusivity needs that
`dl_mask` contains all that was granted, and the position of a control allocation needs the count. `WalkOrder` says that
no data is granted before the walk and none to a user still to be visited: with it "one grant per user" survives `Visit`, and
the PRACH reservation and the refresh of the slices happen while there is no data. `TtiWithin` and `TtiClear` say what the
per-TTI mask offers: `find_allocation_slicing` reads that copy, so `NewDataInSlice` needs it. `SizesHeld` (a
process has as many RBGs as its TB, for a user without a slice mask) carries `RetxSize`; `RetxBeforeNewData` needs no invariant but types:
new data takes an empty process, and a visit starts it only if a pending retransmission found no room.

**DlHarq.** Everything rests on `Times`: an active process was sent in a TTI that was scheduled, and not more than `OldAge`
before any scheduling that is over; feedback in the air is at most a round trip old. So differences modulo the period (lemma `AddCases`)
have one meaning, and the feedback of a TTI finds the process that sent in it and no other (`OnePerTti`). What the report says is
anything, so nothing below may rest on it: it is the UE that decides. `UeKnows` relates the UE's NDI to the process's by what
the UE heard since: the last TB it heard of is the present one, or an even or an odd number of TBs went by (`odd`); and what it
acknowledges it has delivered. `AckMeansGot` says the same of an ACK in the air, which gives `AckedDelivered`. `UeCounts` adds that the UE's
duplicate counter is at most the eNB's count of retransmissions, and that it forgets a TB it has delivered only at the duplicate
timeout, as long as it was granted in one size (`DeliveredOnceOnly`). `AirHeld` (for `FirstAnswered`): feedback in the air is that
of the last transmission of its process or of one that a later retransmission has overtaken by a round trip.

**RaSched.** `Types` and `Queue`: the pending RARs hold exactly the preambles that wait, each once, and `RarStep` takes
a prefix off the first RAR. `Ring`: a TTI that has begun and is in flight owns its slot of `sf_scheds` (`Bound`); the RARs of a slot promise
PRBs one behind the other up to its counter (`RarsIn`); the Msg3 of a slot are the promises of one TTI, served at most
`RingSize + Msg3Delay` TTIs ago (`Msg3s`). Two TTIs in flight never share a slot, since the ring divides the period; but a Msg3 past the
period may put its label on the slot of the TTI it is for (`Labels`), so exclusivity is proved across the wrap, where keeping fails.
`Promised` is for `Msg3Granted`: a slot whose results are generated belongs to a TTI that is over or in flight
and scheduled (`Generated`), a Msg3 that is to come is of a TTI not yet scheduled, at most `Msg3Delay` TTIs ahead of those in flight
(`DueAhead`), and it is in the slot with the label of that TTI, the one past the period included (`Label3`), or among the RARs of the TTI
that is being scheduled (`Kept`). So the grant can be lost only when its TTI begins and the label is past the period (`Gone`).

**UlSched.** `Core` is types, the grid (`ul_mask` is what is reserved or granted; during the walk of the
retransmissions, retransmissions only), grants that match their process, and processes that have transmissions left. `Parity` relates
the UE's NDI to the process's and to `missed`; `Agreed` relates what the UE's buffer, size and counter say to the
process, as long as `astray` is false.

**SliceMasks.** `Types` ties the program counter of a call to what it has read. `Held`: what the files read so far have
shown all along the call is in the union it has joined. `SizesRight` counts the RBGs that a search reaches, with the rank lemmas of `OrderFacts` (the n first
elements of a finite set of integers are n). `Quiet`: while calls neither overlapped nor were cut short, the files not yet
written of the only call in progress show what they did at its start, so that its plan is still right when it is carried out.

**PrbPolicies.** `nof_allocated` is a sum over users, a fold in the model, and a fold picks the users in an order nobody knows. `FromSubsets` (a statement true of a set whenever
it is true of its strict subsets is true of every part of a finite set) is proved from a counterexample of least
cardinality; from it, that the fold exists and that a user may be taken out of a sum anywhere (`PartSplits`). That
takes the place of the induction theorems. `Levels` gives the water level in the middle of a pass, over the users already seen; `Owed` bounds what
the requests leave before they wrap below zero.

**RlcAm.** No variable of the program says how often the SNs have wrapped, so the invariant `RlcInv` says that
there are numbers that do: `a <= r <= s <= a + Window`, of which `vt_a`, `vr_r` and `vt_s` are the remainders
(`Edges`), and a sequence `b` of cuts, PDU i being the units after `b[i]` up to `b[i + 1]` (`Cut`). The sending
window holds the PDUs from a up to s, each with its data (`TxOk`); what is on the air is one of the last
`Window` PDUs or a part of one (`AirOk`); the receiver holds PDUs and segments from r on only, and has put
together exactly the units up to `b[r]` (`RxOk`). A status that is not late acknowledges up to a PDU e from a to s, and every PDU from r
up to e is named as missing in it or has arrived since (`StatusOk`): that stays true when r moves, and when a does, e is either ahead of a
or the status is late. PDU r itself has not arrived, so it
is named as missing and a status moves a no further than r: what `handle_control_pdu` erases has been received, which is
`NothingForgotten`; and since an SN has one number among the last `Window` PDUs (`OnePdu`), what
arrives is stored under the number it was sent with, which is order. That s stays below `a + Window` is where
the hypothesis enters: if the window is full, every entry of `retx_queue` is a PDU outstanding (`Retxs`), and
the retransmission goes before new data (`FullRetransmits`). The segments of a PDU are followed through
`add_segment_and_check` as a fold with an invariant (`WalkFacts`): the data collected has no gap and is what the
PDU carries at these offsets. `FoldExists` and `FoldReaches` give the value and the invariants of `FoldLeft`;
they are proved for sequences of any length, over a set of values. An invariant with numbers that are hidden
cannot be evaluated; before the proof TLC checked its parts in an instance of the `rlc` run that keeps a, r, s
and b in history variables. The model needs one restriction for this: a PDU is delivered or lost before a
window of new PDUs has followed it (`BuildData`, from 2.7).

### 4.3 Only model-checked

* Liveness: `TbEnds`, `RarEnds`, `MasksTakeEffect`, `Ends`, `DeliveredOrQuiet`. The prover has no rules for fairness and `ENABLED`.
* `DeliveredOrQuiet` is the one property of `RlcAm` of this kind; every other property of a passing run is a theorem.
* What the operators of `RlcAm` compute, beyond what the invariant says of them (which polls are asked for, `vr_h`, `vr_ms` and `vr_x`, which SNs a status
  lists after the first): the runs exercise them, and no safety property depends on them.

## 5. Not modelled

* The PDCCH tree: the scheduler modules take both answers of `alloc_dci`. The UE registry and the life cycle of
  users (`ue_cfg`, `ue_rem`, `reset`) against workers: their races are on memory, so a model needs the steps of every
  access; the scheduler modules leave free what a race could change in between TTIs, as far as 2.1 says.
* Uplink: Msg3 with the temporary C-RNTI at the UE, UCI on PUSCH, a CRC that is reported after the next
  round of the process. No liveness of the uplink is stated: nothing bounds how often the PDCCH refuses.
* Slice files: the files of scheduling policies, UE assignment and power, which have the same
  reader, and the start-up script's own copy of the writer.
* RLC AM: establishment and reestablishment, the race between `write_pdu` and `get_status_pdu`
  (`rlc_am_lte.cc:1588`), header encoding. RLC UM and TM, PDCP and the rest of srsLTE are the base the system stands on.
* Carrier aggregation (several carriers per user), two TBs per process (MIMO) and semi-static
  details of DCI formats multiply state without new control.
* Power scaling and metrics are arithmetic and I/O; the start-up scripts start processes and read logs. Of the heuristics only
  what they write to the slice masks is modelled.

The share of the repository's lines that the models translate stays small, because most of its
lines are generated ASN.1 code, the PHY library and the core network; the models cover SCOPE's own control and
the MAC and RLC code it acts through.

## 6. Plan

Done: `SlicedDlSched` with its proofs, because the slices are what SCOPE adds; the protocols around it, `DlHarq`,
`RaSched` and `UlSched`; SCOPE's run-time configuration and policies, `SliceMasks` and `PrbPolicies`; the bearer above, `RlcAm`. Left:

| step | module | content, runs and bounds |
|---|---|---|
| 1 | `PdcchGrid` | `pdcch_grid_t::alloc_dci`: positions disjoint after the CFI grows; implements the "no space or a CFI that did not shrink" that the schedulers assume (a refinement) |
| 2 | `SchedLife` | `cell_cfg`, `ue_cfg`, `ue_rem`, `reset` against workers; `configured` read outside the lock; users that queued grants point to |
| 3 | `UeRegistry` | capture and copy of `ue_resources` without a lock |

Proofs left: the refinement of `PdcchGrid` once it is modelled.
