----------------------------- MODULE SliceMasks -----------------------------
(***************************************************************************)
(* The slice allocation masks of SCOPE: one text file per slice, written   *)
(* by Python programs (the API, the heuristics, the start-up script) and   *)
(* read four times a second by the eNB's downlink scheduler.               *)
(*                                                                         *)
(* Nothing but the file system lies between the two sides.  A writer opens *)
(* the file, which empties it, and its one row arrives when it is closed;  *)
(* the lock the reader takes is taken by no writer.  A program that needs  *)
(* several files reads or writes them one after the other.  Writers may    *)
(* run side by side and may be stopped at any point.                       *)
(*                                                                         *)
(* A row is the set of the RBGs it has a 1 for.                            *)
(*                                                                         *)
(* Left out: the reader's flock waits for the lock and may fail only for   *)
(* want of memory or on a signal; the mask is then 255s (Off) until the    *)
(* next reading, a quarter of a second later.                              *)
(***************************************************************************)
EXTENDS Integers, Sequences, FiniteSets, FiniteSetsExt

CONSTANTS
    NofSlices,     \* SLICE_NUM: the slices that have a file
    NofRbgs,       \* rbg_tot and rbg_available: the digits of a row
    MaxRbg,        \* MAX_RBG of the API
    CellRbgs,      \* cell_rbgs: the digits the eNB uses
    MaxLines,      \* max_lines of the eNB
    Callers,       \* programs that use the API
    MaxCalls,      \* bound on the number of calls, of all of them
    Wants,         \* RBG counts asked of set_slice
    TenantNums,    \* numbers of tenants of an equal division
    Allocs,        \* slice_allocation values: sequences of <<slice, lo, hi>>
    Bits,          \* <<slice, RBG>> pairs the heuristic switches
    Rows,          \* <<slice, row>> pairs passed to set_slice_resources
    InitFiles,     \* the files at the start
    Missing,       \* there is no file
    Empty,         \* the file is open for writing and has no row yet
    Off            \* a slice_mask of 255s: the slice is not active

Slices == 0 .. NofSlices - 1
Rbgs   == 0 .. NofRbgs - 1
Mask   == SUBSET Rbgs

ASSUME BoundsAssumption ==
    /\ NofSlices \in Nat \ {0} /\ NofRbgs \in Nat \ {0} /\ MaxRbg \in 1 .. NofRbgs
    /\ CellRbgs \in 1 .. NofRbgs /\ MaxLines \in Nat \ {0} /\ MaxCalls \in Nat
ASSUME FilesAssumption ==
    /\ InitFiles \subseteq [Slices -> {Missing} \cup Mask]
    /\ Missing # Empty
    /\ \A m \in Mask : m \notin {Missing, Empty, Off}
\* The inputs are about slices that have a file.  A slice_allocation is a
\* dictionary, and an empty one asks for an equal division.
ASSUME InputsAssumption ==
    /\ Wants \subseteq Nat /\ TenantNums \subseteq 1 .. NofSlices
    /\ Bits \subseteq Slices \X Rbgs /\ Rows \subseteq Slices \X Mask
    /\ \A alloc \in Allocs :
          /\ alloc \in Seq(Slices \X Nat \X Nat) /\ alloc # <<>>
          /\ \A i, j \in DOMAIN alloc : i # j => alloc[i][1] # alloc[j][1]

VARIABLES
    file,       \* what the file of each slice holds
    call,       \* what each program is doing
    calls,      \* how many calls were made
    enb,        \* the update of the masks in dl_metric_rr::sched_users
    lineNo,     \* slicing_line_no
    slicing,    \* slicing_structure: the masks in force at the eNB
    apart,      \* history: the slices the last whole allocation set
    raced,      \* history: two calls overlapped in time
    cutShort,   \* history: a whole allocation was stopped half-way
    held        \* history: per call, the RBGs each file has shown all along

vars == <<file, call, calls, enb, lineNo, slicing, apart, raced, cutShort, held>>
history == <<apart, raced, cutShort>>
reader  == <<enb, lineNo, slicing>>

-----------------------------------------------------------------------------
(* Rows and plans. *)

HasRow(content) == content \notin {Missing, Empty}
\* read_slice_mask: no file and an empty file both give an empty string.
RbgsOf(content) == IF HasRow(content) THEN content ELSE {}

\* Bug: The scan to the right ends one RBG early.
Bug_RightShort(lo) == {lo + 1} \cup (lo + 1 .. MaxRbg - 2)

\* The order in which write_slice_allocation_relative tries RBGs for a slice
\* whose lowest one is lo: to the right up to MaxRbg, then to the left.  The
\* bound is tested after an RBG was tried, so the first one of each direction
\* is tried whatever it is, and RBG 0 only if it is such a first one.
RightOf(lo) == {lo + 1} \cup (lo + 1 .. MaxRbg - 1)
LeftOf(lo)  == ({lo - 1} \cup (1 .. lo - 1)) \cap Nat
Sooner(lo, a, b) == CASE a > lo /\ b > lo -> a < b
                      [] a < lo /\ b < lo -> a > b
                      [] OTHER            -> a > lo

Grow(own, free, want) ==
    LET lo    == Min(own)
        cand  == IF \A r \in free : r >= MaxRbg
                 THEN {} ELSE (free \ own) \cap (RightOf(lo) \cup LeftOf(lo))
        taken == {r \in cand : Cardinality({q \in cand : Sooner(lo, q, r)})
                                 < want - Cardinality(own)}
    IN own \cup taken

\* The highest RBGs go first.
Shrink(own, want) ==
    {r \in own : Cardinality({q \in own : q < r}) < want}

Resize(own, free, want) ==
    IF Cardinality(own) < want THEN Grow(own, free, want) ELSE Shrink(own, want)

\* A plan lists the files a call writes, in order.  `optional' marks a row
\* that is not written over an existing file.
Entry(s, row, optional) == [slice |-> s, row |-> row, optional |-> optional]

\* passed_slice_allocation: the slices of the dictionary, then those it leaves
\* out, from the lowest, with no RBG.
Named(alloc)    == {alloc[i][1] : i \in DOMAIN alloc}
Ranked(rest, i) == CHOOSE s \in rest : Cardinality({t \in rest : t < s}) = i - 1
PassedPlan(alloc) ==
    LET rest == Slices \ Named(alloc)
    IN [i \in 1 .. Len(alloc) |->
          Entry(alloc[i][1], Rbgs \cap (alloc[i][2] .. alloc[i][3]), FALSE)]
       \o [i \in 1 .. Cardinality(rest) |-> Entry(Ranked(rest, i), {}, TRUE)]

\* Bug: The later tenants are not moved up by the first one's additional RBG.
Bug_ShareOverlaps(n, t) ==
    LET q == NofRbgs \div n
    IN t * q .. t * q + q - 1 + (IF n = 3 /\ t \in {0, 2} THEN 1 ELSE 0)

\* equal_slice_allocation: every tenant takes the lowest free RBGs, and of
\* three tenants the first and the last take one more.
Share(n, t) ==
    LET q     == NofRbgs \div n
        first == t * q + (IF n = 3 /\ t > 0 THEN 1 ELSE 0)
    IN first .. first + q - 1 + (IF n = 3 /\ t \in {0, 2} THEN 1 ELSE 0)
\* The plan stops at a tenant whose share is not there: an IndexError.
EqualPlan(n) ==
    LET served == {t \in 0 .. n - 1 : Share(n, t) \subseteq Rbgs}
    IN [i \in 1 .. Cardinality(served) |-> Entry(i - 1, Share(n, i - 1), FALSE)]

-----------------------------------------------------------------------------
(* Calls of the API.  A call reads files step by step, then writes its plan. *)

Idle   == [pc |-> "idle"]
Dead   == [pc |-> "dead"]
Active(c) == call[c].pc \notin {"idle", "dead"}
Nothing == [t \in Slices |-> {}]
\* A call that has a plan; `names' are the slices of a whole allocation.
ToWrite(plan, names) == [pc |-> "open", plan |-> plan, names |-> names]

Begin(c, what) ==
    /\ call[c] = Idle
    /\ calls < MaxCalls
    /\ calls' = calls + 1
    /\ call' = [call EXCEPT ![c] = what]
    /\ raced' = (raced \/ \E d \in Callers : Active(d))
    /\ UNCHANGED <<file, cutShort>> /\ UNCHANGED reader

\* set_slice (its scheduling policy goes to another file).
SetSlice(c, s, want) ==
    /\ Begin(c, [pc |-> "own", slice |-> s, want |-> want])
    /\ held' = [held EXCEPT ![c] = [t \in Slices |-> RbgsOf(file[t])]]
    /\ UNCHANGED apart

\* write_tenant_slicing_mask with an allocation, and without one.
SetAllocation(c, alloc) ==
    /\ Begin(c, ToWrite(PassedPlan(alloc), Named(alloc)))
    /\ UNCHANGED <<apart, held>>
SetEqual(c, n) ==
    /\ Begin(c, ToWrite(EqualPlan(n), 0 .. n - 1))
    /\ UNCHANGED <<apart, held>>

\* set_slice_resources: the row is the caller's business.
SetSliceResources(c, s, row) ==
    /\ Begin(c, ToWrite(<<Entry(s, row, FALSE)>>, {}))
    /\ apart' = apart \ {s}
    /\ UNCHANGED held

\* heuristic.py: one RBG of a slice is switched on or off, whoever else has it.
Heuristic(c, s, bit, on) ==
    /\ Begin(c, [pc |-> "bit", slice |-> s, bit |-> bit, on |-> on])
    /\ apart' = apart \ {s}
    /\ UNCHANGED held

\* A step of a call that leaves the files alone.
Goes(c, what) ==
    /\ call' = [call EXCEPT ![c] = what]
    /\ held' = IF what.pc \in {"own", "all"} THEN held
               ELSE [held EXCEPT ![c] = Nothing]
    /\ UNCHANGED <<file, calls>> /\ UNCHANGED history /\ UNCHANGED reader

\* Indexing the empty string raises; a bit that is as wanted is not written.
ReadBit(c) ==
    /\ call[c].pc = "bit"
    /\ LET k   == call[c]
           now == file[k.slice]
           new == IF k.on THEN RbgsOf(now) \cup {k.bit} ELSE RbgsOf(now) \ {k.bit}
       IN Goes(c, IF HasRow(now) /\ new # now
                  THEN ToWrite(<<Entry(k.slice, new, FALSE)>>, {}) ELSE Idle)

ReadOwn(c) ==
    /\ call[c].pc = "own"
    /\ LET k   == call[c]
           own == RbgsOf(file[k.slice])
       IN Goes(c, IF Cardinality(own) = k.want THEN Idle
                  ELSE [pc |-> "all", slice |-> k.slice, want |-> k.want,
                        own |-> own, next |-> 0, union |-> Missing])

\* Bug: The last row read replaces the union instead of joining it.
Bug_LastRowOnly(union, content) == IF HasRow(content) THEN content ELSE union

\* The union of the rows read so far (Missing stands for the empty list).
\* Before the first row an empty one changes nothing, later it raises.
Joined(union, content) ==
    IF ~HasRow(union) THEN (IF HasRow(content) THEN content ELSE Missing)
    ELSE union \cup RbgsOf(content)
Raises(union, content) == HasRow(union) /\ ~HasRow(content)

LastFile == NofSlices - 1

ReadAll(c) ==
    /\ call[c].pc = "all"
    /\ call[c].next < LastFile
    /\ LET k == call[c]
       IN Goes(c, IF Raises(k.union, file[k.next]) THEN Idle
                  ELSE [k EXCEPT !.next = @ + 1,
                                 !.union = Joined(@, file[k.next])])

\* The last file is read and the row computed.  A slice that has no RBG cannot
\* grow: min() of an empty list raises.
Decide(c) ==
    /\ call[c].pc = "all"
    /\ call[c].next = LastFile
    /\ LET k    == call[c]
           all  == Joined(k.union, file[LastFile])
           free == IF HasRow(all) THEN Rbgs \ all ELSE {}
       IN Goes(c, IF Raises(k.union, file[LastFile]) \/ k.own = {} THEN Idle
                  ELSE ToWrite(<<Entry(k.slice, Resize(k.own, free, k.want), FALSE)>>, {}))

\* Every call compares what its files still show.
Store(s, content) ==
    /\ file' = [file EXCEPT ![s] = content]
    /\ held' = [d \in Callers |-> [held[d] EXCEPT ![s] = @ \cap RbgsOf(content)]]

Finish(c, plan) ==
    LET k == call[c]
    IN /\ call' = [call EXCEPT ![c] =
                     IF plan = <<>> THEN Idle ELSE [k EXCEPT !.pc = "open", !.plan = plan]]
       /\ apart' = IF plan = <<>> /\ k.names # {} THEN k.names ELSE apart
       /\ UNCHANGED <<calls, raced, cutShort>> /\ UNCHANGED reader

OpenFile(c) ==
    /\ call[c].pc = "open"
    /\ LET e == Head(call[c].plan)
       IN IF e.optional /\ file[e.slice] # Missing
          THEN Finish(c, Tail(call[c].plan)) /\ UNCHANGED <<file, held>>
          ELSE /\ Store(e.slice, Empty)
               /\ call' = [call EXCEPT ![c].pc = "write"]
               /\ UNCHANGED calls /\ UNCHANGED history /\ UNCHANGED reader

CloseFile(c) ==
    /\ call[c].pc = "write"
    /\ LET e == Head(call[c].plan) IN Store(e.slice, e.row)
    /\ Finish(c, Tail(call[c].plan))

\* The program is stopped; what it had not written is lost.
Killed(c) ==
    /\ Active(c)
    /\ call' = [call EXCEPT ![c] = Dead]
    /\ cutShort' = (cutShort \/ (call[c].pc \in {"open", "write"} /\ call[c].names # {}))
    /\ held' = [held EXCEPT ![c] = Nothing]
    /\ UNCHANGED <<file, calls, apart, raced>> /\ UNCHANGED reader

-----------------------------------------------------------------------------
(* The reader: dl_metric_rr::sched_users once 250 ms have passed. *)

\* Bug: slicing_line_no is not set back after the last line.
Bug_NoWrap ==
    /\ enb.pc = "idle"
    /\ enb' = [pc |-> "read", slice |-> 0, line |-> lineNo]
    /\ UNCHANGED <<file, call, calls, lineNo, slicing, held>> /\ UNCHANGED history
StartUpdate ==
    /\ enb.pc = "idle"
    /\ LET line == IF lineNo >= MaxLines THEN 0 ELSE lineNo
       IN /\ enb' = [pc |-> "read", slice |-> 0, line |-> line]
          /\ lineNo' = line
    /\ UNCHANGED <<file, call, calls, slicing, held>> /\ UNCHANGED history

\* Bug: Only a missing line is read again, not an empty file.
Bug_EmptyIsRead(content, line) == HasRow(content) /\ line > 0

\* A file has one row.  If the line asked for is beyond it, or the row is not
\* there yet, read_slice_allocation_mask calls itself for line 0.
ReadAgain(content, line) == content = Empty \/ (HasRow(content) /\ line > 0)
InForce(content) ==
    IF HasRow(content) THEN content \cap (0 .. CellRbgs - 1) ELSE Off

\* Bug: The recursion asks for the same line again.
Bug_SameLine ==
    /\ enb.pc = "read"
    /\ ~ReadAgain(file[enb.slice], enb.line)
    /\ slicing' = [slicing EXCEPT ![enb.slice] = InForce(file[enb.slice])]
    /\ IF enb.slice < LastFile
       THEN /\ enb' = [pc |-> "read", slice |-> enb.slice + 1, line |-> lineNo]
            /\ UNCHANGED lineNo
       ELSE enb' = [pc |-> "idle"] /\ lineNo' = lineNo + 1
    /\ UNCHANGED <<file, call, calls, held>> /\ UNCHANGED history
ReadMask ==
    /\ enb.pc = "read"
    /\ LET content == file[enb.slice]
       IN IF ReadAgain(content, enb.line)
          THEN enb' = [enb EXCEPT !.line = 0] /\ UNCHANGED <<lineNo, slicing>>
          ELSE /\ slicing' = [slicing EXCEPT ![enb.slice] = InForce(content)]
               /\ IF enb.slice < LastFile
                  THEN /\ enb' = [pc |-> "read", slice |-> enb.slice + 1, line |-> lineNo]
                       /\ UNCHANGED lineNo
                  ELSE enb' = [pc |-> "idle"] /\ lineNo' = lineNo + 1
    /\ UNCHANGED <<file, call, calls, held>> /\ UNCHANGED history

-----------------------------------------------------------------------------
Init ==
    /\ file \in InitFiles
    /\ call = [c \in Callers |-> Idle]
    /\ calls = 0
    /\ enb = [pc |-> "idle"]
    /\ lineNo = 0
    /\ slicing = [s \in Slices |-> {}]
    /\ apart = Slices
    /\ raced = FALSE
    /\ cutShort = FALSE
    /\ held = [c \in Callers |-> Nothing]

NewCall(c) ==
    \/ \E s \in Slices, want \in Wants : SetSlice(c, s, want)
    \/ \E alloc \in Allocs : SetAllocation(c, alloc)
    \/ \E n \in TenantNums : SetEqual(c, n)
    \/ \E p \in Rows : SetSliceResources(c, p[1], p[2])
    \/ \E p \in Bits, on \in BOOLEAN : Heuristic(c, p[1], p[2], on)

Continue(c) ==
    ReadBit(c) \/ ReadOwn(c) \/ ReadAll(c) \/ Decide(c) \/ OpenFile(c) \/ CloseFile(c)

Update == StartUpdate \/ ReadMask

Next ==
    \/ \E c \in Callers : NewCall(c) \/ Continue(c) \/ Killed(c)
    \/ Update

\* A call that was begun goes on, unless it is stopped; the scheduler runs in
\* every TTI as long as a user is attached.
Spec ==
    /\ Init /\ [][Next]_vars
    /\ \A c \in Callers : WF_vars(Continue(c))
    /\ WF_vars(Update)

-----------------------------------------------------------------------------
(* Properties. *)

CallType ==
    {Idle, Dead}
    \cup [pc : {"own"}, slice : Slices, want : Nat]
    \cup [pc : {"all"}, slice : Slices, want : Nat, own : Mask, next : Slices,
          union : {Missing} \cup Mask]
    \cup [pc : {"bit"}, slice : Slices, bit : Rbgs, on : BOOLEAN]
    \cup [pc : {"open", "write"}, names : SUBSET Slices,
          plan : Seq([slice : Slices, row : Mask, optional : BOOLEAN])]

\* The files hold rows of the right length or none, a program has always a next
\* file to write while it writes, and the eNB never leaves the lines it counts.
TypeOK ==
    /\ file \in [Slices -> {Missing, Empty} \cup Mask]
    /\ \A c \in Callers : /\ call[c] \in CallType
                          /\ call[c].pc \in {"open", "write"} => call[c].plan # <<>>
    /\ calls \in 0 .. MaxCalls
    /\ enb \in {Idle} \cup [pc : {"read"}, slice : Slices, line : 0 .. MaxLines - 1]
    /\ lineNo \in 0 .. MaxLines
    /\ slicing \in [Slices -> {Off} \cup SUBSET (0 .. CellRbgs - 1)]
    /\ apart \in SUBSET Slices /\ raced \in BOOLEAN /\ cutShort \in BOOLEAN
    /\ held \in [Callers -> [Slices -> Mask]]

\* As long as calls follow one another and no whole allocation was stopped
\* half-way, no RBG is in the files of two slices once the calls are over:
\* set_slice gives away only what no slice has, and a whole allocation leaves
\* nothing behind of the one before, in the slices that it is about.
QuietDisjoint ==
    (~raced /\ ~cutShort /\ \A c \in Callers : ~Active(c))
        => \A s, t \in apart : s # t => RbgsOf(file[s]) \cap RbgsOf(file[t]) = {}

\* set_slice and any number of calls beside it: it never takes an RBG that the
\* file of another slice has shown at every moment since the call began.
\* (A file that was being rewritten shows nothing for a moment.)
TakesNothingHeld ==
    [][\A c \in Callers :
         (call[c].pc = "all" /\ call'[c].pc = "open")
            => \A t \in Slices \ {call[c].slice} :
                  (call'[c].plan[1].row \ call[c].own) \cap held[c][t] = {}]_vars

\* set_slice ends with as many RBGs as were asked for, keeps all it had or
\* takes none, and ends short only if no RBG from 1 to MaxRbg - 1 is left that
\* none of the rows it read has.
SizesAsAsked ==
    [][\A c \in Callers :
         (call[c].pc = "all" /\ call'[c].pc = "open")
            => LET k   == call[c]
                   new == call'[c].plan[1].row
               IN /\ new \subseteq k.own \/ k.own \subseteq new
                  /\ Cardinality(new) <= Max({k.want, Cardinality(k.own)})
                  /\ \/ Cardinality(new) = k.want
                     \/ ~HasRow(Joined(k.union, file[LastFile]))
                     \/ 1 .. MaxRbg - 1
                          \subseteq new \cup Joined(k.union, file[LastFile])]_vars

\* The eNB never takes a file that is being rewritten for a row: a slice is
\* switched off only if it has no file at all, however the opening, the row and
\* the two readings of an update fall.
NeverTorn ==
    [][\A s \in Slices : slicing'[s] = Off => slicing[s] = Off \/ file[s] = Missing]_vars

\* Again and again the masks in force are those of the files, unless a file is
\* empty: the eNB catches up with every write, whatever line it has come to and
\* wherever in an update the write fell.
MasksTakeEffect ==
    []<>(\/ \E s \in Slices : file[s] = Empty
         \/ \A s \in Slices : slicing[s] = InForce(file[s]))
=============================================================================
