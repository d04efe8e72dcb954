-------------------------- MODULE SliceMasks_proofs --------------------------
(***************************************************************************)
(* Proofs about SliceMasks, for any number of slices, RBGs, programs and   *)
(* calls: the types, what a reader of half-written files can see, what     *)
(* set_slice takes, and that calls one after the other leave the slices    *)
(* apart.                                                                  *)
(***************************************************************************)
EXTENDS SliceMasks, OrderFacts, FiniteSetTheorems, SequenceTheorems, TLAPS

Content   == {Missing, Empty} \cup Mask
Union     == {Missing} \cup Mask
PlanEntry == [slice : Slices, row : Mask, optional : BOOLEAN]

-----------------------------------------------------------------------------
(* Rows. *)

LEMMA Slots ==
  /\ 0 \in Slices /\ LastFile \in Slices
  /\ \A s \in Slices : s \in Int /\ 0 <= s /\ s <= LastFile
  /\ \A s \in Slices : s # LastFile => s + 1 \in Slices
BY BoundsAssumption DEF Slices, LastFile

LEMMA RowFacts ==
  /\ \A m \in Mask : HasRow(m) /\ RbgsOf(m) = m /\ m # Off /\ m # Missing
  /\ ~HasRow(Missing) /\ ~HasRow(Empty) /\ RbgsOf(Missing) = {} /\ RbgsOf(Empty) = {}
  /\ \A x \in Content : RbgsOf(x) \in Mask /\ (HasRow(x) => x \in Mask)
BY FilesAssumption DEF HasRow, RbgsOf, Content, Mask

\* The union that set_slice builds is that of the rows, unless it raises.
LEMMA JoinedRows ==
  ASSUME NEW u \in Union, NEW x \in Content
  PROVE  /\ Joined(u, x) \in Union
         /\ RbgsOf(u) \subseteq RbgsOf(Joined(u, x))
         /\ ~Raises(u, x) => RbgsOf(x) \subseteq RbgsOf(Joined(u, x))
<1>1. u \in Content
  BY DEF Union, Content
<1>2. CASE HasRow(u)
  <2>1. u \in Mask /\ RbgsOf(u) = u /\ RbgsOf(x) \in Mask
    BY <1>1, <1>2, RowFacts
  <2>2. u \cup RbgsOf(x) \in Mask
    BY <2>1 DEF Mask
  <2>3. Joined(u, x) = u \cup RbgsOf(x)
    BY <1>2 DEF Joined
  <2>4. RbgsOf(Joined(u, x)) = Joined(u, x)
    BY <2>2, <2>3, RowFacts
  <2>5. QED BY <2>1, <2>2, <2>3, <2>4 DEF Union
<1>3. CASE ~HasRow(u)
  <2>1. RbgsOf(u) = {}
    BY <1>3 DEF RbgsOf
  <2>2. CASE HasRow(x)
    BY <1>3, <2>1, <2>2, RowFacts DEF Joined, Union
  <2>3. CASE ~HasRow(x)
    BY <1>3, <2>1, <2>3, RowFacts DEF Joined, Union, RbgsOf
  <2>4. QED BY <2>2, <2>3
<1>4. QED BY <1>2, <1>3

\* set_slice only adds RBGs that were free.
LEMMA ResizeTakesFree ==
  ASSUME NEW own \in Mask, NEW free \in Mask, NEW want \in Nat
  PROVE  /\ Resize(own, free, want) \in Mask
         /\ Resize(own, free, want) \subseteq own \cup free
<1>1. Shrink(own, want) \subseteq own
  BY DEF Shrink
<1>2. Grow(own, free, want) \subseteq own \cup free
  BY DEF Grow
<1>3. QED BY <1>1, <1>2 DEF Resize, Mask

-----------------------------------------------------------------------------
(* Plans. *)

LEMMA EntryFields ==
  \A s, row, o : /\ Entry(s, row, o).slice = s /\ Entry(s, row, o).row = row
                 /\ Entry(s, row, o).optional = o
BY DEF Entry

LEMMA RankedRest ==
  ASSUME NEW rest \in SUBSET Slices
  PROVE  /\ Cardinality(rest) \in Nat
         /\ \A i \in 1 .. Cardinality(rest) : Ranked(rest, i) \in rest
<1>1. IsFiniteSet(Slices) /\ Slices \subseteq Int
  <2>1. 0 \in Int /\ NofSlices - 1 \in Int
    BY BoundsAssumption
  <2>2. QED BY <2>1, FS_Interval DEF Slices
<1>2. IsFiniteSet(rest) /\ rest \in SUBSET Int
  BY <1>1, FS_Subset
<1>3. Cardinality(rest) \in Nat
  BY <1>2, FS_CardinalityType
<1>4. ASSUME NEW i \in 1 .. Cardinality(rest)
      PROVE  Ranked(rest, i) \in rest
  <2>1. i - 1 \in 0 .. Cardinality(rest) - 1
    BY <1>3
  <2>2. \E s \in rest : Cardinality(Lower(rest, s)) = i - 1
    BY <1>2, <2>1, EachLowerCount
  <2>3. \E s \in rest : Cardinality({t \in rest : t < s}) = i - 1
    BY <2>2 DEF Lower
  <2>4. QED BY <2>3 DEF Ranked
<1>5. QED BY <1>3, <1>4

LEMMA Division ==
  ASSUME NEW N \in Nat, NEW n \in Nat \ {0}
  PROVE  N \div n \in Nat /\ n * (N \div n) <= N
OBVIOUS

LEMMA MoreShares ==
  ASSUME NEW q \in Nat, NEW n \in Nat, NEW t \in 0 .. n - 1
  PROVE  t * q \in Nat /\ t * q + q <= n * q
<1>1. (t + 1) * q <= n * q /\ (t + 1) * q = t * q + q
  OBVIOUS
<1>2. QED BY <1>1

\* The tenants that are served by an equal division are the lowest ones, and
\* the first always is.
LEMMA Served ==
  ASSUME NEW n \in TenantNums
  PROVE  \E m \in 1 .. n : \A t \in 0 .. n - 1 : Share(n, t) \subseteq Rbgs <=> t < m
<1>1. n \in Nat \ {0} /\ NofRbgs \in Nat \ {0}
  BY InputsAssumption, BoundsAssumption
<1> DEFINE q == NofRbgs \div n
<1>2. q \in Nat /\ n * q <= NofRbgs
  BY <1>1, Division
<1>3. CASE n # 3
  <2>1. ASSUME NEW t \in 0 .. n - 1 PROVE Share(n, t) \subseteq Rbgs
    <3>1. t * q \in Nat /\ t * q + q <= n * q
      BY <1>1, <1>2, MoreShares
    <3>2. Share(n, t) = t * q + 0 .. t * q + 0 + q - 1 + 0
      BY <1>3 DEF Share
    <3>3. n * q \in Nat
      BY <1>1, <1>2
    <3> DEFINE a == t * q
               b == n * q
    <3> HIDE DEF a, b, q
    <3>4. a \in Nat /\ q \in Nat /\ b \in Nat /\ NofRbgs \in Nat /\ a + q <= b /\ b <= NofRbgs
      BY <1>1, <1>2, <3>1, <3>3 DEF a, b
    <3>5. a + 0 .. a + 0 + q - 1 + 0 \subseteq 0 .. NofRbgs - 1
      BY <3>4
    <3>6. QED BY <3>2, <3>5 DEF a, Rbgs
  <2>2. QED BY <1>1, <2>1
<1>4. CASE n = 3
  <2>1. 3 * q <= NofRbgs
    BY <1>2, <1>4
  <2>2. q < NofRbgs
    BY <1>1, <1>2, <2>1
  <2>3. q > 0 \/ q = 0
    BY <1>2
  <2>4. /\ Share(n, 0) = 0 * q + 0 .. 0 * q + 0 + q - 1 + 1
        /\ Share(n, 1) = 1 * q + 1 .. 1 * q + 1 + q - 1 + 0
    BY <1>4 DEF Share
  <2> HIDE DEF q
  <2>5. Share(n, 0) \subseteq Rbgs /\ Share(n, 1) \subseteq Rbgs
    BY <1>1, <1>2, <2>1, <2>2, <2>3, <2>4 DEF Rbgs
  <2>6. CASE Share(n, 2) \subseteq Rbgs
    BY <1>4, <2>5, <2>6
  <2>7. CASE ~(Share(n, 2) \subseteq Rbgs)
    BY <1>4, <2>5, <2>7
  <2>8. QED BY <2>6, <2>7
<1>5. QED BY <1>3, <1>4

LEMMA EqualPlanRows ==
  ASSUME NEW n \in TenantNums
  PROVE  /\ EqualPlan(n) \in Seq(PlanEntry) /\ EqualPlan(n) # <<>>
         /\ 0 .. n - 1 \in SUBSET Slices /\ 0 \in 0 .. n - 1
         /\ \A i \in DOMAIN EqualPlan(n) :
               /\ i \in 1 .. n
               /\ EqualPlan(n)[i] = Entry(i - 1, Share(n, i - 1), FALSE)
         /\ (\A t \in 0 .. n - 1 : Share(n, t) \subseteq Rbgs)
               => DOMAIN EqualPlan(n) = 1 .. n
<1>1. n \in Nat \ {0} /\ n <= NofSlices /\ NofSlices \in Nat
  BY InputsAssumption, BoundsAssumption
<1>2. PICK m \in 1 .. n : \A t \in 0 .. n - 1 : Share(n, t) \subseteq Rbgs <=> t < m
  BY Served
<1> DEFINE served == {t \in 0 .. n - 1 : Share(n, t) \subseteq Rbgs}
           e == [i \in 1 .. m |-> Entry(i - 1, Share(n, i - 1), FALSE)]
<1>3. served = 0 .. m - 1
  BY <1>1, <1>2
<1>4. Cardinality(0 .. m - 1) = m
  <2>1. 0 \in Int /\ m - 1 \in Int /\ m - 1 >= 0 /\ m - 1 - 0 + 1 = m
    BY <1>1
  <2>2. QED BY <2>1, FS_Interval
<1>5. EqualPlan(n) = e
  BY <1>3, <1>4 DEF EqualPlan
<1>6. \A i \in 1 .. m : i \in 1 .. n /\ i - 1 \in Slices /\ Share(n, i - 1) \in Mask
  <2>1. \A i \in 1 .. m : i \in 1 .. n /\ i - 1 \in 0 .. n - 1 /\ i - 1 < m
    BY <1>1
  <2>2. \A i \in 1 .. n : i - 1 \in Slices
    BY <1>1 DEF Slices
  <2>3. QED BY <1>2, <2>1, <2>2 DEF Mask
<1>7. \A i \in 1 .. m : e[i] \in PlanEntry
  BY <1>6 DEF Entry, PlanEntry
<1>8. m \in Nat
  BY <1>1
<1>9. e \in Seq(PlanEntry) /\ Len(e) = m /\ DOMAIN e = 1 .. m
  <2>1. e = [i \in 1 .. m |-> e[i]]
    OBVIOUS
  <2> HIDE DEF e
  <2>2. e \in Seq(PlanEntry) /\ DOMAIN e = 1 .. m
    BY <1>7, <1>8, <2>1, IsASeq
  <2>3. QED BY <1>8, <2>2, LenProperties
<1>10. e # <<>>
  <2> HIDE DEF e
  <2>1. QED BY <1>1, <1>9
<1>11. (\A t \in 0 .. n - 1 : Share(n, t) \subseteq Rbgs) => m = n
  <2>1. n - 1 \in 0 .. n - 1
    BY <1>1
  <2>2. QED BY <1>1, <1>2, <2>1
<1>12. 0 .. n - 1 \in SUBSET Slices /\ 0 \in 0 .. n - 1
  BY <1>1 DEF Slices
<1>13. \A i \in 1 .. m : i \in 1 .. n /\ e[i] = Entry(i - 1, Share(n, i - 1), FALSE)
  BY <1>6
<1> HIDE DEF e
<1>14. QED BY <1>5, <1>9, <1>10, <1>11, <1>12, <1>13

LEMMA PassedPlanRows ==
  ASSUME NEW alloc \in Allocs
  PROVE  /\ PassedPlan(alloc) \in Seq(PlanEntry) /\ PassedPlan(alloc) # <<>>
         /\ Named(alloc) \in SUBSET Slices /\ Named(alloc) # {}
         /\ \A i \in DOMAIN alloc : /\ i \in DOMAIN PassedPlan(alloc)
                                    /\ PassedPlan(alloc)[i].slice = alloc[i][1]
         /\ \A i \in DOMAIN PassedPlan(alloc) :
               \/ /\ i \in DOMAIN alloc
                  /\ PassedPlan(alloc)[i]
                       = Entry(alloc[i][1], Rbgs \cap (alloc[i][2] .. alloc[i][3]), FALSE)
               \/ PassedPlan(alloc)[i].optional /\ PassedPlan(alloc)[i].slice \notin Named(alloc)
<1> DEFINE p == PassedPlan(alloc)
           rest == Slices \ Named(alloc)
           n == Len(alloc)
           m == Cardinality(rest)
           a == [i \in 1 .. n |->
                   Entry(alloc[i][1], Rbgs \cap (alloc[i][2] .. alloc[i][3]), FALSE)]
           b == [i \in 1 .. m |-> Entry(Ranked(rest, i), {}, TRUE)]
<1>1. alloc \in Seq(Slices \X Nat \X Nat) /\ alloc # <<>>
  BY InputsAssumption
<1>2. n \in Nat /\ n # 0 /\ DOMAIN alloc = 1 .. n
  BY <1>1, LenProperties, EmptySeq
<1>3. \A i \in 1 .. n : alloc[i] \in Slices \X Nat \X Nat
  BY <1>1, <1>2, ElementOfSeq
<1>4. \A i \in 1 .. n : alloc[i][1] \in Slices
  BY <1>3
<1>5. Named(alloc) \in SUBSET Slices /\ Named(alloc) # {}
  <2>1. 1 \in 1 .. n
    BY <1>2
  <2>2. QED BY <1>2, <1>4, <2>1 DEF Named
<1>6. rest \in SUBSET Slices
  OBVIOUS
<1>7. m \in Nat /\ \A i \in 1 .. m : Ranked(rest, i) \in rest
  BY <1>6, RankedRest
<1>8. a \in Seq(PlanEntry) /\ Len(a) = n
  <2>1. \A i \in 1 .. n : a[i] \in PlanEntry
    BY <1>4 DEF Entry, PlanEntry, Mask
  <2>2. a = [i \in 1 .. n |-> a[i]]
    OBVIOUS
  <2>3. DOMAIN a = 1 .. n
    OBVIOUS
  <2> HIDE DEF a, n
  <2>4. a \in Seq(PlanEntry)
    BY <1>2, <2>1, <2>2, IsASeq
  <2>5. QED BY <1>2, <2>3, <2>4, LenProperties
<1>9. b \in Seq(PlanEntry) /\ Len(b) = m
  <2>1. \A i \in 1 .. m : b[i] \in PlanEntry
    BY <1>7 DEF Entry, PlanEntry, Mask
  <2>2. b = [i \in 1 .. m |-> b[i]]
    OBVIOUS
  <2>3. DOMAIN b = 1 .. m
    OBVIOUS
  <2> HIDE DEF b, m
  <2>4. b \in Seq(PlanEntry)
    BY <1>7, <2>1, <2>2, IsASeq
  <2>5. QED BY <1>7, <2>3, <2>4, LenProperties
<1>10. p = a \o b
  BY DEF PassedPlan
<1>11. \A i \in 1 .. n : a[i] = Entry(alloc[i][1], Rbgs \cap (alloc[i][2] .. alloc[i][3]), FALSE)
  OBVIOUS
<1>12. \A i \in 1 .. m : b[i].optional /\ b[i].slice \notin Named(alloc)
  BY <1>7 DEF Entry
<1> HIDE DEF a, b, n, m, rest, p
<1>13. /\ p \in Seq(PlanEntry) /\ Len(p) = n + m
       /\ \A i \in 1 .. n + m : p[i] = IF i <= n THEN a[i] ELSE b[i - n]
  BY <1>8, <1>9, <1>10, ConcatProperties
<1>14. DOMAIN p = 1 .. n + m
  BY <1>13, LenProperties
<1>15. p # <<>>
  BY <1>2, <1>7, <1>13, EmptySeq
<1>16. \A i \in 1 .. n : i \in 1 .. n + m /\ p[i] = a[i]
  <2>1. \A i \in 1 .. n : i \in 1 .. n + m /\ i <= n
    BY <1>2, <1>7
  <2>2. QED BY <1>13, <2>1
<1>17. \A i \in 1 .. n + m : i \notin 1 .. n => i - n \in 1 .. m /\ p[i] = b[i - n]
  <2>1. \A i \in 1 .. n + m : i \notin 1 .. n => i - n \in 1 .. m /\ ~(i <= n)
    BY <1>2, <1>7
  <2>2. QED BY <1>13, <2>1
<1>18. \A i \in 1 .. n : a[i].slice = alloc[i][1]
  <2>1. TAKE i \in 1 .. n
  <2>2. a[i] = Entry(alloc[i][1], Rbgs \cap (alloc[i][2] .. alloc[i][3]), FALSE)
    BY <1>11
  <2> DEFINE x == alloc[i][1]
             row == Rbgs \cap (alloc[i][2] .. alloc[i][3])
  <2>3. Entry(x, row, FALSE).slice = x
    <3> HIDE DEF x, row
    <3>1. QED BY EntryFields
  <2>4. QED BY <2>2, <2>3
<1>19. \A i \in 1 .. n : i \in DOMAIN p /\ p[i].slice = alloc[i][1]
  BY <1>14, <1>16, <1>18
<1>20. \A i \in DOMAIN p :
          \/ /\ i \in 1 .. n
             /\ p[i] = Entry(alloc[i][1], Rbgs \cap (alloc[i][2] .. alloc[i][3]), FALSE)
          \/ p[i].optional /\ p[i].slice \notin Named(alloc)
  BY <1>11, <1>12, <1>14, <1>16, <1>17
<1>21. QED
  BY ONLY <1>2, <1>5, <1>13, <1>15, <1>19, <1>20 DEF p

-----------------------------------------------------------------------------
(***************************************************************************)
(* Types.  While an update of the masks runs, the line it began with is    *)
(* one of those it counts.                                                 *)
(***************************************************************************)
Types ==
  /\ TypeOK
  /\ call \in [Callers -> CallType]
  /\ enb.pc = "read" => lineNo < MaxLines

\* What a call in each phase knows.
LEMMA Kinds ==
  ASSUME NEW k \in CallType
  PROVE  /\ k.pc = "own" => k.slice \in Slices /\ k.want \in Nat
         /\ k.pc = "all" => /\ k \in [pc : {"own", "all"}, slice : Slices, want : Nat,
                                       own : Mask, next : Slices, union : Union]
                            /\ k.slice \in Slices /\ k.want \in Nat /\ k.own \in Mask
                            /\ k.next \in Slices /\ k.union \in Union
         /\ k.pc = "bit" => k.slice \in Slices /\ k.bit \in Rbgs /\ k.on \in BOOLEAN
         /\ k.pc \in {"open", "write"} =>
               /\ k \in [pc : {"open", "write"}, names : SUBSET Slices, plan : Seq(PlanEntry)]
               /\ k.names \in SUBSET Slices /\ k.plan \in Seq(PlanEntry)
BY DEF CallType, Idle, Dead, Union, PlanEntry

LEMMA Phases ==
  /\ Idle \in CallType /\ Dead \in CallType
  /\ Idle.pc = "idle" /\ Dead.pc = "dead"
  /\ \A s \in Slices, want \in Nat : [pc |-> "own", slice |-> s, want |-> want] \in CallType
  /\ \A s \in Slices, want \in Nat, own \in Mask, next \in Slices, u \in Union :
        [pc |-> "all", slice |-> s, want |-> want, own |-> own, next |-> next,
         union |-> u] \in CallType
  /\ \A s \in Slices, bit \in Rbgs, on \in BOOLEAN :
        [pc |-> "bit", slice |-> s, bit |-> bit, on |-> on] \in CallType
<1>1. Idle \in CallType /\ Dead \in CallType
  BY DEF CallType
<1>2. Idle.pc = "idle" /\ Dead.pc = "dead"
  BY DEF Idle, Dead
<1>3. \A s \in Slices, want \in Nat : [pc |-> "own", slice |-> s, want |-> want] \in CallType
  BY DEF CallType
<1>4. \A s \in Slices, want \in Nat, own \in Mask, next \in Slices, u \in Union :
        [pc |-> "all", slice |-> s, want |-> want, own |-> own, next |-> next,
         union |-> u] \in CallType
  BY DEF CallType, Union
<1>5. \A s \in Slices, bit \in Rbgs, on \in BOOLEAN :
        [pc |-> "bit", slice |-> s, bit |-> bit, on |-> on] \in CallType
  BY DEF CallType
<1>6. QED BY <1>1, <1>2, <1>3, <1>4, <1>5

LEMMA Planned ==
  ASSUME NEW plan \in Seq(PlanEntry), NEW names \in SUBSET Slices
  PROVE  /\ ToWrite(plan, names) \in CallType /\ ToWrite(plan, names).pc = "open"
         /\ ToWrite(plan, names).plan = plan /\ ToWrite(plan, names).names = names
<1>1. ToWrite(plan, names)
        \in [pc : {"open", "write"}, names : SUBSET Slices, plan : Seq(PlanEntry)]
  BY DEF ToWrite
<1>2. QED BY <1>1 DEF CallType, PlanEntry, ToWrite

\* A call that writes one row.
OneRow(s, row) == ToWrite(<<Entry(s, row, FALSE)>>, {})

LEMMA OneRowPlanned ==
  ASSUME NEW s \in Slices, NEW row \in Mask
  PROVE  /\ OneRow(s, row) \in CallType /\ OneRow(s, row).pc = "open"
         /\ OneRow(s, row).plan # <<>> /\ OneRow(s, row).names = {}
         /\ Len(OneRow(s, row).plan) = 1
         /\ OneRow(s, row).plan[1].slice = s /\ OneRow(s, row).plan[1].row = row
         /\ ~OneRow(s, row).plan[1].optional
<1> DEFINE e == Entry(s, row, FALSE)
<1>1. e \in PlanEntry /\ e.slice = s /\ e.row = row /\ ~e.optional
  BY DEF Entry, PlanEntry
<1> HIDE DEF e
<1>2. <<e>> \in Seq(PlanEntry) /\ <<e>> # <<>> /\ Len(<<e>>) = 1 /\ <<e>>[1] = e
  BY <1>1
<1>3. {} \in SUBSET Slices
  OBVIOUS
<1> DEFINE plan == <<e>>
<1> HIDE DEF plan
<1>4. OneRow(s, row) = ToWrite(plan, {})
  BY DEF OneRow, e, plan
<1>5. plan \in Seq(PlanEntry) /\ plan # <<>> /\ Len(plan) = 1 /\ plan[1] = e
  BY <1>2 DEF plan
<1>6. /\ ToWrite(plan, {}) \in CallType /\ ToWrite(plan, {}).pc = "open"
      /\ ToWrite(plan, {}).plan = plan /\ ToWrite(plan, {}).names = {}
  BY <1>3, <1>5, Planned
<1> HIDE DEF OneRow
<1>7. QED BY <1>1, <1>4, <1>5, <1>6

LEMMA NothingTyped == Nothing \in [Slices -> Mask]
BY DEF Nothing, Mask

\* The variables of Types that a call has no part in.
Reading ==
  /\ enb \in {Idle} \cup [pc : {"read"}, slice : Slices, line : 0 .. MaxLines - 1]
  /\ lineNo \in 0 .. MaxLines
  /\ slicing \in [Slices -> {Off} \cup SUBSET (0 .. CellRbgs - 1)]
  /\ enb.pc = "read" => lineNo < MaxLines

Calling ==
  /\ call \in [Callers -> CallType]
  /\ \A c \in Callers : call[c].pc \in {"open", "write"} => call[c].plan # <<>>

LEMMA TypesParts ==
  Types <=> /\ Calling /\ Reading
            /\ file \in [Slices -> Content] /\ calls \in 0 .. MaxCalls
            /\ apart \in SUBSET Slices /\ raced \in BOOLEAN /\ cutShort \in BOOLEAN
            /\ held \in [Callers -> [Slices -> Mask]]
BY DEF Types, TypeOK, Calling, Reading, Content

LEMMA ReadingKept ==
  ASSUME Reading, UNCHANGED reader
  PROVE  Reading'
BY DEF Reading, reader

LEMMA CallingKept ==
  ASSUME Calling, NEW c \in Callers, NEW what \in CallType,
         what.pc \in {"open", "write"} => what.plan # <<>>,
         call' = [call EXCEPT ![c] = what]
  PROVE  Calling'
BY DEF Calling

LEMMA BeginTypes ==
  ASSUME Types, NEW c \in Callers, NEW what \in CallType,
         what.pc \in {"open", "write"} => what.plan # <<>>,
         Begin(c, what),
         held' \in [Callers -> [Slices -> Mask]], apart' \in SUBSET Slices
  PROVE  Types'
<1>1. calls' \in 0 .. MaxCalls
  BY BoundsAssumption, TypesParts DEF Begin
<1>2. raced' \in BOOLEAN /\ UNCHANGED <<file, cutShort>>
  BY DEF Begin
<1>3. Calling'
  BY CallingKept, TypesParts DEF Begin
<1>4. Reading'
  BY ReadingKept, TypesParts DEF Begin
<1>5. QED
  BY <1>1, <1>2, <1>3, <1>4, TypesParts DEF Types, TypeOK, Calling, Reading, Content

LEMMA GoesTypes ==
  ASSUME Types, NEW c \in Callers, NEW what \in CallType,
         what.pc \in {"open", "write"} => what.plan # <<>>,
         Goes(c, what)
  PROVE  Types'
<1>1. held' \in [Callers -> [Slices -> Mask]]
  BY TypesParts, NothingTyped DEF Goes
<1>2. UNCHANGED <<file, calls>> /\ UNCHANGED <<apart, raced, cutShort>>
  BY DEF Goes, history
<1>3. Calling'
  BY CallingKept, TypesParts DEF Goes
<1>4. Reading'
  BY ReadingKept, TypesParts DEF Goes
<1>5. QED
  BY <1>1, <1>2, <1>3, <1>4, TypesParts DEF Types, TypeOK, Calling, Reading, Content

LEMMA StoreTypes ==
  ASSUME Types, NEW s \in Slices, NEW content \in Content, Store(s, content)
  PROVE  file' \in [Slices -> Content] /\ held' \in [Callers -> [Slices -> Mask]]
<1>1. file' \in [Slices -> Content]
  BY TypesParts DEF Store
<1>2. ASSUME NEW d \in Callers
      PROVE  [held[d] EXCEPT ![s] = @ \cap RbgsOf(content)] \in [Slices -> Mask]
  <2>1. held[d] \in [Slices -> Mask]
    BY TypesParts
  <2>2. held[d][s] \cap RbgsOf(content) \in Mask
    BY <2>1 DEF Mask
  <2>3. QED BY <2>1, <2>2
<1>3. QED BY <1>1, <1>2 DEF Store

\* The rest of a plan is a plan.
LEMMA RestOfPlan ==
  ASSUME Types, NEW c \in Callers, call[c].pc \in {"open", "write"}
  PROVE  /\ call[c].plan \in Seq(PlanEntry) /\ call[c].plan # <<>>
         /\ Head(call[c].plan) = call[c].plan[1] /\ 1 \in DOMAIN call[c].plan
         /\ Head(call[c].plan) \in PlanEntry
         /\ Tail(call[c].plan) \in Seq(PlanEntry)
         /\ call[c].names \in SUBSET Slices
<1>1. call[c] \in CallType /\ call[c].plan # <<>>
  BY TypesParts DEF Calling
<1>2. call[c].plan \in Seq(PlanEntry) /\ call[c].names \in SUBSET Slices
  BY <1>1, Kinds
<1>3. \A p \in Seq(PlanEntry) :
         p # <<>> => /\ Head(p) = p[1] /\ 1 \in DOMAIN p
                     /\ Head(p) \in PlanEntry /\ Tail(p) \in Seq(PlanEntry)
  <2>1. TAKE p \in Seq(PlanEntry)
  <2>2. HAVE p # <<>>
  <2>3. Head(p) \in PlanEntry /\ Tail(p) \in Seq(PlanEntry)
    BY <2>2, HeadTailProperties
  <2>4. Head(p) = p[1] /\ 1 \in DOMAIN p
    BY <2>2
  <2>5. QED BY <2>3, <2>4
<1>4. QED BY <1>1, <1>2, <1>3

LEMMA FinishTypes ==
  ASSUME Types, NEW c \in Callers, call[c].pc \in {"open", "write"},
         Finish(c, Tail(call[c].plan)),
         file' \in [Slices -> Content], held' \in [Callers -> [Slices -> Mask]]
  PROVE  Types'
<1> DEFINE plan == Tail(call[c].plan)
           what == IF plan = <<>> THEN Idle
                   ELSE [call[c] EXCEPT !.pc = "open", !.plan = plan]
<1>1. /\ call[c] \in [pc : {"open", "write"}, names : SUBSET Slices, plan : Seq(PlanEntry)]
      /\ plan \in Seq(PlanEntry) /\ call[c].names \in SUBSET Slices
  BY RestOfPlan, Kinds, TypesParts DEF Calling
<1>2. what \in CallType /\ (what.pc \in {"open", "write"} => what.plan # <<>>)
  <2>1. CASE plan = <<>>
    BY <2>1, Phases
  <2>2. CASE plan # <<>>
    <3>1. what \in [pc : {"open", "write"}, names : SUBSET Slices, plan : Seq(PlanEntry)]
          /\ what.plan = plan
      <4> HIDE DEF plan
      <4>1. QED BY <1>1, <2>2
    <3>2. QED BY <2>2, <3>1 DEF CallType, PlanEntry
  <2>3. QED BY <2>1, <2>2
<1>3. call' = [call EXCEPT ![c] = what]
  BY DEF Finish
<1>4. apart' \in SUBSET Slices
  BY <1>1, TypesParts DEF Finish
<1>5. UNCHANGED <<calls, raced, cutShort>>
  BY DEF Finish
<1>6. Reading'
  BY ReadingKept, TypesParts DEF Finish
<1> HIDE DEF what
<1>7. Calling'
  BY <1>2, <1>3, CallingKept, TypesParts
<1>8. QED
  BY <1>4, <1>5, <1>6, <1>7, TypesParts DEF Types, TypeOK, Calling, Reading, Content

-----------------------------------------------------------------------------
(* Every action keeps the types. *)

LEMMA CallKind ==
  ASSUME Types, NEW c \in Callers
  PROVE  call[c] \in CallType /\ held[c] \in [Slices -> Mask]
BY TypesParts DEF Calling

LEMMA Shown ==
  ASSUME Types, NEW s \in Slices
  PROVE  file[s] \in Content /\ RbgsOf(file[s]) \in Mask
BY TypesParts, RowFacts

LEMMA InitTypes == Init => Types
<1> SUFFICES ASSUME Init PROVE Types
  OBVIOUS
<1>1. file \in [Slices -> Content]
  BY FilesAssumption DEF Init, Content
<1>2. Calling
  BY Phases DEF Init, Calling
<1>3. Reading
  <2>1. slicing \in [Slices -> {Off} \cup SUBSET (0 .. CellRbgs - 1)]
    BY DEF Init
  <2>2. enb = Idle /\ enb.pc = "idle"
    BY Phases DEF Init, Idle
  <2>3. lineNo \in 0 .. MaxLines
    BY BoundsAssumption DEF Init
  <2>4. QED BY <2>1, <2>2, <2>3 DEF Reading
<1>4. calls \in 0 .. MaxCalls
  BY BoundsAssumption DEF Init
<1>5. held \in [Callers -> [Slices -> Mask]]
  BY NothingTyped DEF Init
<1>6. apart \in SUBSET Slices /\ raced \in BOOLEAN /\ cutShort \in BOOLEAN
  BY DEF Init
<1>7. QED BY <1>1, <1>2, <1>3, <1>4, <1>5, <1>6, TypesParts

\* What a new call is.
OwnCall(s, want)   == [pc |-> "own", slice |-> s, want |-> want]
AllocCall(alloc)   == ToWrite(PassedPlan(alloc), Named(alloc))
EqualCall(n)       == ToWrite(EqualPlan(n), 0 .. n - 1)
BitCall(s, bit, on) == [pc |-> "bit", slice |-> s, bit |-> bit, on |-> on]

LEMMA NewCalls ==
  /\ \A s \in Slices, want \in Wants :
        OwnCall(s, want) \in CallType /\ OwnCall(s, want).pc = "own"
  /\ \A alloc \in Allocs :
        /\ AllocCall(alloc) \in CallType /\ AllocCall(alloc).pc = "open"
        /\ AllocCall(alloc).plan = PassedPlan(alloc) /\ AllocCall(alloc).plan # <<>>
        /\ AllocCall(alloc).names = Named(alloc)
  /\ \A n \in TenantNums :
        /\ EqualCall(n) \in CallType /\ EqualCall(n).pc = "open"
        /\ EqualCall(n).plan = EqualPlan(n) /\ EqualCall(n).plan # <<>>
        /\ EqualCall(n).names = 0 .. n - 1
  /\ \A p \in Rows :
        /\ p[1] \in Slices /\ p[2] \in Mask
        /\ OneRow(p[1], p[2]) \in CallType /\ OneRow(p[1], p[2]).pc = "open"
        /\ OneRow(p[1], p[2]).plan # <<>>
  /\ \A p \in Bits, on \in BOOLEAN :
        BitCall(p[1], p[2], on) \in CallType /\ BitCall(p[1], p[2], on).pc = "bit"
<1>1. \A s \in Slices, want \in Wants :
        OwnCall(s, want) \in CallType /\ OwnCall(s, want).pc = "own"
  BY InputsAssumption, Phases DEF OwnCall
<1>2. ASSUME NEW alloc \in Allocs
      PROVE  /\ AllocCall(alloc) \in CallType /\ AllocCall(alloc).pc = "open"
             /\ AllocCall(alloc).plan = PassedPlan(alloc) /\ AllocCall(alloc).plan # <<>>
             /\ AllocCall(alloc).names = Named(alloc)
  <2>1. /\ PassedPlan(alloc) \in Seq(PlanEntry) /\ PassedPlan(alloc) # <<>>
        /\ Named(alloc) \in SUBSET Slices
    BY PassedPlanRows
  <2>2. QED BY <2>1, Planned DEF AllocCall
<1>3. ASSUME NEW n \in TenantNums
      PROVE  /\ EqualCall(n) \in CallType /\ EqualCall(n).pc = "open"
             /\ EqualCall(n).plan = EqualPlan(n) /\ EqualCall(n).plan # <<>>
             /\ EqualCall(n).names = 0 .. n - 1
  <2>1. /\ EqualPlan(n) \in Seq(PlanEntry) /\ EqualPlan(n) # <<>>
        /\ 0 .. n - 1 \in SUBSET Slices
    BY EqualPlanRows
  <2>2. QED BY <2>1, Planned DEF EqualCall
<1>4. ASSUME NEW p \in Rows
      PROVE  /\ p[1] \in Slices /\ p[2] \in Mask
             /\ OneRow(p[1], p[2]) \in CallType /\ OneRow(p[1], p[2]).pc = "open"
             /\ OneRow(p[1], p[2]).plan # <<>>
  <2>1. p[1] \in Slices /\ p[2] \in Mask
    BY InputsAssumption
  <2>2. QED BY <2>1, OneRowPlanned
<1>5. ASSUME NEW p \in Bits, NEW on \in BOOLEAN
      PROVE  BitCall(p[1], p[2], on) \in CallType /\ BitCall(p[1], p[2], on).pc = "bit"
  <2>1. p[1] \in Slices /\ p[2] \in Rbgs
    BY InputsAssumption
  <2>2. QED BY <2>1, Phases DEF BitCall
<1>6. QED BY <1>1, <1>2, <1>3, <1>4, <1>5

LEMMA NewCallTypes ==
  ASSUME Types, NEW c \in Callers, NewCall(c)
  PROVE  Types'
<1> USE TypesParts
<1>1. ASSUME NEW s \in Slices, NEW want \in Wants, SetSlice(c, s, want) PROVE Types'
  <2>1. [t \in Slices |-> RbgsOf(file[t])] \in [Slices -> Mask]
    BY Shown
  <2>2. /\ held' \in [Callers -> [Slices -> Mask]] /\ apart' = apart
        /\ Begin(c, OwnCall(s, want))
    BY <1>1, <2>1 DEF SetSlice, OwnCall
  <2>3. QED BY <2>2, NewCalls, BeginTypes
<1>2. ASSUME NEW alloc \in Allocs, SetAllocation(c, alloc) PROVE Types'
  <2>1. UNCHANGED <<apart, held>> /\ Begin(c, AllocCall(alloc))
    BY <1>2 DEF SetAllocation, AllocCall
  <2>2. QED BY <2>1, NewCalls, BeginTypes
<1>3. ASSUME NEW n \in TenantNums, SetEqual(c, n) PROVE Types'
  <2>1. UNCHANGED <<apart, held>> /\ Begin(c, EqualCall(n))
    BY <1>3 DEF SetEqual, EqualCall
  <2>2. QED BY <2>1, NewCalls, BeginTypes
<1>4. ASSUME NEW p \in Rows, SetSliceResources(c, p[1], p[2]) PROVE Types'
  <2>1. held' = held /\ apart' \in SUBSET Slices /\ Begin(c, OneRow(p[1], p[2]))
    BY <1>4 DEF SetSliceResources, OneRow
  <2>2. QED BY <2>1, NewCalls, BeginTypes
<1>5. ASSUME NEW p \in Bits, NEW on \in BOOLEAN, Heuristic(c, p[1], p[2], on) PROVE Types'
  <2>1. held' = held /\ apart' \in SUBSET Slices /\ Begin(c, BitCall(p[1], p[2], on))
    BY <1>5 DEF Heuristic, BitCall
  <2>2. QED BY <2>1, NewCalls, BeginTypes
<1>6. QED BY <1>1, <1>2, <1>3, <1>4, <1>5 DEF NewCall

LEMMA ReadBitTypes ==
  ASSUME Types, NEW c \in Callers, ReadBit(c)
  PROVE  Types'
<1> DEFINE k   == call[c]
           now == file[k.slice]
           new == IF k.on THEN RbgsOf(now) \cup {k.bit} ELSE RbgsOf(now) \ {k.bit}
           what == IF HasRow(now) /\ new # now
                   THEN OneRow(k.slice, new) ELSE Idle
<1>1. Goes(c, what) /\ k.pc = "bit"
  BY DEF ReadBit, OneRow
<1>2. k.slice \in Slices /\ k.bit \in Rbgs
  BY <1>1, CallKind, Kinds
<1>3. new \in Mask
  BY <1>2, Shown DEF Mask
<1>4. what \in CallType /\ (what.pc \in {"open", "write"} => what.plan # <<>>)
  <2>1. OneRow(k.slice, new) \in CallType /\ OneRow(k.slice, new).plan # <<>>
    <3> HIDE DEF new
    <3>1. QED BY <1>2, <1>3, OneRowPlanned
  <2> HIDE DEF new, k, now
  <2>2. QED BY <2>1, Phases
<1> HIDE DEF what
<1>5. QED BY <1>1, <1>4, GoesTypes

LEMMA ReadOwnTypes ==
  ASSUME Types, NEW c \in Callers, ReadOwn(c)
  PROVE  Types'
<1> DEFINE k   == call[c]
           own == RbgsOf(file[k.slice])
           all == [pc |-> "all", slice |-> k.slice, want |-> k.want,
                   own |-> own, next |-> 0, union |-> Missing]
           what == IF Cardinality(own) = k.want THEN Idle ELSE all
<1>1. Goes(c, what) /\ k.pc = "own"
  BY DEF ReadOwn
<1>2. k.slice \in Slices /\ k.want \in Nat
  BY <1>1, CallKind, Kinds
<1>3. all \in CallType /\ all.pc = "all"
  <2>1. own \in Mask /\ 0 \in Slices /\ Missing \in Union
    BY <1>2, Shown, Slots DEF Union
  <2> HIDE DEF own, k
  <2>2. QED BY <1>2, <2>1, Phases
<1>4. what \in CallType /\ (what.pc \in {"open", "write"} => what.plan # <<>>)
  <2> HIDE DEF all
  <2>1. QED BY <1>3, Phases
<1> HIDE DEF what
<1>5. QED BY <1>1, <1>4, GoesTypes

LEMMA ReadAllTypes ==
  ASSUME Types, NEW c \in Callers, ReadAll(c)
  PROVE  Types'
<1> DEFINE k == call[c]
           more == [k EXCEPT !.next = @ + 1, !.union = Joined(@, file[k.next])]
           what == IF Raises(k.union, file[k.next]) THEN Idle ELSE more
<1>1. Goes(c, what) /\ k.pc = "all" /\ k.next < LastFile
  BY DEF ReadAll
<1>2. /\ k \in [pc : {"own", "all"}, slice : Slices, want : Nat,
                own : Mask, next : Slices, union : Union]
      /\ k.next \in Slices /\ k.union \in Union
  BY <1>1, CallKind, Kinds
<1>3. k.next + 1 \in Slices
  BY <1>1, <1>2, Slots
<1>4. Joined(k.union, file[k.next]) \in Union
  BY <1>2, Shown, JoinedRows
<1>5. more \in [pc : {"all"}, slice : Slices, want : Nat,
                own : Mask, next : Slices, union : Union] /\ more.pc = "all"
  <2> HIDE DEF k
  <2>1. QED BY <1>1, <1>2, <1>3, <1>4
<1>6. what \in CallType /\ (what.pc \in {"open", "write"} => what.plan # <<>>)
  <2> HIDE DEF more
  <2>1. more \in CallType
    BY <1>5 DEF CallType, Union
  <2>2. QED BY <1>5, <2>1, Phases
<1> HIDE DEF what
<1>7. QED BY <1>1, <1>6, GoesTypes

\* What Decide writes, if it writes.
Decided(k) ==
  LET all  == Joined(k.union, file[LastFile])
      free == IF HasRow(all) THEN Rbgs \ all ELSE {}
  IN Resize(k.own, free, k.want)

LEMMA DecidedRow ==
  ASSUME Types, NEW c \in Callers, call[c].pc = "all"
  PROVE  /\ Decided(call[c]) \in Mask
         /\ (Decided(call[c]) \ call[c].own)
               \cap RbgsOf(Joined(call[c].union, file[LastFile])) = {}
<1> DEFINE k == call[c]
           all  == Joined(k.union, file[LastFile])
           free == IF HasRow(all) THEN Rbgs \ all ELSE {}
<1>1. k.own \in Mask /\ k.want \in Nat /\ k.union \in Union
  BY CallKind, Kinds
<1>2. all \in Union
  BY <1>1, Shown, Slots, JoinedRows
<1>3. free \in Mask /\ free \cap RbgsOf(all) = {}
  BY DEF Mask, RbgsOf
<1>4. Decided(k) = Resize(k.own, free, k.want)
  BY DEF Decided
<1> HIDE DEF free
<1>5. Decided(k) \in Mask /\ Decided(k) \subseteq k.own \cup free
  <2> DEFINE own == k.own
             want == k.want
  <2>1. own \in Mask /\ want \in Nat
    BY <1>1
  <2> HIDE DEF own, want
  <2>2. /\ Resize(own, free, want) \in Mask
        /\ Resize(own, free, want) \subseteq own \cup free
    BY <1>3, <2>1, ResizeTakesFree
  <2>3. QED BY <1>4, <2>2 DEF own, want
<1>6. QED BY <1>3, <1>5

LEMMA DecideTypes ==
  ASSUME Types, NEW c \in Callers, Decide(c)
  PROVE  Types'
<1> DEFINE k == call[c]
           what == IF Raises(k.union, file[LastFile]) \/ k.own = {} THEN Idle
                   ELSE OneRow(k.slice, Decided(k))
<1>1. Goes(c, what) /\ k.pc = "all"
  BY DEF Decide, Decided, OneRow
<1>2. k.slice \in Slices /\ Decided(k) \in Mask
  BY <1>1, CallKind, Kinds, DecidedRow
<1>3. what \in CallType /\ (what.pc \in {"open", "write"} => what.plan # <<>>)
  <2>1. OneRow(k.slice, Decided(k)) \in CallType /\ OneRow(k.slice, Decided(k)).plan # <<>>
    BY <1>2, OneRowPlanned
  <2>2. QED BY <2>1, Phases
<1> HIDE DEF what
<1>4. QED BY <1>1, <1>3, GoesTypes

LEMMA OpenFileTypes ==
  ASSUME Types, NEW c \in Callers, OpenFile(c)
  PROVE  Types'
<1> DEFINE e == Head(call[c].plan)
<1>1. call[c].pc = "open" /\ e \in PlanEntry
  BY RestOfPlan DEF OpenFile
<1>2. CASE e.optional /\ file[e.slice] # Missing
  <2>1. Finish(c, Tail(call[c].plan)) /\ UNCHANGED <<file, held>>
    BY <1>2 DEF OpenFile
  <2>2. file' \in [Slices -> Content] /\ held' \in [Callers -> [Slices -> Mask]]
    BY <2>1, TypesParts
  <2>3. QED BY <1>1, <2>1, <2>2, FinishTypes
<1>3. CASE ~(e.optional /\ file[e.slice] # Missing)
  <2>1. /\ Store(e.slice, Empty)
        /\ call' = [call EXCEPT ![c].pc = "write"]
        /\ UNCHANGED calls /\ UNCHANGED history /\ UNCHANGED reader
    BY <1>3 DEF OpenFile
  <2>2. e.slice \in Slices /\ Empty \in Content
    BY <1>1 DEF PlanEntry, Content
  <2>3. file' \in [Slices -> Content] /\ held' \in [Callers -> [Slices -> Mask]]
    BY <2>1, <2>2, StoreTypes
  <2> DEFINE what == [call[c] EXCEPT !.pc = "write"]
  <2>4. what \in CallType /\ what.plan # <<>>
    <3>1. call[c] \in [pc : {"open", "write"}, names : SUBSET Slices, plan : Seq(PlanEntry)]
      BY <1>1, CallKind, Kinds
    <3>2. /\ what \in [pc : {"open", "write"}, names : SUBSET Slices, plan : Seq(PlanEntry)]
          /\ what.plan = call[c].plan
      BY <3>1
    <3> HIDE DEF what
    <3>3. QED BY <1>1, <3>2, RestOfPlan DEF CallType, PlanEntry
  <2>5. call' = [call EXCEPT ![c] = what]
    BY <2>1, TypesParts DEF Calling
  <2> HIDE DEF what
  <2>6. Calling'
    BY <2>4, <2>5, CallingKept, TypesParts
  <2>7. Reading'
    BY <2>1, ReadingKept, TypesParts
  <2>8. UNCHANGED <<calls, apart, raced, cutShort>>
    BY <2>1 DEF history
  <2>9. QED
    BY <2>3, <2>6, <2>7, <2>8, TypesParts DEF Types, TypeOK, Calling, Reading, Content
<1>4. QED BY <1>2, <1>3

LEMMA CloseFileTypes ==
  ASSUME Types, NEW c \in Callers, CloseFile(c)
  PROVE  Types'
<1> DEFINE e == Head(call[c].plan)
<1>1. call[c].pc = "write" /\ e \in PlanEntry
  BY RestOfPlan DEF CloseFile
<1>2. Store(e.slice, e.row) /\ Finish(c, Tail(call[c].plan))
  BY DEF CloseFile
<1>3. e.slice \in Slices /\ e.row \in Content
  BY <1>1 DEF PlanEntry, Content
<1>4. file' \in [Slices -> Content] /\ held' \in [Callers -> [Slices -> Mask]]
  BY <1>2, <1>3, StoreTypes
<1>5. QED BY <1>1, <1>2, <1>4, FinishTypes

LEMMA KilledTypes ==
  ASSUME Types, NEW c \in Callers, Killed(c)
  PROVE  Types'
<1>1. Calling'
  BY Phases, CallingKept, TypesParts DEF Killed
<1>2. Reading'
  BY ReadingKept, TypesParts DEF Killed
<1>3. held' \in [Callers -> [Slices -> Mask]]
  BY NothingTyped, TypesParts DEF Killed
<1>4. cutShort' \in BOOLEAN /\ UNCHANGED <<file, calls, apart, raced>>
  BY TypesParts DEF Killed
<1>5. QED
  BY <1>1, <1>2, <1>3, <1>4, TypesParts DEF Types, TypeOK, Calling, Reading, Content

LEMMA InForceTyped ==
  ASSUME NEW x \in Content
  PROVE  /\ InForce(x) \in {Off} \cup SUBSET (0 .. CellRbgs - 1)
         /\ InForce(x) = Off => ~HasRow(x)
<1>1. CASE HasRow(x)
  <2>1. x \in Mask /\ InForce(x) = x \cap (0 .. CellRbgs - 1)
    BY <1>1, RowFacts DEF InForce
  <2>2. InForce(x) \in Mask
    BY <2>1 DEF Mask
  <2>3. QED BY <2>1, <2>2, RowFacts
<1>2. CASE ~HasRow(x)
  BY <1>2 DEF InForce
<1>3. QED BY <1>1, <1>2

LEMMA UpdateTypes ==
  ASSUME Types, Update
  PROVE  Types'
<1>1. UNCHANGED <<file, call, calls, held>> /\ UNCHANGED <<apart, raced, cutShort>>
  BY DEF Update, StartUpdate, ReadMask, history
<1>2. Reading'
  <2>1. CASE StartUpdate
    <3> DEFINE line == IF lineNo >= MaxLines THEN 0 ELSE lineNo
    <3>1. /\ enb' = [pc |-> "read", slice |-> 0, line |-> line] /\ lineNo' = line
          /\ slicing' = slicing
      BY <2>1 DEF StartUpdate
    <3>2. line \in 0 .. MaxLines - 1 /\ line \in 0 .. MaxLines /\ line < MaxLines
      <4>1. lineNo \in 0 .. MaxLines
        BY TypesParts DEF Reading
      <4>2. MaxLines \in Nat \ {0}
        BY BoundsAssumption
      <4>3. QED BY ONLY <4>1, <4>2
    <3> HIDE DEF line
    <3>3. QED BY <3>1, <3>2, Slots, TypesParts DEF Reading
  <2>2. CASE ReadMask
    <3> DEFINE content == file[enb.slice]
    <3>1. /\ enb \in [pc : {"read"}, slice : Slices, line : 0 .. MaxLines - 1]
          /\ enb.slice \in Slices /\ enb.pc = "read" /\ lineNo < MaxLines
      BY <2>2, TypesParts DEF Reading, ReadMask, Idle
    <3>2. 0 \in 0 .. MaxLines - 1 /\ lineNo \in 0 .. MaxLines - 1 /\ lineNo + 1 \in 0 .. MaxLines
      BY <3>1, BoundsAssumption, TypesParts DEF Reading
    <3>3. CASE ReadAgain(content, enb.line)
      <4>1. enb' = [enb EXCEPT !.line = 0] /\ UNCHANGED <<lineNo, slicing>>
        BY <2>2, <3>3 DEF ReadMask
      <4>2. enb' \in [pc : {"read"}, slice : Slices, line : 0 .. MaxLines - 1]
        BY <3>1, <3>2, <4>1
      <4>3. QED BY <3>1, <4>1, <4>2, TypesParts DEF Reading
    <3>4. CASE ~ReadAgain(content, enb.line)
      <4>1. slicing' = [slicing EXCEPT ![enb.slice] = InForce(content)]
        BY <2>2, <3>4 DEF ReadMask
      <4>2. slicing' \in [Slices -> {Off} \cup SUBSET (0 .. CellRbgs - 1)]
        BY <3>1, <4>1, Shown, InForceTyped, TypesParts DEF Reading
      <4>3. CASE enb.slice < LastFile
        <5>1. /\ enb' = [pc |-> "read", slice |-> enb.slice + 1, line |-> lineNo]
              /\ lineNo' = lineNo
          BY <2>2, <3>4, <4>3 DEF ReadMask
        <5>2. enb.slice + 1 \in Slices
          BY <3>1, <4>3, Slots
        <5>3. QED BY <3>1, <3>2, <4>2, <5>1, <5>2, TypesParts DEF Reading
      <4>4. CASE ~(enb.slice < LastFile)
        <5>1. enb' = Idle /\ lineNo' = lineNo + 1
          BY <2>2, <3>4, <4>4 DEF ReadMask, Idle
        <5>2. QED BY <3>2, <4>2, <5>1, Phases DEF Reading
      <4>5. QED BY <4>3, <4>4
    <3>5. QED BY <3>3, <3>4
  <2>3. QED BY <2>1, <2>2 DEF Update
<1>3. QED BY <1>1, <1>2, TypesParts DEF Types, TypeOK, Reading, Content

LEMMA TypesKept == Types /\ [Next]_vars => Types'
<1> SUFFICES ASSUME Types, [Next]_vars PROVE Types'
  OBVIOUS
<1>1. ASSUME NEW c \in Callers, NewCall(c) \/ Continue(c) \/ Killed(c)
      PROVE  Types'
  BY <1>1, NewCallTypes, ReadBitTypes, ReadOwnTypes, ReadAllTypes, DecideTypes,
     OpenFileTypes, CloseFileTypes, KilledTypes DEF Continue
<1>2. CASE UNCHANGED vars
  BY <1>2 DEF vars, Types, TypeOK
<1>3. QED BY <1>1, <1>2, UpdateTypes DEF Next

\* The files hold a whole row or none, a program always has a next file to write
\* while it writes, and the eNB never leaves the lines it counts, whatever is
\* asked of the API and wherever programs are stopped.
THEOREM TypeCorrect == Spec => []TypeOK
<1>1. Types => TypeOK
  BY DEF Types
<1>2. QED BY <1>1, InitTypes, TypesKept, PTL DEF Spec

-----------------------------------------------------------------------------
(* The reader. *)

\* A slice is switched off only if it has no file: a file that is being written
\* is read again (slicing_functions.cc), so that the masks in force are never
\* those of a file that is open.
THEOREM MasksNeverTorn == Spec => NeverTorn
<1> DEFINE Whole == \A s \in Slices :
              slicing'[s] = Off => slicing[s] = Off \/ file[s] = Missing
<1>1. ASSUME Types, [Next]_vars PROVE Whole
  <2>1. CASE slicing' = slicing
    BY <2>1
  <2>2. CASE ReadMask
    <3> DEFINE content == file[enb.slice]
    <3>1. CASE ReadAgain(content, enb.line)
      BY <2>2, <3>1 DEF ReadMask
    <3>2. CASE ~ReadAgain(content, enb.line)
      <4>1. slicing' = [slicing EXCEPT ![enb.slice] = InForce(content)]
        BY <2>2, <3>2 DEF ReadMask
      <4>2. enb.slice \in Slices
        BY <2>2, <1>1, TypesParts DEF Reading, ReadMask, Idle
      <4>3. content \in Content
        BY <1>1, <4>2, Shown
      <4>4. InForce(content) = Off => content = Missing
        BY <3>2, <4>3, InForceTyped, RowFacts DEF ReadAgain, HasRow
      <4>5. slicing \in [Slices -> {Off} \cup SUBSET (0 .. CellRbgs - 1)]
        BY <1>1, TypesParts DEF Reading
      <4>6. QED BY <4>1, <4>2, <4>4, <4>5
    <3>3. QED BY <3>1, <3>2
  <2>3. ASSUME NEW c \in Callers, NewCall(c) PROVE slicing' = slicing
    BY <2>3 DEF NewCall, SetSlice, SetAllocation, SetEqual, SetSliceResources, Heuristic,
                Begin, reader
  <2>4. ASSUME NEW c \in Callers, Continue(c) \/ Killed(c) PROVE slicing' = slicing
    BY <2>4 DEF Continue, ReadBit, ReadOwn, ReadAll, Decide, OpenFile, CloseFile, Killed,
                Goes, Finish, reader
  <2>5. StartUpdate => slicing' = slicing
    BY DEF StartUpdate
  <2>6. UNCHANGED vars => slicing' = slicing
    BY DEF vars
  <2>7. QED BY <1>1, <2>1, <2>2, <2>3, <2>4, <2>5, <2>6 DEF Next, Update
<1>2. Types /\ [Next]_vars => [Whole]_vars
  BY <1>1
<1>3. QED BY <1>2, InitTypes, TypesKept, PTL DEF Spec, NeverTorn

-----------------------------------------------------------------------------
(***************************************************************************)
(* set_slice beside other programs.  What a file has shown since the call  *)
(* began it still shows, and once the call has read the file it is in the  *)
(* union: so what is free for the call was not held by anybody.            *)
(***************************************************************************)
HeldShown == \A c \in Callers, t \in Slices : held[c][t] \subseteq RbgsOf(file[t])

HeldRead ==
  \A c \in Callers : call[c].pc = "all"
     => \A t \in Slices : t < call[c].next => held[c][t] \subseteq RbgsOf(call[c].union)

Held == HeldShown /\ HeldRead

LEMMA HeldReadKept ==
  ASSUME Types, HeldRead, NEW c \in Callers, NEW what \in CallType,
         call' = [call EXCEPT ![c] = what],
         \A d \in Callers \ {c} : \A t \in Slices : held'[d][t] \subseteq held[d][t],
         what.pc = "all" => \A t \in Slices :
                              t < what.next => held'[c][t] \subseteq RbgsOf(what.union)
  PROVE  HeldRead'
<1> SUFFICES ASSUME NEW d \in Callers, call'[d].pc = "all", NEW t \in Slices,
                    t < call'[d].next
             PROVE  held'[d][t] \subseteq RbgsOf(call'[d].union)
  BY DEF HeldRead, RbgsOf, HasRow
<1>1. CASE d = c
  BY <1>1, TypesParts DEF Calling
<1>2. CASE d # c
  BY <1>2, TypesParts DEF Calling, HeldRead
<1>3. QED BY <1>1, <1>2

LEMMA GoesHeld ==
  ASSUME Types, Held, NEW c \in Callers, NEW what \in CallType, Goes(c, what),
         what.pc = "all" => \A t \in Slices :
                              t < what.next => held[c][t] \subseteq RbgsOf(what.union)
  PROVE  Held'
<1>1. /\ call' = [call EXCEPT ![c] = what] /\ file' = file
      /\ held' = IF what.pc \in {"own", "all"} THEN held ELSE [held EXCEPT ![c] = Nothing]
  BY DEF Goes
<1>2. \A d \in Callers, t \in Slices : held'[d][t] \subseteq held[d][t]
  BY <1>1, TypesParts DEF Nothing
<1>3. HeldShown'
  BY <1>1, <1>2 DEF Held, HeldShown, RbgsOf, HasRow
<1>4. HeldRead'
  BY <1>1, <1>2, HeldReadKept DEF Held
<1>5. QED BY <1>3, <1>4 DEF Held

LEMMA StoreHeld ==
  ASSUME Types, Held, NEW s \in Slices, NEW content \in Content, Store(s, content)
  PROVE  /\ HeldShown'
         /\ \A d \in Callers, t \in Slices : held'[d][t] \subseteq held[d][t]
<1>1. /\ file' = [file EXCEPT ![s] = content]
      /\ held' = [d \in Callers |-> [held[d] EXCEPT ![s] = @ \cap RbgsOf(content)]]
  BY DEF Store
<1>2. ASSUME NEW d \in Callers, NEW t \in Slices
      PROVE  held'[d][t] = IF t = s THEN held[d][t] \cap RbgsOf(content) ELSE held[d][t]
  BY <1>1, CallKind
<1>3. ASSUME NEW t \in Slices
      PROVE  file'[t] = IF t = s THEN content ELSE file[t]
  BY <1>1, TypesParts
<1>4. \A d \in Callers, t \in Slices : held'[d][t] \subseteq RbgsOf(file'[t])
  BY <1>2, <1>3 DEF Held, HeldShown
<1>5. HeldShown'
  BY <1>4 DEF HeldShown, RbgsOf, HasRow
<1>6. \A d \in Callers, t \in Slices : held'[d][t] \subseteq held[d][t]
  BY <1>2
<1>7. QED BY <1>5, <1>6

LEMMA InitHeld == Init => Held
<1> SUFFICES ASSUME Init PROVE Held
  OBVIOUS
<1>1. HeldShown
  BY DEF Init, HeldShown, Nothing
<1>2. HeldRead
  BY Phases DEF Init, HeldRead
<1>3. QED BY <1>1, <1>2 DEF Held

LEMMA BeginHeld ==
  ASSUME Types, Held, NEW c \in Callers, NEW what \in CallType, what.pc # "all",
         Begin(c, what),
         held' = held \/ held' = [held EXCEPT ![c] = [t \in Slices |-> RbgsOf(file[t])]]
  PROVE  Held'
<1>1. call' = [call EXCEPT ![c] = what] /\ file' = file
  BY DEF Begin
<1>2. HeldShown'
  BY <1>1, TypesParts DEF Held, HeldShown, RbgsOf, HasRow
<1>3. \A d \in Callers \ {c} : \A t \in Slices : held'[d][t] \subseteq held[d][t]
  BY TypesParts
<1>4. HeldRead'
  BY <1>1, <1>3, HeldReadKept DEF Held
<1>5. QED BY <1>2, <1>4 DEF Held

LEMMA NewCallHeld ==
  ASSUME Types, Held, NEW c \in Callers, NewCall(c)
  PROVE  Held'
<1>1. ASSUME NEW s \in Slices, NEW want \in Wants, SetSlice(c, s, want) PROVE Held'
  BY <1>1, NewCalls, BeginHeld DEF SetSlice, OwnCall
<1>2. ASSUME NEW alloc \in Allocs, SetAllocation(c, alloc) PROVE Held'
  BY <1>2, NewCalls, BeginHeld DEF SetAllocation, AllocCall
<1>3. ASSUME NEW n \in TenantNums, SetEqual(c, n) PROVE Held'
  BY <1>3, NewCalls, BeginHeld DEF SetEqual, EqualCall
<1>4. ASSUME NEW p \in Rows, SetSliceResources(c, p[1], p[2]) PROVE Held'
  BY <1>4, NewCalls, BeginHeld DEF SetSliceResources, OneRow
<1>5. ASSUME NEW p \in Bits, NEW on \in BOOLEAN, Heuristic(c, p[1], p[2], on) PROVE Held'
  BY <1>5, NewCalls, BeginHeld DEF Heuristic, BitCall
<1>6. QED BY <1>1, <1>2, <1>3, <1>4, <1>5 DEF NewCall

LEMMA ContinueHeld ==
  ASSUME Types, Held, NEW c \in Callers, Continue(c)
  PROVE  Held'
<1>1. CASE ReadBit(c)
  <2> DEFINE k   == call[c]
             now == file[k.slice]
             new == IF k.on THEN RbgsOf(now) \cup {k.bit} ELSE RbgsOf(now) \ {k.bit}
             what == IF HasRow(now) /\ new # now THEN OneRow(k.slice, new) ELSE Idle
  <2>1. Goes(c, what) /\ k.pc = "bit"
    BY <1>1 DEF ReadBit, OneRow
  <2>2. k.slice \in Slices /\ k.bit \in Rbgs
    BY <2>1, CallKind, Kinds
  <2>3. new \in Mask
    BY <2>2, Shown DEF Mask
  <2>4. what \in CallType /\ what.pc # "all"
    <3> HIDE DEF new, k, now
    <3>1. QED BY <2>2, <2>3, OneRowPlanned, Phases
  <2> HIDE DEF what
  <2>5. QED BY <2>1, <2>4, GoesHeld
<1>2. CASE ReadOwn(c)
  <2> DEFINE k   == call[c]
             own == RbgsOf(file[k.slice])
             all == [pc |-> "all", slice |-> k.slice, want |-> k.want,
                     own |-> own, next |-> 0, union |-> Missing]
             what == IF Cardinality(own) = k.want THEN Idle ELSE all
  <2>1. Goes(c, what) /\ k.pc = "own"
    BY <1>2 DEF ReadOwn
  <2>2. k.slice \in Slices /\ k.want \in Nat
    BY <2>1, CallKind, Kinds
  <2>3. all \in CallType /\ all.pc = "all" /\ all.next = 0
    <3>1. own \in Mask /\ 0 \in Slices /\ Missing \in Union
      BY <2>2, Shown, Slots DEF Union
    <3> HIDE DEF own, k
    <3>2. QED BY <2>2, <3>1, Phases
  <2>4. what \in CallType /\ (what.pc = "all" => what.next = 0)
    <3> HIDE DEF all
    <3>1. QED BY <2>3, Phases
  <2>5. \A t \in Slices : ~(t < 0)
    BY Slots
  <2> HIDE DEF what
  <2>6. QED BY <2>1, <2>4, <2>5, GoesHeld
<1>3. CASE ReadAll(c)
  <2> DEFINE k == call[c]
             more == [k EXCEPT !.next = @ + 1, !.union = Joined(@, file[k.next])]
             what == IF Raises(k.union, file[k.next]) THEN Idle ELSE more
  <2>1. Goes(c, what) /\ k.pc = "all" /\ k.next < LastFile
    BY <1>3 DEF ReadAll
  <2>2. /\ k \in [pc : {"own", "all"}, slice : Slices, want : Nat,
                  own : Mask, next : Slices, union : Union]
        /\ k.next \in Slices /\ k.union \in Union
    BY <2>1, CallKind, Kinds
  <2>3. k.next + 1 \in Slices
    BY <2>1, <2>2, Slots
  <2>4. /\ Joined(k.union, file[k.next]) \in Union
        /\ RbgsOf(k.union) \subseteq RbgsOf(Joined(k.union, file[k.next]))
        /\ ~Raises(k.union, file[k.next])
             => RbgsOf(file[k.next]) \subseteq RbgsOf(Joined(k.union, file[k.next]))
    BY <2>2, Shown, JoinedRows
  <2>5. /\ more \in [pc : {"all"}, slice : Slices, want : Nat,
                  own : Mask, next : Slices, union : Union]
        /\ more.next = k.next + 1 /\ more.union = Joined(k.union, file[k.next])
    <3> HIDE DEF k
    <3>1. QED BY <2>1, <2>2, <2>3, <2>4
  <2>6. ASSUME ~Raises(k.union, file[k.next]), NEW t \in Slices, t < k.next + 1
        PROVE  held[c][t] \subseteq RbgsOf(Joined(k.union, file[k.next]))
    <3>1. t < k.next \/ t = k.next
      BY <2>2, <2>6, Slots
    <3>2. t < k.next => held[c][t] \subseteq RbgsOf(k.union)
      BY <2>1 DEF Held, HeldRead
    <3>3. held[c][t] \subseteq RbgsOf(file[t])
      BY DEF Held, HeldShown
    <3>4. QED BY <2>4, <2>6, <3>1, <3>2, <3>3
  <2>7. /\ what \in CallType
        /\ what.pc = "all" => \A t \in Slices :
                                t < what.next => held[c][t] \subseteq RbgsOf(what.union)
    <3>1. CASE Raises(k.union, file[k.next])
      BY <3>1, Phases
    <3>2. CASE ~Raises(k.union, file[k.next])
      <4>1. what = more
        BY <3>2
      <4> HIDE DEF more, what
      <4>2. more \in CallType
        BY <2>5 DEF CallType, Union
      <4>3. QED BY <2>5, <2>6, <3>2, <4>1, <4>2
    <3>3. QED BY <3>1, <3>2
  <2> HIDE DEF what
  <2>8. QED BY <2>1, <2>7, GoesHeld
<1>4. CASE Decide(c)
  <2> DEFINE k == call[c]
             what == IF Raises(k.union, file[LastFile]) \/ k.own = {} THEN Idle
                     ELSE OneRow(k.slice, Decided(k))
  <2>1. Goes(c, what) /\ k.pc = "all"
    BY <1>4 DEF Decide, Decided, OneRow
  <2>2. k.slice \in Slices /\ Decided(k) \in Mask
    BY <2>1, CallKind, Kinds, DecidedRow
  <2>3. OneRow(k.slice, Decided(k)) \in CallType /\ OneRow(k.slice, Decided(k)).pc = "open"
    BY <2>2, OneRowPlanned
  <2>4. what \in CallType /\ what.pc # "all"
    BY <2>3, Phases
  <2> HIDE DEF what
  <2>5. QED BY <2>1, <2>4, GoesHeld
<1>5. CASE OpenFile(c) \/ CloseFile(c)
  <2>1. /\ call'[c].pc # "all" /\ call' \in [Callers -> CallType]
        /\ \A d \in Callers \ {c} : call'[d] = call[d]
    <3>1. call' \in [Callers -> CallType]
      BY <1>5, OpenFileTypes, CloseFileTypes DEF Types
    <3>2. call[c].pc \in {"open", "write"}
      BY <1>5 DEF OpenFile, CloseFile
    <3>3. call[c] \in [pc : {"open", "write"}, names : SUBSET Slices, plan : Seq(PlanEntry)]
      BY <3>2, CallKind, Kinds
    <3>4. ASSUME NEW p, call' = [call EXCEPT ![c] = IF p = <<>> THEN Idle
                                      ELSE [call[c] EXCEPT !.pc = "open", !.plan = p]]
          PROVE  call'[c].pc # "all" /\ \A d \in Callers \ {c} : call'[d] = call[d]
      BY <3>3, <3>4, Phases, TypesParts DEF Calling
    <3>5. ASSUME call' = [call EXCEPT ![c].pc = "write"]
          PROVE  call'[c].pc # "all" /\ \A d \in Callers \ {c} : call'[d] = call[d]
      BY <3>3, <3>5, TypesParts DEF Calling
    <3>6. QED BY <1>5, <3>1, <3>4, <3>5 DEF OpenFile, CloseFile, Finish
  <2>2. /\ HeldShown'
        /\ \A d \in Callers, t \in Slices : held'[d][t] \subseteq held[d][t]
    <3> DEFINE e == Head(call[c].plan)
    <3>1. e \in PlanEntry /\ e.slice \in Slices /\ e.row \in Content /\ Empty \in Content
      BY <1>5, RestOfPlan DEF OpenFile, CloseFile, PlanEntry, Content
    <3>2. CASE UNCHANGED <<file, held>>
      BY <3>2 DEF Held, HeldShown, RbgsOf, HasRow
    <3>3. CASE Store(e.slice, Empty) \/ Store(e.slice, e.row)
      BY <3>1, <3>3, StoreHeld
    <3>4. QED BY <1>5, <3>2, <3>3 DEF OpenFile, CloseFile
  <2>3. HeldRead'
    BY <2>1, <2>2 DEF Held, HeldRead, RbgsOf, HasRow
  <2>4. QED BY <2>2, <2>3 DEF Held
<1>6. QED BY <1>1, <1>2, <1>3, <1>4, <1>5 DEF Continue

LEMMA HeldKept == Types /\ Held /\ [Next]_vars => Held'
<1> SUFFICES ASSUME Types, Held, [Next]_vars PROVE Held'
  OBVIOUS
<1>1. ASSUME NEW c \in Callers, Killed(c) PROVE Held'
  <2>1. /\ call' = [call EXCEPT ![c] = Dead] /\ file' = file
        /\ held' = [held EXCEPT ![c] = Nothing]
    BY <1>1 DEF Killed
  <2>2. \A d \in Callers, t \in Slices : held'[d][t] \subseteq held[d][t]
    BY <2>1, TypesParts DEF Nothing
  <2>3. HeldShown'
    BY <2>1, <2>2 DEF Held, HeldShown, RbgsOf, HasRow
  <2>4. HeldRead'
    BY <2>1, <2>2, Phases, HeldReadKept DEF Held
  <2>5. QED BY <2>3, <2>4 DEF Held
<1>2. CASE UNCHANGED <<file, call, held>>
  BY <1>2 DEF Held, HeldShown, HeldRead, RbgsOf, HasRow
<1>3. Update \/ UNCHANGED vars => UNCHANGED <<file, call, held>>
  BY DEF Update, StartUpdate, ReadMask, vars
<1>4. QED BY <1>1, <1>2, <1>3, NewCallHeld, ContinueHeld DEF Next

\* set_slice goes from reading to writing only by Decide.
LEMMA DecidedStep ==
  ASSUME Types, [Next]_vars, NEW c \in Callers, call[c].pc = "all", call'[c].pc = "open"
  PROVE  /\ call'[c] = OneRow(call[c].slice, Decided(call[c]))
         /\ ~Raises(call[c].union, file[LastFile]) /\ call[c].own # {}
         /\ call[c].next = LastFile
<1> DEFINE k == call[c]
<1>1. ASSUME NEW d \in Callers, NEW what, call' = [call EXCEPT ![d] = what], d # c
      PROVE  FALSE
  BY <1>1, TypesParts DEF Calling
<1>2. ASSUME NEW d \in Callers, NewCall(d) PROVE FALSE
  <2>1. PICK what : Begin(d, what)
    BY <1>2 DEF NewCall, SetSlice, SetAllocation, SetEqual, SetSliceResources, Heuristic
  <2>2. call[d] = Idle /\ call' = [call EXCEPT ![d] = what]
    BY <2>1 DEF Begin
  <2>3. d # c
    BY <2>2, Phases
  <2>4. QED BY <1>1, <2>2, <2>3
<1>3. ASSUME NEW d \in Callers, Killed(d) PROVE FALSE
  <2>1. call' = [call EXCEPT ![d] = Dead]
    BY <1>3 DEF Killed
  <2>2. d # c
    BY <2>1, Phases, TypesParts DEF Calling
  <2>3. QED BY <1>1, <2>1, <2>2
<1>4. ASSUME Update \/ UNCHANGED vars PROVE FALSE
  BY <1>4 DEF Update, StartUpdate, ReadMask, vars
<1>5. ASSUME NEW d \in Callers, Continue(d), d # c PROVE FALSE
  <2>1. \E what : call' = [call EXCEPT ![d] = what]
    <3>1. CASE OpenFile(d)
      <4>1. \/ call' = [call EXCEPT ![d].pc = "write"]
            \/ Finish(d, Tail(call[d].plan))
        BY <3>1 DEF OpenFile
      <4>2. [call EXCEPT ![d].pc = "write"]
              = [call EXCEPT ![d] = [call[d] EXCEPT !.pc = "write"]]
        BY TypesParts DEF Calling
      <4>3. QED BY <4>1, <4>2 DEF Finish
    <3>2. CASE CloseFile(d)
      BY <3>2 DEF CloseFile, Finish
    <3>3. CASE ReadBit(d) \/ ReadOwn(d) \/ ReadAll(d) \/ Decide(d)
      BY <3>3 DEF ReadBit, ReadOwn, ReadAll, Decide, Goes
    <3>4. QED BY <1>5, <3>1, <3>2, <3>3 DEF Continue
  <2>2. QED BY <1>1, <1>5, <2>1
<1>6. Continue(c)
  BY <1>2, <1>3, <1>4, <1>5 DEF Next
<1>7. ReadAll(c) \/ Decide(c)
  BY <1>6 DEF Continue, ReadBit, ReadOwn, OpenFile, CloseFile
<1>8. CASE ReadAll(c)
  <2> DEFINE more == [k EXCEPT !.next = @ + 1, !.union = Joined(@, file[k.next])]
             what == IF Raises(k.union, file[k.next]) THEN Idle ELSE more
  <2>1. Goes(c, what)
    BY <1>8 DEF ReadAll
  <2>2. call'[c] = what
    BY <2>1, TypesParts DEF Goes, Calling
  <2>3. more.pc = "all"
    <3>1. k \in [pc : {"own", "all"}, slice : Slices, want : Nat,
                 own : Mask, next : Slices, union : Union]
      BY CallKind, Kinds
    <3> HIDE DEF k
    <3>2. QED BY <3>1 DEF k
  <2>4. QED BY <2>2, <2>3, Phases
<1>9. CASE Decide(c)
  <2> DEFINE what == IF Raises(k.union, file[LastFile]) \/ k.own = {} THEN Idle
                     ELSE OneRow(k.slice, Decided(k))
  <2>1. Goes(c, what) /\ k.next = LastFile
    BY <1>9 DEF Decide, Decided, OneRow
  <2>2. call'[c] = what
    BY <2>1, TypesParts DEF Goes, Calling
  <2>3. QED BY <2>1, <2>2, Phases
<1>10. QED BY <1>7, <1>8, <1>9

\* set_slice never gives a slice an RBG that the file of another slice has shown
\* at every moment since the call began, however many programs call the API at
\* the same time (scope_api.py reads the files one after the other and has no
\* lock).
THEOREM NothingHeldTaken == Spec => TakesNothingHeld
<1> DEFINE Free == \A c \in Callers :
         (call[c].pc = "all" /\ call'[c].pc = "open")
            => \A t \in Slices \ {call[c].slice} :
                  (call'[c].plan[1].row \ call[c].own) \cap held[c][t] = {}
<1>1. Types /\ Held /\ [Next]_vars => Free
  <2> SUFFICES ASSUME Types, Held, [Next]_vars, NEW c \in Callers, call[c].pc = "all",
                      call'[c].pc = "open", NEW t \in Slices
               PROVE  (call'[c].plan[1].row \ call[c].own) \cap held[c][t] = {}
    OBVIOUS
  <2> DEFINE k == call[c]
             all == Joined(k.union, file[LastFile])
  <2>1. /\ call'[c] = OneRow(k.slice, Decided(k)) /\ ~Raises(k.union, file[LastFile])
        /\ k.next = LastFile
    BY DecidedStep
  <2>2. k.slice \in Slices /\ k.union \in Union /\ Decided(k) \in Mask
    BY CallKind, Kinds, DecidedRow
  <2>3. call'[c].plan[1].row = Decided(k)
    BY <2>1, <2>2, OneRowPlanned
  <2>4. (Decided(k) \ k.own) \cap RbgsOf(all) = {}
    BY DecidedRow
  <2>5. RbgsOf(k.union) \subseteq RbgsOf(all) /\ RbgsOf(file[LastFile]) \subseteq RbgsOf(all)
    BY <2>1, <2>2, Shown, Slots, JoinedRows
  <2>6. held[c][t] \subseteq RbgsOf(all)
    <3>1. t < LastFile \/ t = LastFile
      BY Slots, BoundsAssumption DEF LastFile
    <3>2. t < LastFile => held[c][t] \subseteq RbgsOf(k.union)
      BY <2>1 DEF Held, HeldRead
    <3>3. held[c][t] \subseteq RbgsOf(file[t])
      BY DEF Held, HeldShown
    <3>4. QED BY <2>5, <3>1, <3>2, <3>3
  <2>7. QED BY <2>3, <2>4, <2>6
<1>2. Types /\ Held /\ [Next]_vars => [Free]_vars
  BY <1>1
<1>3. QED BY <1>2, InitTypes, InitHeld, TypesKept, HeldKept, PTL DEF Spec, TakesNothingHeld

-----------------------------------------------------------------------------
(***************************************************************************)
(* How many RBGs set_slice ends with.                                      *)
(***************************************************************************)
LEMMA Counted ==
  ASSUME NEW m \in Mask
  PROVE  m \in SUBSET Int /\ IsFiniteSet(m) /\ Cardinality(m) \in Nat
<1>1. Rbgs \subseteq Int /\ IsFiniteSet(Rbgs)
  <2>1. 0 \in Int /\ NofRbgs - 1 \in Int
    BY BoundsAssumption
  <2>2. QED BY <2>1, FS_Interval DEF Rbgs
<1>2. m \in SUBSET Int /\ IsFiniteSet(m)
  BY <1>1, FS_Subset DEF Mask
<1>3. QED BY <1>2, FS_CardinalityType

LEMMA LowestOf ==
  ASSUME NEW m \in Mask, m # {}
  PROVE  Min(m) \in m
<1>1. \E v \in m : \A w \in m : v <= w
  BY Counted, LeastExists
<1>2. QED BY <1>1 DEF Min

\* The order in which RBGs are tried is total on those beside the lowest one.
Tried(lo, S) == {p \in S \X S : Sooner(lo, p[1], p[2])}

LEMMA TriedOrders ==
  ASSUME NEW lo \in Int, NEW S \in SUBSET Int, lo \notin S
  PROVE  /\ TotalOrder(S, Tried(lo, S))
         /\ \A r \in S : Ahead(S, Tried(lo, S), r) = {q \in S : Sooner(lo, q, r)}
<1>1. \A q, r \in S : <<q, r>> \in Tried(lo, S) <=> Sooner(lo, q, r)
  BY DEF Tried
<1>2. \A q \in S : q \in Int /\ (q > lo \/ q < lo)
  OBVIOUS
<1>3. /\ \A q \in S : ~Sooner(lo, q, q)
      /\ \A q, r \in S : q # r => Sooner(lo, q, r) \/ Sooner(lo, r, q)
  BY <1>2 DEF Sooner
<1>4. \A p, q, r \in S : Sooner(lo, p, q) /\ Sooner(lo, q, r) => Sooner(lo, p, r)
  BY <1>2 DEF Sooner
<1>5. TotalOrder(S, Tried(lo, S))
  BY <1>1, <1>3, <1>4, Zenon DEF TotalOrder
<1>6. QED BY <1>1, <1>5 DEF Ahead

\* As many of the candidates as are wanted, or all of them.
LEMMA FirstWanted ==
  ASSUME NEW S, NEW R, IsFiniteSet(S), TotalOrder(S, R), NEW k \in Nat
  PROVE  LET taken == {r \in S : Cardinality(Ahead(S, R, r)) < k}
         IN \/ Cardinality(taken) = k
            \/ taken = S /\ Cardinality(S) < k
<1> DEFINE taken == {r \in S : Cardinality(Ahead(S, R, r)) < k}
<1>1. Cardinality(S) \in Nat
  BY FS_CardinalityType
<1>2. CASE k <= Cardinality(S)
  <2>1. k \in 0 .. Cardinality(S)
    BY <1>1, <1>2
  <2>2. QED BY <2>1, FirstCount
<1>3. CASE k > Cardinality(S)
  <2>1. \A r \in S : Cardinality(Ahead(S, R, r)) \in 0 .. Cardinality(S) - 1
    BY AheadCounts
  <2>2. \A r \in S : Cardinality(Ahead(S, R, r)) < k
    BY <1>1, <1>3, <2>1
  <2>3. taken = S
    BY <2>2
  <2>4. QED BY <1>1, <1>3, <2>3
<1>4. QED BY <1>1, <1>2, <1>3

LEMMA ShrinkSize ==
  ASSUME NEW own \in Mask, NEW want \in Nat, want <= Cardinality(own)
  PROVE  Shrink(own, want) \subseteq own /\ Cardinality(Shrink(own, want)) = want
<1>1. own \in SUBSET Int /\ IsFiniteSet(own) /\ Cardinality(own) \in Nat
  BY Counted
<1>2. want \in 0 .. Cardinality(own)
  BY <1>1
<1>3. Shrink(own, want) = {r \in own : Cardinality(Lower(own, r)) < want}
  BY DEF Shrink, Lower
<1>4. QED BY <1>1, <1>2, <1>3, LowestCount

LEMMA GrowSize ==
  ASSUME NEW own \in Mask, own # {}, NEW free \in Mask, NEW want \in Nat,
         Cardinality(own) < want
  PROVE  /\ own \subseteq Grow(own, free, want)
         /\ Cardinality(Grow(own, free, want)) \in Nat
         /\ Cardinality(Grow(own, free, want)) <= want
         /\ \/ Cardinality(Grow(own, free, want)) = want
            \/ (1 .. MaxRbg - 1) \cap free \subseteq Grow(own, free, want)
<1> DEFINE lo    == Min(own)
           cand  == IF \A r \in free : r >= MaxRbg
                    THEN {} ELSE (free \ own) \cap (RightOf(lo) \cup LeftOf(lo))
           k     == want - Cardinality(own)
           R     == Tried(lo, cand)
           taken == {r \in cand : Cardinality(Ahead(cand, R, r)) < k}
<1>1. lo \in own /\ lo \in Int /\ Cardinality(own) \in Nat /\ IsFiniteSet(own)
  BY LowestOf, Counted
<1>2. cand \in Mask /\ lo \notin cand /\ cand \cap own = {}
  BY <1>1 DEF Mask
<1>3. cand \in SUBSET Int /\ IsFiniteSet(cand)
  BY <1>2, Counted
<1>4. /\ TotalOrder(cand, R)
      /\ \A r \in cand : Ahead(cand, R, r) = {q \in cand : Sooner(lo, q, r)}
  <2> HIDE DEF cand, lo
  <2>1. QED BY <1>1, <1>2, <1>3, TriedOrders
<1>5. Grow(own, free, want) = own \cup taken
  <2>1. taken = {r \in cand : Cardinality({q \in cand : Sooner(lo, q, r)}) < k}
    BY <1>4
  <2> HIDE DEF taken
  <2>2. QED BY <2>1 DEF Grow
<1>6. k \in Nat
  BY <1>1
<1>7. Cardinality(taken) = k \/ (taken = cand /\ Cardinality(cand) < k)
  <2> HIDE DEF cand, R, k
  <2>1. QED BY <1>3, <1>4, <1>6, FirstWanted
<1>8. taken \subseteq cand
  OBVIOUS
<1>9. (1 .. MaxRbg - 1) \cap free \subseteq own \cup cand
  <2> SUFFICES ASSUME NEW r \in 1 .. MaxRbg - 1, r \in free, r \notin own
               PROVE  r \in cand
    OBVIOUS
  <2>1. MaxRbg \in Int /\ r \in Int /\ r \in Nat
    BY BoundsAssumption
  <2>2. ~(r >= MaxRbg)
    BY <2>1
  <2>3. r # lo
    BY <1>1
  <2>4. r \in RightOf(lo) \cup LeftOf(lo)
    BY <1>1, <2>1, <2>2, <2>3 DEF RightOf, LeftOf
  <2> HIDE DEF lo
  <2>5. QED BY <2>2, <2>4
<1> HIDE DEF taken, cand, k, lo, R
<1>10. IsFiniteSet(taken) /\ Cardinality(taken) \in Nat /\ taken \cap own = {}
  BY <1>2, <1>3, <1>8, FS_Subset, FS_CardinalityType
<1>11. Cardinality(own \cup taken) = Cardinality(own) + Cardinality(taken)
  <2>1. own \cap taken = {}
    BY <1>10
  <2>2. Cardinality(own \cup taken)
          = Cardinality(own) + Cardinality(taken) - Cardinality(own \cap taken)
    BY <1>1, <1>10, FS_Union
  <2>3. Cardinality(own \cap taken) = 0
    BY <2>1, FS_EmptySet
  <2>4. QED BY <1>1, <1>10, <2>2, <2>3
<1>12. Cardinality(own \cup taken) = want \/ (taken = cand /\ Cardinality(own \cup taken) < want)
  BY <1>1, <1>7, <1>10, <1>11 DEF k
<1>13. Cardinality(own \cup taken) \in Nat
  BY <1>1, <1>10, <1>11
<1>14. QED BY <1>5, <1>9, <1>12, <1>13

LEMMA MaxOfTwo ==
  ASSUME NEW a \in Nat, NEW b \in Nat
  PROVE  Max({a, b}) = IF a >= b THEN a ELSE b
<1>1. \E x \in {a, b} : \A y \in {a, b} : x >= y
  OBVIOUS
<1>2. Max({a, b}) \in {a, b} /\ \A y \in {a, b} : Max({a, b}) >= y
  BY <1>1 DEF Max
<1>3. QED BY <1>2

\* What set_slice writes, for what it read.
LEMMA DecidedSize ==
  ASSUME Types, NEW c \in Callers, call[c].pc = "all", call[c].own # {}
  PROVE  LET k   == call[c]
             all == Joined(k.union, file[LastFile])
             new == Decided(k)
         IN /\ new \subseteq k.own \/ k.own \subseteq new
            /\ Cardinality(new) <= Max({k.want, Cardinality(k.own)})
            /\ \/ Cardinality(new) = k.want
               \/ ~HasRow(all)
               \/ 1 .. MaxRbg - 1 \subseteq new \cup all
<1> DEFINE own  == call[c].own
           want == call[c].want
           all  == Joined(call[c].union, file[LastFile])
           free == IF HasRow(all) THEN Rbgs \ all ELSE {}
           new  == Resize(own, free, want)
<1>1. own \in Mask /\ own # {} /\ want \in Nat
  BY CallKind, Kinds
<1>2. free \in Mask
  BY DEF Mask
<1>3. Decided(call[c]) = new
  BY DEF Decided
<1>4. HasRow(all) => (1 .. MaxRbg - 1) \subseteq all \cup ((1 .. MaxRbg - 1) \cap free)
  <2>1. 1 .. MaxRbg - 1 \subseteq Rbgs
    BY BoundsAssumption DEF Rbgs
  <2>2. QED BY <2>1
<1>5. Cardinality(own) \in Nat
  BY <1>1, Counted
<1> HIDE DEF own, want, all, free
<1>6. Max({want, Cardinality(own)}) = IF want >= Cardinality(own) THEN want ELSE Cardinality(own)
  BY <1>1, <1>5, MaxOfTwo
<1>7. CASE Cardinality(own) < want
  <2>1. new = Grow(own, free, want)
    BY <1>7 DEF Resize
  <2> HIDE DEF new
  <2>2. /\ own \subseteq new /\ Cardinality(new) \in Nat /\ Cardinality(new) <= want
        /\ Cardinality(new) = want \/ (1 .. MaxRbg - 1) \cap free \subseteq new
    BY <1>1, <1>2, <1>7, <2>1, GrowSize
  <2>3. Cardinality(new) <= Max({want, Cardinality(own)})
    BY <1>1, <1>5, <1>6, <1>7, <2>2
  <2>4. Cardinality(new) = want \/ ~HasRow(all) \/ 1 .. MaxRbg - 1 \subseteq new \cup all
    BY <1>4, <2>2
  <2>5. QED BY <1>3, <2>2, <2>3, <2>4 DEF own, want, all
<1>8. CASE ~(Cardinality(own) < want)
  <2>1. new = Shrink(own, want) /\ want <= Cardinality(own)
    BY <1>1, <1>5, <1>8 DEF Resize
  <2> HIDE DEF new
  <2>2. new \subseteq own /\ Cardinality(new) = want
    BY <1>1, <2>1, ShrinkSize
  <2>3. Cardinality(new) <= Max({want, Cardinality(own)})
    BY <1>1, <1>5, <1>6, <2>1, <2>2
  <2>4. QED BY <1>3, <2>2, <2>3 DEF own, want, all
<1>9. QED BY <1>7, <1>8

\* set_slice gives a slice as many RBGs as were asked for, and ends short of it
\* only if none of the RBGs it tries is left in the rows it read, whatever the
\* shape of the masks: the walk to the right and to the left of
\* write_slice_allocation_relative misses no free RBG from 1 to MaxRbg - 1.
THEOREM SizesRight == Spec => SizesAsAsked
<1> DEFINE Asked == \A c \in Callers :
         (call[c].pc = "all" /\ call'[c].pc = "open")
            => LET k   == call[c]
                   new == call'[c].plan[1].row
               IN /\ new \subseteq k.own \/ k.own \subseteq new
                  /\ Cardinality(new) <= Max({k.want, Cardinality(k.own)})
                  /\ \/ Cardinality(new) = k.want
                     \/ ~HasRow(Joined(k.union, file[LastFile]))
                     \/ 1 .. MaxRbg - 1
                          \subseteq new \cup Joined(k.union, file[LastFile])
<1>1. Types /\ [Next]_vars => Asked
  <2> SUFFICES ASSUME Types, [Next]_vars PROVE Asked
    OBVIOUS
  <2>1. ASSUME NEW c \in Callers, call[c].pc = "all", call'[c].pc = "open"
        PROVE  call'[c].plan[1].row = Decided(call[c]) /\ call[c].own # {}
    <3>1. call'[c] = OneRow(call[c].slice, Decided(call[c])) /\ call[c].own # {}
      BY <2>1, DecidedStep
    <3>2. call[c].slice \in Slices /\ Decided(call[c]) \in Mask
      BY <2>1, CallKind, Kinds, DecidedRow
    <3>3. QED BY <3>1, <3>2, OneRowPlanned
  <2>2. QED BY <2>1, DecidedSize
<1>2. Types /\ [Next]_vars => [Asked]_vars
  BY <1>1
<1>3. QED BY <1>2, InitTypes, TypesKept, PTL DEF Spec, SizesAsAsked

-----------------------------------------------------------------------------
(***************************************************************************)
(* Calls one after the other.  This needs inputs that are apart: the files *)
(* at the start, the ranges of an allocation, and equal divisions that can *)
(* serve every tenant (EqualPlan stops at one it cannot serve).            *)
(***************************************************************************)
InputsApart ==
  /\ \A f \in InitFiles : \A s, t \in Slices :
        s # t => RbgsOf(f[s]) \cap RbgsOf(f[t]) = {}
  /\ \A alloc \in Allocs : \A i, j \in DOMAIN alloc :
        i # j => (alloc[i][2] .. alloc[i][3]) \cap (alloc[j][2] .. alloc[j][3]) = {}
  /\ \A n \in TenantNums : \A t \in 0 .. n - 1 : Share(n, t) \subseteq Rbgs

Apart(S, f) == \A s, t \in S : s # t => RbgsOf(f[s]) \cap RbgsOf(f[t]) = {}

InPlan(p, t) == \E i \in DOMAIN p : p[i].slice = t

\* What is left of a whole allocation: the rows still to be written are apart from
\* one another and from the files written before.
PlanApart(p, names, f) ==
  /\ \A i \in DOMAIN p : p[i].optional => p[i].slice \notin names
  /\ \A i, j \in DOMAIN p :
        i # j /\ p[i].slice \in names /\ p[j].slice \in names
          => p[i].slice # p[j].slice /\ p[i].row \cap p[j].row = {}
  /\ \A i \in DOMAIN p, t \in names :
        p[i].slice \in names /\ ~InPlan(p, t) => p[i].row \cap RbgsOf(f[t]) = {}
  /\ \A s, t \in names :
        s # t /\ ~InPlan(p, s) /\ ~InPlan(p, t) => RbgsOf(f[s]) \cap RbgsOf(f[t]) = {}

LEMMA TailIndex ==
  ASSUME NEW p \in Seq(PlanEntry), p # <<>>
  PROVE  /\ Tail(p) \in Seq(PlanEntry)
         /\ \A i \in DOMAIN Tail(p) : /\ i + 1 \in DOMAIN p /\ i + 1 # 1 /\ i \in Int
                                      /\ Tail(p)[i] = p[i + 1]
         /\ \A i \in DOMAIN p : i # 1 => /\ i - 1 \in DOMAIN Tail(p)
                                         /\ p[i] = Tail(p)[i - 1]
         /\ 1 \in DOMAIN p
<1>1. /\ Tail(p) \in Seq(PlanEntry) /\ Len(Tail(p)) = Len(p) - 1
      /\ \A i \in 1 .. Len(Tail(p)) : Tail(p)[i] = p[i + 1]
  BY HeadTailProperties
<1>2. /\ Len(p) \in Nat /\ DOMAIN p = 1 .. Len(p) /\ Len(p) # 0
      /\ DOMAIN Tail(p) = 1 .. Len(Tail(p))
  BY <1>1, LenProperties, EmptySeq
<1> DEFINE q == Tail(p)
           n == Len(p)
<1> HIDE DEF q, n
<1>3. /\ n \in Nat /\ n # 0 /\ DOMAIN p = 1 .. n /\ DOMAIN q = 1 .. n - 1
      /\ \A i \in 1 .. n - 1 : q[i] = p[i + 1]
  BY <1>1, <1>2 DEF q, n
<1>4. \A i \in 1 .. n - 1 : i + 1 \in 1 .. n /\ i + 1 # 1 /\ i \in Int
  BY <1>3
<1>5. \A i \in 1 .. n : i # 1 => i - 1 \in 1 .. n - 1 /\ (i - 1) + 1 = i
  BY <1>3
<1>6. 1 \in 1 .. n
  BY <1>3
<1>7. \A i \in 1 .. n : i # 1 => p[i] = q[i - 1]
  BY <1>3, <1>5
<1>8. QED BY <1>1, <1>3, <1>4, <1>5, <1>6, <1>7 DEF q

\* The file of the next row is opened, ...
LEMMA PlanOpened ==
  ASSUME NEW p \in Seq(PlanEntry), p # <<>>, NEW names \in SUBSET Slices,
         NEW f \in [Slices -> Content], PlanApart(p, names, f)
  PROVE  PlanApart(p, names, [f EXCEPT ![p[1].slice] = Empty])
<1> DEFINE g == [f EXCEPT ![p[1].slice] = Empty]
<1>1. \A t \in names : ~InPlan(p, t) => g[t] = f[t]
  BY TailIndex DEF InPlan
<1> HIDE DEF g
<1>2. PlanApart(p, names, g)
  BY <1>1 DEF PlanApart
<1>3. QED BY <1>2 DEF g

\* ... and its row arrives, or it is skipped.
LEMMA PlanGoesOn ==
  ASSUME NEW p \in Seq(PlanEntry), p # <<>>, NEW names \in SUBSET Slices,
         NEW f, NEW g, PlanApart(p, names, f),
         \A t \in names : ~InPlan(p, t) => g[t] = f[t],
         p[1].slice \in names => RbgsOf(g[p[1].slice]) = p[1].row
  PROVE  PlanApart(Tail(p), names, g)
<1> DEFINE q == Tail(p)
<1>1. /\ 1 \in DOMAIN p
      /\ \A i \in DOMAIN q : i + 1 \in DOMAIN p /\ i + 1 # 1 /\ i \in Int /\ q[i] = p[i + 1]
      /\ \A i \in DOMAIN p : i # 1 => i - 1 \in DOMAIN q /\ p[i] = q[i - 1]
  BY TailIndex
<1> HIDE DEF q
<1>2. \A t : InPlan(p, t) => p[1].slice = t \/ InPlan(q, t)
  BY <1>1 DEF InPlan
<1>3. ASSUME NEW i \in DOMAIN q, q[i].optional PROVE q[i].slice \notin names
  BY <1>1, <1>3 DEF PlanApart
<1>4. ASSUME NEW i \in DOMAIN q, NEW j \in DOMAIN q, i # j,
             q[i].slice \in names, q[j].slice \in names
      PROVE  q[i].slice # q[j].slice /\ q[i].row \cap q[j].row = {}
  <2>1. i + 1 # j + 1
    BY <1>1, <1>4
  <2>2. /\ i + 1 \in DOMAIN p /\ j + 1 \in DOMAIN p
        /\ q[i] = p[i + 1] /\ q[j] = p[j + 1]
    BY <1>1
  <2>3. QED BY <1>4, <2>1, <2>2 DEF PlanApart
<1>5. ASSUME NEW i \in DOMAIN q, NEW t \in names, q[i].slice \in names, ~InPlan(q, t)
      PROVE  q[i].row \cap RbgsOf(g[t]) = {}
  <2>1. i + 1 \in DOMAIN p /\ i + 1 # 1 /\ q[i] = p[i + 1]
    BY <1>1
  <2>2. CASE InPlan(p, t)
    <3>1. p[1].slice = t
      BY <1>2, <1>5, <2>2
    <3>2. q[i].row \cap p[1].row = {}
      BY <1>1, <1>5, <2>1, <3>1 DEF PlanApart
    <3>3. QED BY <3>1, <3>2
  <2>3. CASE ~InPlan(p, t)
    BY <1>5, <2>1, <2>3 DEF PlanApart
  <2>4. QED BY <2>2, <2>3
<1>6. ASSUME NEW s \in names, NEW t \in names, s # t, ~InPlan(q, s), ~InPlan(q, t)
      PROVE  RbgsOf(g[s]) \cap RbgsOf(g[t]) = {}
  <2>1. CASE InPlan(p, s)
    <3>1. p[1].slice = s /\ ~InPlan(p, t)
      BY <1>2, <1>6, <2>1
    <3>2. p[1].row \cap RbgsOf(f[t]) = {}
      BY <1>1, <3>1 DEF PlanApart
    <3>3. QED BY <3>1, <3>2
  <2>2. CASE InPlan(p, t)
    <3>1. p[1].slice = t /\ ~InPlan(p, s)
      BY <1>2, <1>6, <2>2
    <3>2. p[1].row \cap RbgsOf(f[s]) = {}
      BY <1>1, <3>1 DEF PlanApart
    <3>3. QED BY <3>1, <3>2
  <2>3. CASE ~InPlan(p, s) /\ ~InPlan(p, t)
    BY <1>6, <2>3 DEF PlanApart
  <2>4. QED BY <2>1, <2>2, <2>3
<1>7. PlanApart(q, names, g)
  BY <1>3, <1>4, <1>5, <1>6, Zenon DEF PlanApart
<1>8. QED BY <1>7 DEF q

\* The plans of a whole allocation are apart whatever the files held.
LEMMA AllocApart ==
  ASSUME InputsApart, NEW alloc \in Allocs, NEW f
  PROVE  PlanApart(PassedPlan(alloc), Named(alloc), f)
<1> DEFINE p == PassedPlan(alloc)
           names == Named(alloc)
<1>1. /\ \A i \in DOMAIN alloc : i \in DOMAIN p /\ p[i].slice = alloc[i][1]
      /\ \A i \in DOMAIN p :
            \/ /\ i \in DOMAIN alloc
               /\ p[i] = Entry(alloc[i][1], Rbgs \cap (alloc[i][2] .. alloc[i][3]), FALSE)
            \/ p[i].optional /\ p[i].slice \notin names
  BY PassedPlanRows
<1>2. \A t \in names : InPlan(p, t)
  <2> HIDE DEF p
  <2>1. QED BY <1>1 DEF Named, InPlan
<1>3. \A i, j \in DOMAIN alloc :
         i # j => /\ alloc[i][1] # alloc[j][1]
                  /\ (alloc[i][2] .. alloc[i][3]) \cap (alloc[j][2] .. alloc[j][3]) = {}
  BY InputsAssumption DEF InputsApart
<1> HIDE DEF p, names
<1>4. ASSUME NEW i \in DOMAIN p, p[i].slice \in names
      PROVE  /\ i \in DOMAIN alloc /\ ~p[i].optional /\ p[i].slice = alloc[i][1]
             /\ p[i].row \subseteq alloc[i][2] .. alloc[i][3]
  <2> DEFINE row == Rbgs \cap (alloc[i][2] .. alloc[i][3])
             s == alloc[i][1]
  <2>1. i \in DOMAIN alloc /\ p[i] = Entry(s, row, FALSE)
    BY <1>1, <1>4
  <2>2. row \subseteq alloc[i][2] .. alloc[i][3]
    OBVIOUS
  <2> HIDE DEF row, s
  <2>3. ~p[i].optional /\ p[i].slice = s /\ p[i].row = row
    <3>1. /\ Entry(s, row, FALSE).slice = s /\ Entry(s, row, FALSE).row = row
          /\ Entry(s, row, FALSE).optional = FALSE
      BY DEF Entry
    <3>2. QED BY <2>1, <3>1
  <2>4. QED BY <2>1, <2>2, <2>3 DEF s
<1>5. \A i \in DOMAIN p : p[i].optional => p[i].slice \notin names
  BY <1>4
<1>6. ASSUME NEW i \in DOMAIN p, NEW j \in DOMAIN p, i # j,
             p[i].slice \in names, p[j].slice \in names
      PROVE  p[i].slice # p[j].slice /\ p[i].row \cap p[j].row = {}
  <2>1. /\ i \in DOMAIN alloc /\ p[i].slice = alloc[i][1]
        /\ p[i].row \subseteq alloc[i][2] .. alloc[i][3]
    BY <1>4, <1>6
  <2>2. /\ j \in DOMAIN alloc /\ p[j].slice = alloc[j][1]
        /\ p[j].row \subseteq alloc[j][2] .. alloc[j][3]
    BY <1>4, <1>6
  <2>3. QED BY <1>3, <1>6, <2>1, <2>2
<1>7. PlanApart(p, names, f)
  BY <1>2, <1>5, <1>6 DEF PlanApart
<1>8. QED BY <1>7 DEF p, names

LEMMA SharesApart ==
  ASSUME NEW n \in Nat \ {0}, NEW s \in 0 .. n - 1, NEW t \in 0 .. n - 1, s < t
  PROVE  Share(n, s) \cap Share(n, t) = {}
<1> DEFINE q == NofRbgs \div n
           a == s * q
           b == t * q
<1>1. q \in Nat
  BY BoundsAssumption, Division
<1> HIDE DEF q
<1>2. s * q \in Nat /\ t * q \in Nat /\ s * q + q <= t * q
  <2>1. s \in 0 .. t - 1 /\ t \in Nat
    OBVIOUS
  <2>2. s * q \in Nat /\ s * q + q <= t * q
    BY <1>1, <2>1, MoreShares
  <2>3. t * q \in Nat
    BY <1>1, <2>1, MoreShares
  <2>4. QED BY <2>2, <2>3
<1>3. CASE n # 3
  <2>1. Share(n, s) = a + 0 .. a + 0 + q - 1 + 0 /\ Share(n, t) = b + 0 .. b + 0 + q - 1 + 0
    BY <1>3 DEF Share, q
  <2>2. a \in Nat /\ b \in Nat /\ a + q <= b
    BY <1>2
  <2> HIDE DEF a, b
  <2>3. QED BY <1>1, <2>1, <2>2
<1>4. CASE n = 3
  <2>1. (s = 0 /\ t = 1) \/ (s = 0 /\ t = 2) \/ (s = 1 /\ t = 2)
    BY <1>4
  <2>2. /\ Share(n, 0) = 0 * q + 0 .. 0 * q + 0 + q - 1 + 1
        /\ Share(n, 1) = 1 * q + 1 .. 1 * q + 1 + q - 1 + 0
        /\ Share(n, 2) = 2 * q + 1 .. 2 * q + 1 + q - 1 + 1
    BY <1>4 DEF Share, q
  <2>3. /\ Share(n, 0) \cap Share(n, 1) = {} /\ Share(n, 0) \cap Share(n, 2) = {}
        /\ Share(n, 1) \cap Share(n, 2) = {}
    BY <1>1, <2>2
  <2>4. QED BY <2>1, <2>3
<1>5. QED BY <1>3, <1>4

LEMMA EqualApart ==
  ASSUME InputsApart, NEW n \in TenantNums, NEW f
  PROVE  PlanApart(EqualPlan(n), 0 .. n - 1, f)
<1> DEFINE p == EqualPlan(n)
           names == 0 .. n - 1
<1>1. n \in Nat \ {0}
  BY InputsAssumption
<1>2. DOMAIN p = 1 .. n /\ \A i \in 1 .. n : p[i] = Entry(i - 1, Share(n, i - 1), FALSE)
  BY EqualPlanRows DEF InputsApart
<1> HIDE DEF p
<1>3. \A i \in 1 .. n : /\ p[i].slice = i - 1 /\ p[i].row = Share(n, i - 1)
                        /\ ~p[i].optional /\ i - 1 \in names
  <2>1. TAKE i \in 1 .. n
  <2>2. i - 1 \in names
    BY <1>1
  <2>3. QED BY <1>2, <2>2 DEF Entry
<1>4. \A t \in names : InPlan(p, t)
  <2>1. TAKE t \in names
  <2>2. t + 1 \in 1 .. n /\ (t + 1) - 1 = t
    BY <1>1
  <2>3. p[t + 1].slice = t
    BY <1>3, <2>2
  <2>4. QED BY <1>2, <2>2, <2>3 DEF InPlan
<1>5. ASSUME NEW i \in 1 .. n, NEW j \in 1 .. n, i # j
      PROVE  p[i].slice # p[j].slice /\ p[i].row \cap p[j].row = {}
  <2>1. i - 1 # j - 1 /\ (i - 1 < j - 1 \/ j - 1 < i - 1)
    BY <1>1, <1>5
  <2>2. Share(n, i - 1) \cap Share(n, j - 1) = {}
    <3>1. i - 1 \in 0 .. n - 1 /\ j - 1 \in 0 .. n - 1
      BY <1>1
    <3> DEFINE s == i - 1
               t == j - 1
    <3>2. s \in 0 .. n - 1 /\ t \in 0 .. n - 1 /\ (s < t \/ t < s)
      BY <2>1, <3>1
    <3> HIDE DEF s, t
    <3>3. Share(n, s) \cap Share(n, t) = {}
      BY <1>1, <3>2, SharesApart
    <3>4. QED BY <3>3 DEF s, t
  <2>3. QED BY <1>3, <2>1, <2>2
<1>6. PlanApart(p, names, f)
  BY <1>2, <1>3, <1>4, <1>5 DEF PlanApart
<1>7. QED BY <1>6 DEF p

-----------------------------------------------------------------------------
(***************************************************************************)
(* As long as calls follow one another: at most one is going on, and what  *)
(* it knows of the files is still true of them.                            *)
(***************************************************************************)
Live(k) == k.pc \notin {"idle", "dead"}

\* What holds of a call k, the slices ap of the last whole allocation and the
\* files f: a heuristic has taken its slice out of ap; set_slice has read what
\* is there; the one row that is to be written, or the rest of the whole
\* allocation, takes no RBG of another slice.
Sound(k, ap, f) ==
  /\ k.pc = "bit" => k.slice \notin ap
  /\ k.pc = "all" =>
       /\ k.own = RbgsOf(f[k.slice])
       /\ \A t \in Slices : t < k.next => RbgsOf(f[t]) \subseteq RbgsOf(k.union)
  /\ k.pc \in {"open", "write"} /\ k.names = {} =>
       /\ Len(k.plan) = 1 /\ ~k.plan[1].optional
       /\ k.plan[1].slice \in ap =>
            \A t \in ap \ {k.plan[1].slice} : k.plan[1].row \cap RbgsOf(f[t]) = {}
  /\ k.pc \in {"open", "write"} /\ k.names # {} => PlanApart(k.plan, k.names, f)
  /\ ~(k.pc \in {"open", "write"} /\ k.names # {}) => Apart(ap, f)

Calm == ~raced /\ ~cutShort

Quiet ==
  Calm => /\ \A c, d \in Callers : Active(c) /\ Active(d) => c = d
          /\ \A c \in Callers : Active(c) => Sound(call[c], apart, file)
          /\ (\A c \in Callers : ~Active(c)) => Apart(apart, file)

LEMMA InitQuiet == InputsApart /\ Init => Quiet
<1> SUFFICES ASSUME InputsApart, Init PROVE Quiet
  OBVIOUS
<1>1. \A c \in Callers : ~Active(c)
  BY Phases DEF Init, Active
<1>2. Apart(apart, file)
  BY DEF Init, InputsApart, Apart
<1>3. QED BY <1>1, <1>2 DEF Quiet

\* A step of the one call that goes on, or of one that begins.
LEMMA QuietStep ==
  ASSUME Types, NEW c \in Callers, NEW what \in CallType,
         call' = [call EXCEPT ![c] = what],
         \A d \in Callers \ {c} : ~Active(d),
         Live(what) => Sound(what, apart', file'),
         ~Live(what) => Apart(apart', file')
  PROVE  Quiet'
<1>1. /\ call'[c] = what
      /\ \A d \in Callers \ {c} : call'[d] = call[d]
  BY TypesParts DEF Calling
<1>2. \A d \in Callers : Active(d)' => d = c /\ Live(what)
  BY <1>1 DEF Active, Live
<1>3. Live(what) => Active(c)'
  BY <1>1 DEF Active, Live
<1>4. \A d, e \in Callers : Active(d)' /\ Active(e)' => d = e
  BY <1>2
<1>5. \A d \in Callers : Active(d)' => Sound(call'[d], apart', file')
  BY <1>1, <1>2
<1>6. (\A d \in Callers : ~Active(d)') => Apart(apart', file')
  BY <1>3
<1>7. QED BY <1>4, <1>5, <1>6 DEF Quiet

\* A call that begins while no other one is going on.
LEMMA BeginQuiet ==
  ASSUME Types, Quiet, Calm', NEW c \in Callers, NEW what \in CallType,
         Begin(c, what), apart' \subseteq apart, what.pc # "all", Live(what),
         what.pc = "bit" => what.slice \notin apart',
         what.pc \in {"open", "write"} /\ what.names = {} =>
            Len(what.plan) = 1 /\ ~what.plan[1].optional /\ what.plan[1].slice \notin apart',
         what.pc \in {"open", "write"} /\ what.names # {} =>
            PlanApart(what.plan, what.names, file)
  PROVE  Quiet'
<1>1. /\ call' = [call EXCEPT ![c] = what] /\ file' = file
      /\ raced' = (raced \/ \E d \in Callers : Active(d)) /\ cutShort' = cutShort
  BY DEF Begin
<1>2. Calm /\ \A d \in Callers : ~Active(d)
  BY <1>1 DEF Calm
<1>3. Apart(apart, file)
  BY <1>2 DEF Quiet
<1>4. Apart(apart', file)
  BY <1>3 DEF Apart
<1>5. Sound(what, apart', file)
  BY <1>4 DEF Sound
<1>6. QED BY <1>1, <1>2, <1>5, QuietStep

LEMMA NewCallQuiet ==
  ASSUME InputsApart, Types, Quiet, Calm', NEW c \in Callers, NewCall(c)
  PROVE  Quiet'
<1>1. ASSUME NEW s \in Slices, NEW want \in Wants, SetSlice(c, s, want) PROVE Quiet'
  <2> DEFINE what == OwnCall(s, want)
  <2>1. what \in CallType /\ what.pc = "own" /\ Live(what)
    BY NewCalls DEF Live
  <2>2. Begin(c, what) /\ apart' = apart
    BY <1>1 DEF SetSlice, OwnCall
  <2> HIDE DEF what
  <2>3. QED BY <2>1, <2>2, BeginQuiet
<1>2. ASSUME NEW alloc \in Allocs, SetAllocation(c, alloc) PROVE Quiet'
  <2> DEFINE what == AllocCall(alloc)
  <2>1. /\ what \in CallType /\ what.pc = "open" /\ Live(what)
        /\ what.plan = PassedPlan(alloc) /\ what.names = Named(alloc)
    BY NewCalls DEF Live
  <2>2. Begin(c, what) /\ apart' = apart
    BY <1>2 DEF SetAllocation, AllocCall
  <2>3. what.names # {} /\ PlanApart(what.plan, what.names, file)
    BY <2>1, AllocApart, PassedPlanRows
  <2> HIDE DEF what
  <2>4. QED BY <2>1, <2>2, <2>3, BeginQuiet
<1>3. ASSUME NEW n \in TenantNums, SetEqual(c, n) PROVE Quiet'
  <2> DEFINE what == EqualCall(n)
  <2>1. /\ what \in CallType /\ what.pc = "open" /\ Live(what)
        /\ what.plan = EqualPlan(n) /\ what.names = 0 .. n - 1
    BY NewCalls DEF Live
  <2>2. Begin(c, what) /\ apart' = apart
    BY <1>3 DEF SetEqual, EqualCall
  <2>3. what.names # {} /\ PlanApart(what.plan, what.names, file)
    BY <2>1, EqualApart, EqualPlanRows
  <2> HIDE DEF what
  <2>4. QED BY <2>1, <2>2, <2>3, BeginQuiet
<1>4. ASSUME NEW p \in Rows, SetSliceResources(c, p[1], p[2]) PROVE Quiet'
  <2> DEFINE what == OneRow(p[1], p[2])
  <2>1. /\ what \in CallType /\ what.pc = "open" /\ Live(what) /\ what.names = {}
        /\ Len(what.plan) = 1 /\ ~what.plan[1].optional /\ what.plan[1].slice = p[1]
    BY NewCalls, OneRowPlanned DEF Live
  <2>2. Begin(c, what) /\ apart' = apart \ {p[1]}
    BY <1>4 DEF SetSliceResources, OneRow
  <2> HIDE DEF what
  <2>3. QED BY <2>1, <2>2, BeginQuiet
<1>5. ASSUME NEW p \in Bits, NEW on \in BOOLEAN, Heuristic(c, p[1], p[2], on) PROVE Quiet'
  <2> DEFINE what == BitCall(p[1], p[2], on)
  <2>1. /\ what \in CallType /\ what.pc = "bit" /\ Live(what) /\ what.slice = p[1]
    BY NewCalls DEF Live, BitCall
  <2>2. Begin(c, what) /\ apart' = apart \ {p[1]}
    BY <1>5 DEF Heuristic, BitCall
  <2> HIDE DEF what
  <2>3. QED BY <2>1, <2>2, BeginQuiet
<1>6. QED BY <1>1, <1>2, <1>3, <1>4, <1>5 DEF NewCall

\* A step that leaves the files alone.
LEMMA GoesQuiet ==
  ASSUME Types, Quiet, Calm', NEW c \in Callers, NEW what \in CallType, Goes(c, what),
         call[c].pc \in {"own", "all", "bit"},
         Live(what) /\ Apart(apart, file) => Sound(what, apart, file)
  PROVE  Quiet'
<1>1. /\ call' = [call EXCEPT ![c] = what] /\ file' = file
      /\ apart' = apart /\ raced' = raced /\ cutShort' = cutShort
  BY DEF Goes, history
<1>2. Calm /\ Active(c)
  BY <1>1 DEF Calm, Active
<1>3. /\ \A d \in Callers \ {c} : ~Active(d)
      /\ Sound(call[c], apart, file)
  BY <1>2 DEF Quiet
<1>4. Apart(apart, file)
  BY <1>3 DEF Sound
<1>5. QED BY <1>1, <1>3, <1>4, QuietStep

LEMMA ReadsQuiet ==
  ASSUME Types, Quiet, Calm', NEW c \in Callers,
         ReadBit(c) \/ ReadOwn(c) \/ ReadAll(c) \/ Decide(c)
  PROVE  Quiet'
<1> DEFINE k == call[c]
<1>1. k.pc \in {"own", "all", "bit"} /\ raced' = raced /\ cutShort' = cutShort
  BY DEF ReadBit, ReadOwn, ReadAll, Decide, Goes, history
<1>2. Calm /\ Active(c)
  BY <1>1 DEF Calm, Active
<1>3. Sound(k, apart, file) /\ k \in CallType
  BY <1>2, CallKind DEF Quiet
<1>4. CASE ReadBit(c)
  <2> DEFINE now == file[k.slice]
             new == IF k.on THEN RbgsOf(now) \cup {k.bit} ELSE RbgsOf(now) \ {k.bit}
             what == IF HasRow(now) /\ new # now THEN OneRow(k.slice, new) ELSE Idle
  <2>1. Goes(c, what) /\ k.pc = "bit"
    BY <1>4 DEF ReadBit, OneRow
  <2>2. k.slice \in Slices /\ k.bit \in Rbgs /\ k.slice \notin apart
    BY <1>3, <2>1, Kinds DEF Sound
  <2>3. new \in Mask
    BY <2>2, Shown DEF Mask
  <2> DEFINE one == OneRow(k.slice, new)
  <2>4. /\ one \in CallType /\ one.pc = "open" /\ one.names = {} /\ Len(one.plan) = 1
        /\ ~one.plan[1].optional /\ one.plan[1].slice = k.slice
    <3> HIDE DEF new, k
    <3>1. QED BY <2>2, <2>3, OneRowPlanned
  <2>5. what = one \/ what = Idle
    OBVIOUS
  <2> HIDE DEF what, one
  <2>6. what \in CallType
    BY <2>4, <2>5, Phases
  <2>7. Live(what) => what = one
    BY <2>5, Phases DEF Live
  <2>8. Apart(apart, file) => Sound(one, apart, file)
    BY <2>2, <2>4 DEF Sound
  <2>9. QED BY <1>1, <2>1, <2>6, <2>7, <2>8, GoesQuiet
<1>5. CASE ReadOwn(c)
  <2> DEFINE own == RbgsOf(file[k.slice])
             all == [pc |-> "all", slice |-> k.slice, want |-> k.want,
                     own |-> own, next |-> 0, union |-> Missing]
             what == IF Cardinality(own) = k.want THEN Idle ELSE all
  <2>1. Goes(c, what) /\ k.pc = "own"
    BY <1>5 DEF ReadOwn
  <2>2. k.slice \in Slices /\ k.want \in Nat
    BY <1>3, <2>1, Kinds
  <2>3. /\ all \in CallType /\ all.pc = "all" /\ all.next = 0
        /\ all.own = RbgsOf(file[all.slice])
    <3>1. own \in Mask /\ 0 \in Slices /\ Missing \in Union
      BY <2>2, Shown, Slots DEF Union
    <3>2. all.own = RbgsOf(file[all.slice]) /\ all.pc = "all" /\ all.next = 0
      OBVIOUS
    <3>3. all \in CallType
      <4> HIDE DEF own, k
      <4>1. QED BY <2>2, <3>1, Phases
    <3>4. QED BY <3>2, <3>3
  <2>4. what = all \/ what = Idle
    OBVIOUS
  <2> HIDE DEF what, all
  <2>5. what \in CallType /\ (Live(what) => what = all)
    BY <2>3, <2>4, Phases DEF Live
  <2>6. \A t \in Slices : ~(t < 0)
    BY Slots
  <2>7. Apart(apart, file) => Sound(all, apart, file)
    BY <2>3, <2>6 DEF Sound
  <2>8. QED BY <1>1, <2>1, <2>5, <2>7, GoesQuiet
<1>6. CASE ReadAll(c)
  <2> DEFINE more == [k EXCEPT !.next = @ + 1, !.union = Joined(@, file[k.next])]
             what == IF Raises(k.union, file[k.next]) THEN Idle ELSE more
  <2>1. Goes(c, what) /\ k.pc = "all" /\ k.next < LastFile
    BY <1>6 DEF ReadAll
  <2>2. /\ k \in [pc : {"own", "all"}, slice : Slices, want : Nat,
                  own : Mask, next : Slices, union : Union]
        /\ k.next \in Slices /\ k.union \in Union
    BY <1>3, <2>1, Kinds
  <2>3. k.next + 1 \in Slices
    BY <2>1, <2>2, Slots
  <2>4. /\ Joined(k.union, file[k.next]) \in Union
        /\ RbgsOf(k.union) \subseteq RbgsOf(Joined(k.union, file[k.next]))
        /\ ~Raises(k.union, file[k.next])
             => RbgsOf(file[k.next]) \subseteq RbgsOf(Joined(k.union, file[k.next]))
    BY <2>2, Shown, JoinedRows
  <2>5. /\ more \in [pc : {"all"}, slice : Slices, want : Nat,
                  own : Mask, next : Slices, union : Union]
        /\ more.next = k.next + 1 /\ more.union = Joined(k.union, file[k.next])
        /\ more.own = k.own /\ more.slice = k.slice
    <3> HIDE DEF k
    <3>1. QED BY <2>1, <2>2, <2>3, <2>4
  <2>6. ASSUME ~Raises(k.union, file[k.next]), NEW t \in Slices, t < k.next + 1
        PROVE  RbgsOf(file[t]) \subseteq RbgsOf(Joined(k.union, file[k.next]))
    <3>1. t < k.next \/ t = k.next
      BY <2>2, <2>6, Slots
    <3>2. t < k.next => RbgsOf(file[t]) \subseteq RbgsOf(k.union)
      BY <1>3, <2>1 DEF Sound
    <3>3. QED BY <2>4, <2>6, <3>1, <3>2
  <2>7. k.own = RbgsOf(file[k.slice])
    BY <1>3, <2>1 DEF Sound
  <2>8. CASE Raises(k.union, file[k.next])
    <3>1. what = Idle
      BY <2>8
    <3> HIDE DEF what
    <3>2. what \in CallType /\ ~Live(what)
      BY <3>1, Phases DEF Live
    <3>3. QED BY <1>1, <2>1, <3>2, GoesQuiet
  <2>9. CASE ~Raises(k.union, file[k.next])
    <3>1. what = more
      BY <2>9
    <3> HIDE DEF what, more
    <3>2. what \in CallType
      BY <2>5, <3>1 DEF CallType, Union
    <3>3. /\ what.pc = "all" /\ what.own = RbgsOf(file[what.slice])
          /\ \A t \in Slices : t < what.next => RbgsOf(file[t]) \subseteq RbgsOf(what.union)
      BY <2>5, <2>6, <2>7, <2>9, <3>1
    <3>4. Apart(apart, file) => Sound(what, apart, file)
      BY <3>3 DEF Sound
    <3>5. QED BY <1>1, <2>1, <3>2, <3>4, GoesQuiet
  <2>10. QED BY <2>8, <2>9
<1>7. CASE Decide(c)
  <2> DEFINE new == Decided(k)
             one == OneRow(k.slice, new)
             all == Joined(k.union, file[LastFile])
             what == IF Raises(k.union, file[LastFile]) \/ k.own = {} THEN Idle ELSE one
  <2>1. Goes(c, what) /\ k.pc = "all" /\ k.next = LastFile
    BY <1>7 DEF Decide, Decided, OneRow
  <2>2. /\ k.slice \in Slices /\ k.union \in Union /\ new \in Mask
        /\ (new \ k.own) \cap RbgsOf(all) = {}
    BY <1>3, <2>1, Kinds, DecidedRow
  <2>3. /\ one \in CallType /\ one.pc = "open" /\ one.names = {} /\ Len(one.plan) = 1
        /\ ~one.plan[1].optional /\ one.plan[1].slice = k.slice /\ one.plan[1].row = new
    <3> HIDE DEF new, k
    <3>1. QED BY <2>2, OneRowPlanned
  <2>4. k.own = RbgsOf(file[k.slice])
    BY <1>3, <2>1 DEF Sound
  <2>5. ASSUME ~Raises(k.union, file[LastFile]), NEW t \in Slices
        PROVE  RbgsOf(file[t]) \subseteq RbgsOf(all)
    <3>1. t < LastFile \/ t = LastFile
      BY Slots, BoundsAssumption DEF LastFile
    <3>2. t < LastFile => RbgsOf(file[t]) \subseteq RbgsOf(k.union)
      BY <1>3, <2>1 DEF Sound
    <3>3. RbgsOf(k.union) \subseteq RbgsOf(all) /\ RbgsOf(file[LastFile]) \subseteq RbgsOf(all)
      BY <2>2, <2>5, Shown, Slots, JoinedRows
    <3>4. QED BY <3>1, <3>2, <3>3
  <2>6. apart \subseteq Slices
    BY TypesParts
  <2>7. ASSUME ~Raises(k.union, file[LastFile]), Apart(apart, file),
               k.slice \in apart, NEW t \in apart \ {k.slice}
        PROVE  new \cap RbgsOf(file[t]) = {}
    <3>1. k.own \cap RbgsOf(file[t]) = {}
      BY <2>4, <2>7 DEF Apart
    <3>2. RbgsOf(file[t]) \subseteq RbgsOf(all)
      BY <2>5, <2>6, <2>7
    <3>3. QED BY <2>2, <3>1, <3>2
  <2>8. CASE what = Idle
    <3> HIDE DEF what
    <3>1. what \in CallType /\ ~Live(what)
      BY <2>8, Phases DEF Live
    <3>2. QED BY <1>1, <2>1, <3>1, GoesQuiet
  <2>9. CASE what # Idle
    <3>1. what = one /\ ~Raises(k.union, file[LastFile])
      BY <2>9
    <3> HIDE DEF what, one, new, all
    <3>2. Apart(apart, file) => Sound(what, apart, file)
      BY <2>3, <2>7, <3>1 DEF Sound
    <3>3. QED BY <1>1, <2>1, <2>3, <3>1, <3>2, GoesQuiet
  <2>10. QED BY <2>8, <2>9
<1>8. QED BY <1>4, <1>5, <1>6, <1>7

\* The call goes on with the rest of its plan, or is over.
LEMMA FinishQuiet ==
  ASSUME Types, Quiet, Calm, NEW c \in Callers, call[c].pc \in {"open", "write"},
         Finish(c, Tail(call[c].plan)),
         call[c].names # {} => PlanApart(Tail(call[c].plan), call[c].names, file'),
         call[c].names = {} => Tail(call[c].plan) = <<>> /\ Apart(apart, file')
  PROVE  Quiet'
<1> DEFINE k == call[c]
           q == Tail(k.plan)
           next == [k EXCEPT !.pc = "open", !.plan = q]
           what == IF q = <<>> THEN Idle ELSE next
<1>1. /\ k \in [pc : {"open", "write"}, names : SUBSET Slices, plan : Seq(PlanEntry)]
      /\ q \in Seq(PlanEntry)
  BY RestOfPlan, CallKind, Kinds
<1>2. /\ next \in [pc : {"open", "write"}, names : SUBSET Slices, plan : Seq(PlanEntry)]
      /\ next.pc = "open" /\ next.plan = q /\ next.names = k.names
  <2> HIDE DEF k, q
  <2>1. QED BY <1>1
<1>3. /\ call' = [call EXCEPT ![c] = what]
      /\ apart' = IF q = <<>> /\ k.names # {} THEN k.names ELSE apart
  BY DEF Finish
<1>4. \A d \in Callers \ {c} : ~Active(d)
  BY DEF Quiet, Active
<1>5. CASE q = <<>>
  <2>1. what = Idle
    BY <1>5
  <2>2. what \in CallType /\ ~Live(what)
    BY <2>1, Phases DEF Live
  <2>3. Apart(apart', file')
    <3>1. CASE k.names = {}
      BY <1>3, <3>1
    <3>2. CASE k.names # {}
      <4>1. apart' = k.names
        BY <1>3, <1>5, <3>2
      <4>2. \A t : ~InPlan(q, t)
        BY <1>5 DEF InPlan
      <4>3. QED BY <3>2, <4>1, <4>2 DEF PlanApart, Apart
    <3>3. QED BY <3>1, <3>2
  <2> HIDE DEF what
  <2>4. QED BY <1>3, <1>4, <2>2, <2>3, QuietStep
<1>6. CASE q # <<>>
  <2>1. what = next /\ apart' = apart /\ k.names # {}
    BY <1>3, <1>6
  <2>2. what \in CallType
    BY <1>2, <2>1 DEF CallType, PlanEntry
  <2> HIDE DEF what, next
  <2>3. Sound(what, apart', file')
    BY <1>2, <2>1 DEF Sound
  <2>4. Live(what)
    BY <1>2, <2>1 DEF Live
  <2>5. QED BY <1>3, <1>4, <2>2, <2>3, <2>4, QuietStep
<1>7. QED BY <1>5, <1>6

LEMMA WritesQuiet ==
  ASSUME Types, Quiet, Calm', NEW c \in Callers, OpenFile(c) \/ CloseFile(c)
  PROVE  Quiet'
<1> DEFINE k == call[c]
           e == k.plan[1]
<1>1. k.pc \in {"open", "write"} /\ raced' = raced /\ cutShort' = cutShort
  BY DEF OpenFile, CloseFile, Finish, history
<1>2. Calm /\ Active(c)
  BY <1>1 DEF Calm, Active
<1>3. Sound(k, apart, file) /\ \A d \in Callers \ {c} : ~Active(d)
  BY <1>2 DEF Quiet
<1>4. /\ k.plan \in Seq(PlanEntry) /\ k.plan # <<>> /\ Head(k.plan) = e
      /\ e \in PlanEntry /\ e.slice \in Slices /\ e.row \in Mask /\ 1 \in DOMAIN k.plan
      /\ k.names \in SUBSET Slices
      /\ k \in [pc : {"open", "write"}, names : SUBSET Slices, plan : Seq(PlanEntry)]
  BY <1>1, RestOfPlan, CallKind, Kinds DEF PlanEntry
<1>5. file \in [Slices -> Content] /\ apart \subseteq Slices
  BY TypesParts
<1>6. k.names = {} =>
        /\ ~e.optional /\ Tail(k.plan) = <<>> /\ Apart(apart, file)
        /\ e.slice \in apart => \A t \in apart \ {e.slice} : e.row \cap RbgsOf(file[t]) = {}
  <2> SUFFICES ASSUME k.names = {} PROVE <1>6!2
    OBVIOUS
  <2>1. /\ Len(k.plan) = 1 /\ ~e.optional /\ Apart(apart, file)
        /\ e.slice \in apart => \A t \in apart \ {e.slice} : e.row \cap RbgsOf(file[t]) = {}
    BY <1>1, <1>3 DEF Sound
  <2>2. Tail(k.plan) \in Seq(PlanEntry) /\ Len(Tail(k.plan)) = 0
    BY <1>4, <2>1, HeadTailProperties
  <2>3. Tail(k.plan) = <<>>
    BY <2>2, EmptySeq
  <2>4. QED BY <2>1, <2>3
<1>7. k.names # {} => PlanApart(k.plan, k.names, file)
  BY <1>1, <1>3 DEF Sound
<1>8. CASE OpenFile(c) /\ e.optional /\ file[e.slice] # Missing
  <2>1. Finish(c, Tail(k.plan)) /\ file' = file
    BY <1>4, <1>8 DEF OpenFile
  <2>2. k.names # {}
    BY <1>6, <1>8
  <2>3. e.slice \notin k.names
    BY <1>4, <1>7, <1>8, <2>2 DEF PlanApart
  <2>4. PlanApart(Tail(k.plan), k.names, file')
    <3> DEFINE p == k.plan
               names == k.names
    <3>1. p[1].slice \notin names /\ PlanApart(p, names, file) /\ p \in Seq(PlanEntry) /\ p # <<>>
          /\ names \in SUBSET Slices
      BY <1>4, <1>7, <2>2, <2>3
    <3> HIDE DEF p, names
    <3>2. PlanApart(Tail(p), names, file)
      BY <3>1, PlanGoesOn
    <3>3. QED BY <2>1, <3>2 DEF p, names
  <2>5. QED BY <1>1, <1>2, <2>1, <2>2, <2>4, FinishQuiet
<1>9. CASE OpenFile(c) /\ ~(e.optional /\ file[e.slice] # Missing)
  <2> DEFINE what == [k EXCEPT !.pc = "write"]
  <2>1. /\ file' = [file EXCEPT ![e.slice] = Empty] /\ apart' = apart
        /\ call' = [call EXCEPT ![c].pc = "write"]
    BY <1>4, <1>9 DEF OpenFile, Store, history
  <2>2. call' = [call EXCEPT ![c] = what]
    BY <2>1, TypesParts DEF Calling
  <2>3. /\ what \in [pc : {"open", "write"}, names : SUBSET Slices, plan : Seq(PlanEntry)]
        /\ what.pc = "write" /\ what.plan = k.plan /\ what.names = k.names
    <3>1. \A r \in [pc : {"open", "write"}, names : SUBSET Slices, plan : Seq(PlanEntry)] :
             LET w == [r EXCEPT !.pc = "write"]
             IN /\ w \in [pc : {"open", "write"}, names : SUBSET Slices, plan : Seq(PlanEntry)]
                /\ w.pc = "write" /\ w.plan = r.plan /\ w.names = r.names
      OBVIOUS
    <3>2. QED BY <1>4, <3>1
  <2> HIDE DEF what
  <2>4. what \in CallType /\ Live(what)
    BY <2>3 DEF CallType, PlanEntry, Live
  <2>5. \A t \in Slices : RbgsOf(file'[t]) = IF t = e.slice THEN {} ELSE RbgsOf(file[t])
    BY <1>4, <1>5, <2>1, RowFacts
  <2>6. CASE k.names = {}
    <3>1. Len(k.plan) = 1
      BY <1>1, <1>3, <2>6 DEF Sound
    <3>2. Apart(apart, file')
      BY <1>5, <1>6, <2>5, <2>6 DEF Apart
    <3>3. e.slice \in apart => \A t \in apart \ {e.slice} : e.row \cap RbgsOf(file'[t]) = {}
      BY <1>5, <1>6, <2>5, <2>6
    <3>4. Sound(what, apart', file')
      BY <1>6, <2>1, <2>3, <2>6, <3>1, <3>2, <3>3 DEF Sound
    <3>5. QED BY <1>3, <2>2, <2>4, <3>4, QuietStep
  <2>7. CASE k.names # {}
    <3>1. PlanApart(k.plan, k.names, file')
      BY <1>4, <1>5, <1>7, <2>1, <2>7, PlanOpened
    <3>2. Sound(what, apart', file')
      BY <2>3, <2>7, <3>1 DEF Sound
    <3>3. QED BY <1>3, <2>2, <2>4, <3>2, QuietStep
  <2>8. QED BY <2>6, <2>7
<1>10. CASE CloseFile(c)
  <2>1. Finish(c, Tail(k.plan)) /\ file' = [file EXCEPT ![e.slice] = e.row]
    BY <1>4, <1>10 DEF CloseFile, Store
  <2>2. \A t \in Slices : RbgsOf(file'[t]) = IF t = e.slice THEN e.row ELSE RbgsOf(file[t])
    BY <1>4, <1>5, <2>1, RowFacts
  <2>3. k.names = {} => Apart(apart, file')
    <3> SUFFICES ASSUME k.names = {}, NEW s \in apart, NEW t \in apart, s # t
                 PROVE  RbgsOf(file'[s]) \cap RbgsOf(file'[t]) = {}
      BY DEF Apart
    <3>1. s \in Slices /\ t \in Slices /\ RbgsOf(file[s]) \cap RbgsOf(file[t]) = {}
      BY <1>5, <1>6 DEF Apart
    <3>2. CASE s = e.slice
      <4>1. e.row \cap RbgsOf(file[t]) = {}
        BY <1>6, <3>2
      <4>2. QED BY <2>2, <3>1, <3>2, <4>1
    <3>3. CASE t = e.slice
      <4>1. e.row \cap RbgsOf(file[s]) = {}
        BY <1>6, <3>3
      <4>2. QED BY <2>2, <3>1, <3>3, <4>1
    <3>4. CASE s # e.slice /\ t # e.slice
      BY <2>2, <3>1, <3>4
    <3>5. QED BY <3>2, <3>3, <3>4
  <2>4. k.names # {} => PlanApart(Tail(k.plan), k.names, file')
    <3> SUFFICES ASSUME k.names # {} PROVE PlanApart(Tail(k.plan), k.names, file')
      OBVIOUS
    <3> DEFINE p == k.plan
               names == k.names
               g == file'
    <3>1. /\ PlanApart(p, names, file) /\ p \in Seq(PlanEntry) /\ p # <<>>
          /\ names \in SUBSET Slices
      BY <1>4, <1>7
    <3>2. p[1].slice \in names => RbgsOf(g[p[1].slice]) = p[1].row
      BY <1>4, <2>2
    <3>3. \A t \in names : ~InPlan(p, t) => g[t] = file[t]
      <4>1. 1 \in DOMAIN p /\ \A t \in names : t \in Slices
        BY <1>4
      <4>2. \A t \in Slices : t # e.slice => g[t] = file[t]
        BY <1>5, <2>1
      <4>3. QED BY <4>1, <4>2 DEF InPlan
    <3> HIDE DEF p, names, g
    <3>4. PlanApart(Tail(p), names, g)
      BY <3>1, <3>2, <3>3, PlanGoesOn
    <3>5. QED BY <3>4 DEF p, names, g
  <2>5. QED BY <1>1, <1>2, <1>6, <2>1, <2>3, <2>4, FinishQuiet
<1>11. QED BY <1>8, <1>9, <1>10

LEMMA KilledQuiet ==
  ASSUME Types, Quiet, Calm', NEW c \in Callers, Killed(c)
  PROVE  Quiet'
<1>1. /\ call' = [call EXCEPT ![c] = Dead] /\ Active(c) /\ raced' = raced
      /\ cutShort' = (cutShort \/ (call[c].pc \in {"open", "write"} /\ call[c].names # {}))
      /\ file' = file /\ apart' = apart
  BY DEF Killed
<1>2. Calm /\ ~(call[c].pc \in {"open", "write"} /\ call[c].names # {})
  BY <1>1 DEF Calm
<1>3. Sound(call[c], apart, file) /\ \A d \in Callers \ {c} : ~Active(d)
  BY <1>1, <1>2 DEF Quiet
<1>4. Apart(apart', file')
  BY <1>1, <1>2, <1>3 DEF Sound
<1>5. Dead \in CallType /\ ~Live(Dead)
  BY Phases DEF Live
<1>6. QED BY <1>1, <1>3, <1>4, <1>5, QuietStep

LEMMA QuietKept == InputsApart /\ Types /\ Quiet /\ [Next]_vars => Quiet'
<1> SUFFICES ASSUME InputsApart, Types, Quiet, [Next]_vars, Calm' PROVE Quiet'
  BY DEF Quiet, Calm
<1>1. CASE UNCHANGED <<file, call, apart, raced, cutShort>>
  BY <1>1 DEF Quiet, Calm, Active
<1>2. Update \/ UNCHANGED vars => UNCHANGED <<file, call, apart, raced, cutShort>>
  BY DEF Update, StartUpdate, ReadMask, history, vars
<1>3. QED BY <1>1, <1>2, NewCallQuiet, ReadsQuiet, WritesQuiet, KilledQuiet DEF Next, Continue

\* As long as calls follow one another and no whole allocation is stopped
\* half-way, no RBG is in the files of two of the slices that the last whole
\* allocation was about (scope_api.py), whatever the sizes that set_slice is
\* asked for, wherever set_slice is stopped, and whatever the eNB reads
\* meanwhile.
THEOREM CallsKeepApart ==
  ASSUME InputsApart
  PROVE  Spec => []QuietDisjoint
<1>1. Quiet => QuietDisjoint
  BY DEF Quiet, Calm, Apart, QuietDisjoint
<1>2. Init => Quiet
  BY InitQuiet
<1>3. Types /\ Quiet /\ [Next]_vars => Quiet'
  BY QuietKept
<1>4. QED BY <1>1, <1>2, <1>3, InitTypes, TypesKept, PTL DEF Spec
=============================================================================
