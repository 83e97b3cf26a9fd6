-------------------------- MODULE Contents_proof --------------------------
(***************************************************************************)
(* Theorems about Contents, for every set of sources, items and runs and   *)
(* whatever the sources list.                                              *)
(***************************************************************************)
EXTENDS Contents, SequenceTheorems, TLAPS

USE DEF vars, rows

-----------------------------------------------------------------------------
(* Sequences and the items in them. *)

LEMMA RangeOf ==
  ASSUME NEW S, NEW s \in Seq(S)
  PROVE  Range(s) \subseteq S
BY DEF Range

LEMMA RangeOfEmpty == Range(<<>>) = {}
BY DEF Range

LEMMA RangeOfAppend ==
  ASSUME NEW S, NEW s \in Seq(S), NEW e \in S
  PROVE  Append(s, e) \in Seq(S) /\ Range(Append(s, e)) = Range(s) \union {e}
<1>1. /\ Append(s, e) \in Seq(S) /\ Len(s) \in Nat
      /\ Len(Append(s, e)) = Len(s) + 1
      /\ \A i \in 1 .. Len(s) : Append(s, e)[i] = s[i]
      /\ Append(s, e)[Len(s) + 1] = e
  OBVIOUS
<1>2. DOMAIN s = 1 .. Len(s) /\ DOMAIN Append(s, e) = 1 .. Len(s) + 1
  BY <1>1
<1> QED
  BY <1>1, <1>2 DEF Range

LEMMA RangeOfTail ==
  ASSUME NEW S, NEW s \in Seq(S), s # <<>>
  PROVE  /\ Head(s) \in S /\ Tail(s) \in Seq(S)
         /\ Range(s) = {Head(s)} \union Range(Tail(s))
<1>1. /\ Head(s) = s[1] /\ Len(s) \in Nat /\ Len(s) > 0 /\ Tail(s) \in Seq(S)
      /\ Len(Tail(s)) = Len(s) - 1
      /\ \A i \in 1 .. Len(s) - 1 : Tail(s)[i] = s[i + 1]
  BY HeadTailProperties
<1>2. DOMAIN s = 1 .. Len(s) /\ DOMAIN Tail(s) = 1 .. Len(s) - 1
  BY <1>1
<1>3. Range(s) \subseteq {Head(s)} \union Range(Tail(s))
  <2> SUFFICES ASSUME NEW i \in 1 .. Len(s), i # 1 PROVE s[i] \in Range(Tail(s))
    BY <1>1, <1>2 DEF Range
  <2>1. i - 1 \in 1 .. Len(s) - 1 /\ Tail(s)[i - 1] = s[i]
    BY <1>1
  <2> QED
    BY <1>2, <2>1 DEF Range
<1>4. {Head(s)} \union Range(Tail(s)) \subseteq Range(s)
  BY <1>1, <1>2 DEF Range
<1> QED
  BY <1>1, <1>3, <1>4

-----------------------------------------------------------------------------
(* Runs as records. *)

Tool       == {"collect", "process", "distribute"}
Collecting == {"collect", "insert", "wait"}
Embeddings == {Absent, Bare, Embedded}

Record ==
  [mode : {"strict", "batch"},
   pc : Tool \union {"insert", "wait", "write", "over"},
   try : Nat, todo : Seq(Items), added : Seq(Items), row : Embeddings,
   listing : Seq(Items), rawIds : Seq(Items), doneIds : Seq(Items),
   lossy : BOOLEAN, result : {"none", "success", "raised", "failed"}]

\* A run between two tools, or over.
Settled(x) ==
  x \in Record /\ x.pc \in Tool \union {"over"} /\ x.added = <<>>

\* A record stays one when a field takes a value of its kind.
LEMMA FieldsOK ==
  ASSUME NEW x \in Record
  PROVE  /\ \A s \in Seq(Items) :
              /\ [x EXCEPT !.todo = s] \in Record
              /\ [x EXCEPT !.added = s] \in Record
              /\ [x EXCEPT !.listing = s] \in Record
              /\ [x EXCEPT !.rawIds = s] \in Record
              /\ [x EXCEPT !.doneIds = s] \in Record
         /\ \A n \in Nat : [x EXCEPT !.try = n] \in Record
         /\ \A e \in Embeddings : [x EXCEPT !.row = e] \in Record
         /\ [x EXCEPT !.lossy = TRUE] \in Record
         /\ [x EXCEPT !.mode = "batch"] \in Record
         /\ \A l \in Tool \union {"insert", "wait", "write"} :
              [x EXCEPT !.pc = l] \in Record
BY DEF Record

LEMMA OverSettles ==
  ASSUME NEW result \in {"none", "success", "raised", "failed"},
         NEW lossy \in BOOLEAN, NEW listing \in Seq(Items)
  PROVE  Settled(Over(result, lossy, listing))
BY DEF Over, Settled, Record, Embeddings

LEMMA CallSettles ==
  ASSUME NEW x \in Record, NEW tool \in Tool, NEW try \in Nat
  PROVE  /\ Settled(Call(x, tool, try))
         /\ Call(x, tool, try).pc = tool /\ Call(x, tool, try).try = try
         /\ Call(x, tool, try).todo = Input(x, tool)
         /\ Call(x, tool, try).listing = IF tool = "collect" THEN <<>> ELSE x.listing
         /\ Call(x, tool, try).mode = x.mode /\ Call(x, tool, try).lossy = x.lossy
         /\ Call(x, tool, try).rawIds = x.rawIds
<1> DEFINE input == Input(x, tool)
           listing == IF tool = "collect" THEN <<>> ELSE x.listing
           y == [x EXCEPT !.pc = tool, !.try = try, !.todo = input,
                          !.listing = listing, !.added = <<>>, !.row = Absent]
<1>1. input \in Seq(Items) /\ listing \in Seq(Items)
  BY DEF Input, Record
<1>2. Call(x, tool, try) = y
  BY DEF Call
<1> HIDE DEF input, listing
<1>3. /\ y.pc = tool /\ y.try = try /\ y.todo = input
      /\ y.listing = listing /\ y.added = <<>> /\ y.mode = x.mode
      /\ y.lossy = x.lossy /\ y.rawIds = x.rawIds
  BY DEF Record
<1>4. y \in Record
  <2>1. [x EXCEPT !.pc = tool, !.try = try] \in Record
    BY DEF Record, Tool
  <2>2. [x EXCEPT !.pc = tool, !.try = try, !.todo = input] \in Record
    BY <1>1, <2>1, FieldsOK
  <2>3. [x EXCEPT !.pc = tool, !.try = try, !.todo = input,
                  !.listing = listing] \in Record
    BY <1>1, <2>2, FieldsOK
  <2>4. <<>> \in Seq(Items)
    OBVIOUS
  <2>5. [x EXCEPT !.pc = tool, !.try = try, !.todo = input,
                  !.listing = listing, !.added = <<>>] \in Record
    BY <2>3, <2>4, FieldsOK
  <2> QED
    BY <2>5, FieldsOK DEF Embeddings
<1> QED
  BY <1>2, <1>3, <1>4 DEF Settled, input, listing

LEMMA TheTool ==
  ASSUME NEW x \in Record, x.pc # "over"
  PROVE  ToolOf(x.pc) \in Tool
BY DEF ToolOf, Record, Tool

-----------------------------------------------------------------------------
(* What becomes of a run when a tool has ended. *)

\* A run that has not absorbed an exception is in the first call of a tool;
\* what it has listed is among the rows or still ahead of it, then among what
\* it has processed or still ahead, then in the ids it distributes, and at last
\* offered.  "known" are the items with a raw row, "off" those offered.
Whole(x, known, off) ==
  /\ x.mode = "batch" => x.pc \in {"process", "write"} /\ x.listing = <<>>
  /\ x.mode = "strict" /\ ~x.lossy =>
       /\ x.pc # "over" => x.try = 0
       /\ x.pc \in Collecting =>
            /\ x.rawIds = <<>>
            /\ Range(x.listing) \subseteq known \union Range(x.added) \union Range(x.todo)
       /\ x.pc \in {"process", "write"} =>
            /\ x.rawIds = x.listing
            /\ Range(x.listing) \subseteq known
            /\ Range(x.listing) \subseteq Range(x.added) \union Range(x.todo)
       /\ x.pc = "distribute" => Range(x.listing) \subseteq Range(x.todo)
       /\ x.pc = "over" /\ x.result = "success" => Range(x.listing) \subseteq off

LEMMA OverIs ==
  ASSUME NEW result, NEW lossy, NEW listing
  PROVE  /\ Over(result, lossy, listing).mode = "strict"
         /\ Over(result, lossy, listing).pc = "over"
         /\ Over(result, lossy, listing).lossy = lossy
         /\ Over(result, lossy, listing).result = result
         /\ Over(result, lossy, listing).listing = listing
BY DEF Over

LEMMA ReturnedIs ==
  ASSUME NEW r, NEW x \in Record, x.pc # "over", NEW merged \in Record,
         merged.mode = x.mode, merged.lossy = x.lossy
  PROVE  /\ Settled(Returned(r, x, merged))
         /\ Returned(r, x, merged).mode = "strict"
         /\ Returned(r, x, merged).lossy = x.lossy
<1> DEFINE kept == IF x.try = 0 THEN merged ELSE x
<1>1. kept \in Record /\ kept.mode = x.mode /\ kept.lossy = x.lossy
  OBVIOUS
<1>2. /\ x.lossy \in BOOLEAN /\ x.listing \in Seq(Items)
      /\ x.mode \in {"strict", "batch"}
  BY DEF Record
<1>3. \/ Returned(r, x, merged) = Over("success", x.lossy, x.listing)
      \/ /\ x.mode = "strict"
         /\ \E tool \in Tool : Returned(r, x, merged) = Call(kept, tool, 0)
  BY <1>2 DEF Returned, Tool
<1> HIDE DEF kept
<1> QED
  BY <1>1, <1>2, <1>3, OverSettles, OverIs, CallSettles

LEMMA LossyIsWhole ==
  ASSUME NEW x, x.mode = "strict", x.lossy, NEW known, NEW off
  PROVE  Whole(x, known, off)
BY DEF Whole

LEMMA SkippedIs ==
  ASSUME NEW r, NEW x \in Record, x.pc # "over"
  PROVE  /\ Settled(Skipped(r, x))
         /\ Skipped(r, x).mode = "strict" /\ Skipped(r, x).lossy = x.lossy
<1> DEFINE y == [x EXCEPT !.try = MaxRetries + 1]
<1>1. y \in Record
  <2>1. MaxRetries + 1 \in Nat
    BY ContentsAssumption
  <2> QED
    BY <2>1, FieldsOK
<1>2. y.pc = x.pc /\ y.mode = x.mode /\ y.lossy = x.lossy
  BY DEF Record
<1>3. Skipped(r, x) = Returned(r, y, x)
  BY DEF Skipped
<1> HIDE DEF y
<1> QED
  BY <1>1, <1>2, <1>3, ReturnedIs

LEMMA RaisedIs ==
  ASSUME NEW r \in Runs, NEW x \in Record, x.pc # "over"
  PROVE  /\ Settled(Raised(r, x))
         /\ Raised(r, x).mode = "strict" /\ Raised(r, x).lossy
<1> DEFINE y == [x EXCEPT !.lossy = TRUE]
<1>1. y \in Record
  BY FieldsOK
<1>2. /\ y.pc = x.pc /\ y.mode = x.mode /\ y.lossy /\ y.try = x.try
      /\ x.listing \in Seq(Items) /\ x.try \in Nat /\ x.mode \in {"strict", "batch"}
      /\ OnFailure[r] \in {"abort", "retry", "skip"}
  BY ContentsAssumption DEF Record
<1> HIDE DEF y
<1>3. CASE x.mode = "batch"
  <2> DEFINE z == Over("raised", TRUE, x.listing)
  <2>1. Raised(r, x) = z
    BY <1>3 DEF Raised
  <2>2. Settled(z)
    BY <1>2, OverSettles
  <2>3. z.mode = "strict"
    BY DEF Over
  <2>4. z.lossy
    BY DEF Over
  <2> HIDE DEF z
  <2> QED
    BY <2>1, <2>2, <2>3, <2>4
<1>4. CASE x.mode # "batch" /\ OnFailure[r] = "abort"
  <2> DEFINE z == Over("failed", TRUE, x.listing)
  <2>1. Raised(r, x) = z
    BY <1>4 DEF Raised
  <2>2. Settled(z)
    BY <1>2, OverSettles
  <2>3. z.mode = "strict"
    BY DEF Over
  <2>4. z.lossy
    BY DEF Over
  <2> HIDE DEF z
  <2> QED
    BY <2>1, <2>2, <2>3, <2>4
<1>5. CASE x.mode # "batch" /\ OnFailure[r] = "retry"
  <2>1. Raised(r, x) = Retried(r, y)
    BY <1>5 DEF Raised, y
  <2>2. CASE y.try < MaxRetries
    <3>1. ToolOf(y.pc) \in Tool /\ y.try + 1 \in Nat
      BY <1>1, <1>2, TheTool
    <3>2. Raised(r, x) = Call(y, ToolOf(y.pc), y.try + 1)
      BY <2>1, <2>2 DEF Retried
    <3> QED
      BY <1>1, <1>2, <1>5, <3>1, <3>2, CallSettles
  <2>3. CASE ~(y.try < MaxRetries)
    BY <1>1, <1>2, <2>1, <2>3, SkippedIs DEF Retried
  <2> QED
    BY <2>2, <2>3
<1>6. CASE x.mode # "batch" /\ OnFailure[r] = "skip"
  <2>1. Raised(r, x) = Skipped(r, y)
    BY <1>6 DEF Raised, y
  <2> QED
    BY <1>1, <1>2, <2>1, SkippedIs
<1> QED
  BY <1>2, <1>3, <1>4, <1>5, <1>6

LEMMA DegradedIs ==
  ASSUME NEW r, NEW x \in Record, x.pc # "over", x.mode = "strict",
         NEW known, NEW off, Whole(x, known, off)
  PROVE  Settled(Degraded(r, x)) /\ Whole(Degraded(r, x), known, off)
<1>1. x.lossy \in BOOLEAN /\ x.listing \in Seq(Items)
  BY DEF Record
<1>2. CASE x.try = 0
  <2> DEFINE y == Over("raised", x.lossy, x.listing)
  <2>1. Degraded(r, x) = y
    BY <1>2 DEF Degraded
  <2>2. /\ Settled(y) /\ y.mode = "strict" /\ y.pc = "over"
        /\ y.result = "raised"
    BY <1>1, OverSettles, OverIs
  <2> HIDE DEF y
  <2> QED
    BY <2>1, <2>2 DEF Whole, Collecting
<1>3. CASE x.try # 0
  BY <1>1, <1>3, ReturnedIs, LossyIsWhole DEF Degraded, Whole
<1> QED
  BY <1>2, <1>3

\* The collect tool has returned.
LEMMA ReturnedFromCollect ==
  ASSUME NEW r, NEW x \in Record, ToolOf(x.pc) = "collect", NEW merged \in Record,
         merged.mode = x.mode, merged.lossy = x.lossy,
         merged.listing = x.listing, merged.rawIds = x.listing,
         NEW known, NEW off, Whole(x, known, off), x.pc = "collect",
         NEW more, Range(x.listing) \subseteq more
  PROVE  Whole(Returned(r, x, merged), more, off)
<1>1. x.mode = "strict"
  BY DEF Whole, Record
<1>2. CASE x.lossy
  BY <1>2, ReturnedIs, LossyIsWhole
<1>3. CASE ~x.lossy
  <2>1. x.try = 0
    BY <1>1, <1>3 DEF Whole
  <2>2. Returned(r, x, merged) = Call(merged, "process", 0)
    BY <1>1, <2>1 DEF Returned
  <2> DEFINE y == Call(merged, "process", 0)
  <2>3. /\ y.pc = "process" /\ y.try = 0 /\ y.todo = merged.rawIds
        /\ y.listing = merged.listing /\ y.rawIds = merged.rawIds
        /\ y.mode = "strict"
    BY <1>1, CallSettles DEF Tool, Input
  <2> HIDE DEF y
  <2>4. Whole(y, more, off)
    BY <2>3 DEF Whole, Collecting
  <2> QED
    BY <2>2, <2>4 DEF y
<1> QED
  BY <1>2, <1>3

\* The process tool has returned.
LEMMA ReturnedFromProcess ==
  ASSUME NEW r, NEW x \in Record, x.pc = "process", x.todo = <<>>,
         NEW merged \in Record, merged.mode = x.mode, merged.lossy = x.lossy,
         merged.listing = x.listing, merged.doneIds = x.added,
         NEW known, NEW off, Whole(x, known, off)
  PROVE  Whole(Returned(r, x, merged), known, off)
<1>1. x.lossy \in BOOLEAN /\ x.mode \in {"strict", "batch"}
  BY DEF Record
<1>2. CASE x.lossy
  BY <1>2, ReturnedIs, LossyIsWhole
<1>3. CASE ~x.lossy /\ x.mode = "batch"
  <2>1. Returned(r, x, merged) = Over("success", x.lossy, <<>>)
    BY <1>3 DEF Returned, Whole
  <2> QED
    BY <1>3, <2>1, OverIs, RangeOfEmpty DEF Whole, Collecting
<1>4. CASE ~x.lossy /\ x.mode = "strict"
  <2>1. x.try = 0 /\ Range(x.listing) \subseteq Range(x.added)
    BY <1>4, RangeOfEmpty DEF Whole
  <2>2. Returned(r, x, merged) = Call(merged, "distribute", 0)
    BY <1>4, <2>1 DEF Returned, ToolOf
  <2> DEFINE y == Call(merged, "distribute", 0)
  <2>3. /\ y.pc = "distribute" /\ y.try = 0 /\ y.todo = merged.doneIds
        /\ y.listing = merged.listing /\ y.mode = "strict"
    BY <1>4, CallSettles DEF Tool, Input
  <2> HIDE DEF y
  <2>4. Whole(y, known, off)
    BY <2>1, <2>3 DEF Whole, Collecting
  <2> QED
    BY <2>2, <2>4 DEF y
<1> QED
  BY <1>1, <1>2, <1>3, <1>4

\* The distribute tool has returned.
LEMMA ReturnedFromDistribute ==
  ASSUME NEW r, NEW x \in Record, x.pc = "distribute",
         NEW known, NEW off, Whole(x, known, off),
         NEW more, Range(x.todo) \subseteq more
  PROVE  Whole(Returned(r, x, x), known, more)
<1>1. x.lossy \in BOOLEAN /\ x.mode = "strict"
  BY DEF Record, Whole
<1>2. CASE x.lossy
  BY <1>2, ReturnedIs, LossyIsWhole
<1>3. CASE ~x.lossy
  <2>1. Range(x.listing) \subseteq more
    BY <1>1, <1>3 DEF Whole
  <2>2. Returned(r, x, x) = Over("success", x.lossy, x.listing)
    BY <1>1 DEF Returned, ToolOf
  <2> QED
    BY <2>1, <2>2, OverIs DEF Whole, Collecting
<1> QED
  BY <1>1, <1>2, <1>3

-----------------------------------------------------------------------------
(* The invariant. *)

Known == {i \in Items : raw[i] # Absent}

\* The rows a collecting run has added are in its transaction only.  What a run
\* works at is there, and so is a processed row that it has read.
Placed(x, rawRows, processedRows) ==
  /\ x.pc \in Collecting => \A i \in Range(x.added) : rawRows[i] = Absent
  /\ x.pc \in {"insert", "wait", "write"} => x.todo # <<>>
  /\ x.pc = "write" =>
       /\ rawRows[Head(x.todo)] # Absent
       /\ x.row # Absent => processedRows[Head(x.todo)] # Absent

\* Two open transactions never hold the same fingerprint.
Apart(x, y) ==
  x.pc \in Collecting /\ y.pc \in Collecting => Range(x.added) \cap Range(y.added) = {}

TablesOK ==
  /\ feed \in [Sources -> Seq(Items)]
  /\ raw \in [Items -> {Absent, "pending", "processed"}]
  /\ processed \in [Items -> Embeddings]
  /\ \A i \in Items : raw[i] = "processed" <=> processed[i] # Absent

RunsOK ==
  /\ run \in [Runs -> Record]
  /\ \A r \in Runs : Placed(run[r], raw, processed)
  /\ \A r \in Runs : Whole(run[r], Known, offered)
  /\ \A r, o \in Runs : r # o => Apart(run[r], run[o])

Inv == TablesOK /\ RunsOK

LEMMA WholeGrows ==
  ASSUME NEW x, NEW known, NEW off, Whole(x, known, off),
         NEW more, known \subseteq more, NEW later, off \subseteq later
  PROVE  Whole(x, more, later)
<1>1. CASE x.mode = "strict" /\ ~x.lossy
  BY <1>1 DEF Whole
<1>2. CASE ~(x.mode = "strict" /\ ~x.lossy)
  BY <1>2 DEF Whole
<1> QED
  BY <1>1, <1>2

LEMMA SettledFits ==
  ASSUME NEW x, Settled(x)
  PROVE  /\ x \in Record
         /\ \A rawRows, processedRows : Placed(x, rawRows, processedRows)
         /\ \A y : Apart(x, y)
BY RangeOfEmpty DEF Settled, Placed, Apart, Collecting, Tool

\* A step of one run that leaves the other runs what they rely on.
LEMMA StepOfOne ==
  ASSUME Inv, TablesOK', NEW r \in Runs, NEW x \in Record, run' = [run EXCEPT ![r] = x],
         \A i \in Items : raw[i] # Absent => raw'[i] # Absent,
         \A i \in Items : processed[i] # Absent => processed'[i] # Absent,
         offered \subseteq offered',
         \A o \in Runs \ {r} : run[o].pc \in Collecting =>
           \A i \in Range(run[o].added) : raw'[i] = Absent,
         Placed(x, raw', processed'), Whole(x, Known', offered'),
         \A o \in Runs \ {r} : Apart(x, run[o])
  PROVE  Inv'
<1>1. /\ run \in [Runs -> Record] /\ run' \in [Runs -> Record]
      /\ run'[r] = x /\ \A o \in Runs \ {r} : run'[o] = run[o]
  BY DEF Inv, RunsOK
<1>2. ASSUME NEW o \in Runs PROVE Placed(run[o], raw, processed)' /\ Whole(run'[o], Known', offered')
  <2>1. CASE o = r
    BY <1>1, <2>1
  <2>2. CASE o # r
    <3>1. run'[o] = run[o] /\ run[o] \in Record
      BY <1>1, <2>2
    <3>2. run[o].pc \in {"insert", "wait", "write"} =>
            run[o].todo # <<>> /\ Head(run[o].todo) \in Items
      BY <3>1, RangeOfTail DEF Inv, RunsOK, Placed, Record
    <3>3. Placed(run[o], raw', processed')
      BY <2>2, <3>1, <3>2 DEF Inv, RunsOK, Placed
    <3>4. Known \subseteq Known'
      BY DEF Known
    <3>5. Whole(run[o], Known, offered)
      BY DEF Inv, RunsOK
    <3>6. Whole(run[o], Known', offered')
      BY <3>4, <3>5, WholeGrows
    <3> QED
      BY <3>1, <3>3, <3>6
  <2> QED
    BY <2>1, <2>2
<1>3. ASSUME NEW o \in Runs, NEW p \in Runs, o # p PROVE Apart(run'[o], run'[p])
  <2>1. CASE o # r /\ p # r
    BY <1>1, <1>3, <2>1 DEF Inv, RunsOK
  <2>2. CASE o = r
    BY <1>1, <1>3, <2>2
  <2>3. CASE p = r
    <3>1. Apart(x, run[o]) /\ run'[p] = x /\ run'[o] = run[o]
      BY <1>1, <1>3, <2>3
    <3> QED
      BY <3>1 DEF Apart
  <2> QED
    BY <2>1, <2>2, <2>3
<1> QED
  BY <1>1, <1>2, <1>3 DEF Inv, RunsOK

\* A tool begins or the run ends, and the rows stay.
LEMMA StepBetweenTools ==
  ASSUME Inv, UNCHANGED <<feed, rows>>, NEW r \in Runs, NEW x, Become(r, x), Settled(x),
         Whole(x, Known, offered)
  PROVE  Inv'
<1>1. TablesOK' /\ Known' = Known
  BY DEF Inv, TablesOK, Known
<1>2. x \in Record /\ Placed(x, raw', processed') /\ \A o \in Runs \ {r} : Apart(x, run[o])
  BY SettledFits
<1>3. \A o \in Runs \ {r} : run[o].pc \in Collecting =>
        \A i \in Range(run[o].added) : raw'[i] = Absent
  BY DEF Inv, RunsOK, Placed
<1> QED
  BY <1>1, <1>2, <1>3, StepOfOne DEF Become

\* A run goes on within a tool, and the rows stay.
LEMMA StepWithinTool ==
  ASSUME Inv, UNCHANGED <<feed, rows>>, NEW r \in Runs, NEW x \in Record, Become(r, x),
         Placed(x, raw, processed), Whole(x, Known, offered),
         \A o \in Runs \ {r} : Apart(x, run[o])
  PROVE  Inv'
<1>1. TablesOK' /\ Known' = Known
  BY DEF Inv, TablesOK, Known
<1>2. \A o \in Runs \ {r} : run[o].pc \in Collecting =>
        \A i \in Range(run[o].added) : raw'[i] = Absent
  BY DEF Inv, RunsOK, Placed
<1>3. Placed(x, raw', processed')
  OBVIOUS
<1> QED
  BY <1>1, <1>2, <1>3, StepOfOne DEF Become

\* A tool raises.
LEMMA StepRaised ==
  ASSUME Inv, UNCHANGED <<feed, rows>>, NEW r \in Runs, run[r].pc # "over",
         Become(r, Raised(r, run[r]))
  PROVE  Inv'
<1>1. run[r] \in Record
  BY DEF Inv, RunsOK
<1> DEFINE x == Raised(r, run[r])
<1>2. Settled(x) /\ x.mode = "strict" /\ x.lossy
  BY <1>1, RaisedIs
<1>3. Become(r, x)
  OBVIOUS
<1> HIDE DEF x
<1>4. Whole(x, Known, offered)
  BY <1>2, LossyIsWhole
<1> QED
  BY <1>2, <1>3, <1>4, StepBetweenTools

-----------------------------------------------------------------------------
(* One lemma for each action of a run. *)

\* What the invariant says of one run.
LEMMA TheRun ==
  ASSUME Inv, NEW r \in Runs
  PROVE  /\ run[r] \in Record /\ Placed(run[r], raw, processed)
         /\ Whole(run[r], Known, offered)
         /\ \A o \in Runs \ {r} : Apart(run[r], run[o])
         /\ run[r].todo \in Seq(Items) /\ run[r].added \in Seq(Items)
         /\ run[r].listing \in Seq(Items) /\ run[r].try \in Nat
         /\ run[r].lossy \in BOOLEAN /\ run[r].mode \in {"strict", "batch"}
         /\ run[r].row \in Embeddings
BY DEF Inv, RunsOK, Record

LEMMA NoRun ==
  LET none == Over("none", FALSE, <<>>)
  IN  /\ none \in Record /\ none.mode = "strict" /\ none.lossy = FALSE
      /\ none.rawIds = <<>> /\ none.listing = <<>>
<1>1. <<>> \in Seq(Items)
  OBVIOUS
<1>2. Settled(Over("none", FALSE, <<>>))
  BY <1>1, OverSettles
<1> QED
  BY <1>2 DEF Settled, Over

LEMMA StartKeeps ==
  ASSUME Inv, NEW r \in Runs, Start(r)
  PROVE  Inv'
<1> DEFINE none == Over("none", FALSE, <<>>)
           x == Call(none, "collect", 0)
<1>1. none \in Record /\ none.mode = "strict" /\ none.rawIds = <<>>
  BY NoRun
<1> HIDE DEF none
<1>2. /\ Settled(x) /\ x.pc = "collect" /\ x.try = 0 /\ x.mode = "strict"
      /\ x.rawIds = <<>> /\ x.listing = <<>>
  BY <1>1, CallSettles DEF Tool
<1>3. Become(r, x) /\ UNCHANGED <<feed, rows>>
  BY DEF Start, none
<1> HIDE DEF x
<1>4. Whole(x, Known, offered)
  BY <1>2, RangeOfEmpty DEF Whole
<1> QED
  BY <1>2, <1>3, <1>4, StepBetweenTools

LEMMA StartBatchKeeps ==
  ASSUME Inv, NEW r \in Runs, StartBatch(r)
  PROVE  Inv'
<1> DEFINE none == Over("none", FALSE, <<>>)
           call == Call(none, "process", 0)
<1>1. /\ none \in Record /\ none.lossy = FALSE /\ none.listing = <<>>
  BY NoRun
<1>2. PICK i \in Items : Become(r, [call EXCEPT !.mode = "batch", !.todo = <<i>>])
  BY DEF StartBatch
<1> HIDE DEF none
<1>3. Settled(call) /\ call.pc = "process" /\ call.listing = <<>>
  BY <1>1, CallSettles DEF Tool
<1> HIDE DEF call
<1> DEFINE x == [call EXCEPT !.mode = "batch", !.todo = <<i>>]
<1>4. x \in Record
  <2>1. [call EXCEPT !.mode = "batch"] \in Record
    BY <1>3, FieldsOK DEF Settled
  <2>2. <<i>> \in Seq(Items)
    OBVIOUS
  <2> QED
    BY <2>1, <2>2, FieldsOK
<1>5. /\ x.mode = "batch" /\ x.pc = "process" /\ x.listing = <<>> /\ x.added = <<>>
  BY <1>3 DEF Settled, Record
<1>6. Become(r, x)
  BY <1>2
<1> HIDE DEF x
<1>7. Settled(x) /\ Whole(x, Known, offered)
  BY <1>4, <1>5 DEF Settled, Tool, Whole
<1> QED
  BY <1>6, <1>7, StepBetweenTools DEF StartBatch

LEMMA FaultKeeps ==
  ASSUME Inv, NEW r \in Runs, Fault(r)
  PROVE  Inv'
BY StepRaised DEF Fault

LEMMA FetchKeeps ==
  ASSUME Inv, NEW r \in Runs, Fetch(r)
  PROVE  Inv'
<1> DEFINE x == run[r]
<1>1. /\ x \in Record /\ Placed(x, raw, processed) /\ Whole(x, Known, offered)
      /\ \A o \in Runs \ {r} : Apart(x, run[o])
      /\ x.pc = "collect" /\ x.todo = <<>> /\ x.listing = <<>>
      /\ x.mode \in {"strict", "batch"} /\ x.lossy \in BOOLEAN
      /\ UNCHANGED <<feed, rows>>
  BY TheRun DEF Fetch
<1>2. PICK list \in Found(SourceOf[r]) :
        Become(r, IF list = <<>> THEN Returned(r, x, x)
                  ELSE [x EXCEPT !.listing = list, !.todo = list])
  BY DEF Fetch
<1>3. list \in Seq(Items)
  <2>1. feed \in [Sources -> Seq(Items)] /\ SourceOf[r] \in Sources
    BY ContentsAssumption DEF Inv, TablesOK
  <2>2. <<>> \in Seq(Items)
    OBVIOUS
  <2> QED
    BY <2>1, <2>2, ContentsAssumption DEF Found, FeedEntries, ApiItems, PageItem
<1> HIDE DEF x
<1>4. CASE list = <<>>
  <2> DEFINE y == Returned(r, x, x)
  <2>1. Become(r, y)
    BY <1>2, <1>4
  <2>2. Settled(y) /\ y.mode = "strict" /\ y.lossy = x.lossy
    BY <1>1, ReturnedIs
  <2>3. CASE x.lossy
    <3> HIDE DEF y
    <3>1. Whole(y, Known, offered)
      BY <2>2, <2>3, LossyIsWhole
    <3> QED
      BY <1>1, <2>1, <2>2, <3>1, StepBetweenTools
  <2>4. CASE ~x.lossy
    <3>1. x.mode = "strict" /\ x.rawIds = <<>>
      BY <1>1, <2>4 DEF Whole, Collecting
    <3>2. Range(x.listing) \subseteq Known
      BY <1>1, RangeOfEmpty
    <3>3. Whole(y, Known, offered)
      BY <1>1, <3>1, <3>2, ReturnedFromCollect DEF ToolOf
    <3> HIDE DEF y
    <3> QED
      BY <1>1, <2>1, <2>2, <3>3, StepBetweenTools
  <2> QED
    BY <1>1, <2>3, <2>4
<1>5. CASE list # <<>>
  <2> DEFINE y == [x EXCEPT !.listing = list, !.todo = list]
  <2>1. y \in Record
    <3>1. [x EXCEPT !.listing = list] \in Record
      BY <1>1, <1>3, FieldsOK
    <3> QED
      BY <1>3, <3>1, FieldsOK
  <2>2. /\ y.pc = "collect" /\ y.mode = x.mode /\ y.lossy = x.lossy /\ y.try = x.try
        /\ y.todo = list /\ y.listing = list /\ y.added = x.added /\ y.rawIds = x.rawIds
    BY <1>1 DEF Record
  <2>3. Become(r, y)
    BY <1>2, <1>5
  <2> HIDE DEF y
  <2>4. Placed(y, raw, processed) /\ \A o \in Runs \ {r} : Apart(y, run[o])
    BY <1>1, <2>2 DEF Placed, Apart
  <2>5. Whole(y, Known, offered)
    BY <1>1, <2>2 DEF Whole, Collecting
  <2> QED
    BY <1>1, <2>1, <2>3, <2>4, <2>5, StepWithinTool
<1> QED
  BY <1>4, <1>5

LEMMA DegradedKeeps ==
  ASSUME Inv, NEW r \in Runs, run[r].pc # "over", run[r].mode = "strict",
         Become(r, Degraded(r, run[r])), UNCHANGED <<feed, rows>>
  PROVE  Inv'
<1> DEFINE y == Degraded(r, run[r])
<1>1. Settled(y) /\ Whole(y, Known, offered)
  BY TheRun, DegradedIs
<1>2. Become(r, y)
  OBVIOUS
<1> HIDE DEF y
<1> QED
  BY <1>1, <1>2, StepBetweenTools

LEMMA NoCollectorKeeps ==
  ASSUME Inv, NEW r \in Runs, NoCollector(r)
  PROVE  Inv'
<1>1. run[r].mode = "strict"
  BY TheRun DEF NoCollector, Whole
<1> QED
  BY <1>1, DegradedKeeps DEF NoCollector

LEMMA NoInputKeeps ==
  ASSUME Inv, NEW r \in Runs, NoInput(r)
  PROVE  Inv'
<1>1. run[r].mode = "strict"
  BY TheRun DEF NoInput
<1> QED
  BY <1>1, DegradedKeeps DEF NoInput

LEMMA CheckKeeps ==
  ASSUME Inv, NEW r \in Runs, Check(r)
  PROVE  Inv'
<1> DEFINE x == run[r]
           i == Head(x.todo)
<1>1. /\ x \in Record /\ Placed(x, raw, processed) /\ Whole(x, Known, offered)
      /\ \A o \in Runs \ {r} : Apart(x, run[o])
      /\ x.pc = "collect" /\ x.todo # <<>> /\ x.todo \in Seq(Items)
      /\ x.mode \in {"strict", "batch"} /\ x.lossy \in BOOLEAN
      /\ UNCHANGED <<feed, rows>>
  BY TheRun DEF Check
<1>2. i \in Items /\ Tail(x.todo) \in Seq(Items) /\ Range(x.todo) = {i} \union Range(Tail(x.todo))
  BY <1>1, RangeOfTail
<1>3. \/ /\ i \in Known \union Range(x.added)
         /\ Become(r, [x EXCEPT !.todo = Tail(x.todo)])
      \/ Become(r, [x EXCEPT !.pc = "insert"])
  BY <1>2 DEF Check, Known
<1> HIDE DEF x, i
<1>4. CASE i \in Known \union Range(x.added) /\ Become(r, [x EXCEPT !.todo = Tail(x.todo)])
  <2> DEFINE y == [x EXCEPT !.todo = Tail(x.todo)]
  <2>1. y \in Record
    BY <1>1, <1>2, FieldsOK
  <2>2. /\ y.pc = "collect" /\ y.mode = x.mode /\ y.lossy = x.lossy /\ y.try = x.try
        /\ y.todo = Tail(x.todo) /\ y.listing = x.listing /\ y.added = x.added
        /\ y.rawIds = x.rawIds
    BY <1>1 DEF Record
  <2>3. Become(r, y)
    BY <1>4
  <2> HIDE DEF y
  <2>4. Placed(y, raw, processed) /\ \A o \in Runs \ {r} : Apart(y, run[o])
    BY <1>1, <2>2 DEF Placed, Apart
  <2>5. Whole(y, Known, offered)
    BY <1>1, <1>2, <1>4, <2>2 DEF Whole, Collecting
  <2> QED
    BY <1>1, <2>1, <2>3, <2>4, <2>5, StepWithinTool
<1>5. CASE Become(r, [x EXCEPT !.pc = "insert"])
  <2> DEFINE y == [x EXCEPT !.pc = "insert"]
  <2>1. y \in Record
    BY <1>1, FieldsOK
  <2>2. /\ y.pc = "insert" /\ y.mode = x.mode /\ y.lossy = x.lossy /\ y.try = x.try
        /\ y.todo = x.todo /\ y.listing = x.listing /\ y.added = x.added
        /\ y.rawIds = x.rawIds
    BY <1>1 DEF Record
  <2>3. Become(r, y)
    BY <1>5
  <2> HIDE DEF y
  <2>4. Placed(y, raw, processed) /\ \A o \in Runs \ {r} : Apart(y, run[o])
    BY <1>1, <2>2 DEF Placed, Apart, Collecting
  <2>5. Whole(y, Known, offered)
    BY <1>1, <2>2 DEF Whole, Collecting
  <2> QED
    BY <1>1, <2>1, <2>3, <2>4, <2>5, StepWithinTool
<1> QED
  BY <1>3, <1>4, <1>5

LEMMA WaitKeeps ==
  ASSUME Inv, NEW r \in Runs, Wait(r)
  PROVE  Inv'
<1> DEFINE x == run[r]
           y == [x EXCEPT !.pc = "wait"]
<1>1. /\ x \in Record /\ Placed(x, raw, processed) /\ Whole(x, Known, offered)
      /\ \A o \in Runs \ {r} : Apart(x, run[o])
      /\ x.pc = "insert" /\ x.mode \in {"strict", "batch"} /\ x.lossy \in BOOLEAN
      /\ UNCHANGED <<feed, rows>> /\ Become(r, y)
  BY TheRun DEF Wait
<1> HIDE DEF x
<1>2. y \in Record
  BY <1>1, FieldsOK
<1>3. /\ y.pc = "wait" /\ y.mode = x.mode /\ y.lossy = x.lossy /\ y.try = x.try
      /\ y.todo = x.todo /\ y.listing = x.listing /\ y.added = x.added
      /\ y.rawIds = x.rawIds
  BY <1>1 DEF Record
<1> HIDE DEF y
<1>4. Placed(y, raw, processed) /\ \A o \in Runs \ {r} : Apart(y, run[o])
  BY <1>1, <1>3 DEF Placed, Apart, Collecting
<1>5. Whole(y, Known, offered)
  BY <1>1, <1>3 DEF Whole, Collecting
<1> QED
  BY <1>1, <1>2, <1>4, <1>5, StepWithinTool

LEMMA InsertKeeps ==
  ASSUME Inv, NEW r \in Runs, Insert(r)
  PROVE  Inv'
<1> DEFINE x == run[r]
           i == Head(x.todo)
           y == [x EXCEPT !.pc = "collect", !.todo = Tail(x.todo), !.added = Append(x.added, i)]
<1>1. /\ x \in Record /\ Placed(x, raw, processed) /\ Whole(x, Known, offered)
      /\ \A o \in Runs \ {r} : Apart(x, run[o])
      /\ x.pc \in {"insert", "wait"} /\ x.todo \in Seq(Items) /\ x.added \in Seq(Items)
      /\ x.mode \in {"strict", "batch"} /\ x.lossy \in BOOLEAN
      /\ UNCHANGED <<feed, rows>>
  BY TheRun DEF Insert
<1>2. x.todo # <<>>
  BY <1>1 DEF Placed
<1>3. /\ i \in Items /\ Tail(x.todo) \in Seq(Items)
      /\ Range(x.todo) = {i} \union Range(Tail(x.todo))
  BY <1>1, <1>2, RangeOfTail
<1>4. /\ Append(x.added, i) \in Seq(Items)
      /\ Range(Append(x.added, i)) = Range(x.added) \union {i}
  BY <1>1, <1>3, RangeOfAppend
<1>5. \A o \in Runs \ {r} : run[o].pc \in Collecting => i \notin Range(run[o].added)
  BY DEF Insert, Holders, ToolOf, Collecting
<1>6. CASE raw[i] # Absent
  <2>1. Become(r, Raised(r, run[r])) /\ run[r].pc # "over"
    BY <1>1, <1>6 DEF Insert
  <2> QED
    BY <1>1, <2>1, StepRaised
<1>7. CASE raw[i] = Absent
  <2>1. Become(r, y)
    BY <1>7 DEF Insert
  <2> HIDE DEF x, i
  <2>2. y \in Record
    <3>1. [x EXCEPT !.pc = "collect"] \in Record
      BY <1>1, FieldsOK DEF Tool
    <3>2. [x EXCEPT !.pc = "collect", !.todo = Tail(x.todo)] \in Record
      BY <1>3, <3>1, FieldsOK
    <3> QED
      BY <1>4, <3>2, FieldsOK
  <2>3. /\ y.pc = "collect" /\ y.mode = x.mode /\ y.lossy = x.lossy /\ y.try = x.try
        /\ y.todo = Tail(x.todo) /\ y.listing = x.listing
        /\ y.added = Append(x.added, i) /\ y.rawIds = x.rawIds
    BY <1>1 DEF Record
  <2> HIDE DEF y
  <2>4. Placed(y, raw, processed)
    BY <1>1, <1>4, <1>7, <2>3 DEF Placed, Collecting
  <2>5. \A o \in Runs \ {r} : Apart(y, run[o])
    BY <1>1, <1>4, <1>5, <2>3 DEF Apart, Collecting
  <2>6. Whole(y, Known, offered)
    BY <1>1, <1>3, <1>4, <2>3 DEF Whole, Collecting
  <2> QED
    BY <1>1, <2>1, <2>2, <2>4, <2>5, <2>6, StepWithinTool
<1> QED
  BY <1>6, <1>7

LEMMA DeadlockKeeps ==
  ASSUME Inv, NEW r \in Runs, Deadlock(r)
  PROVE  Inv'
BY StepRaised DEF Deadlock

LEMMA CommitCollectKeeps ==
  ASSUME Inv, NEW r \in Runs, CommitCollect(r)
  PROVE  Inv'
<1> DEFINE x == run[r]
           merged == Collected(x)
           y == Returned(r, x, merged)
<1>1. /\ x \in Record /\ Placed(x, raw, processed) /\ Whole(x, Known, offered)
      /\ \A o \in Runs \ {r} : Apart(x, run[o])
      /\ x.pc = "collect" /\ x.todo = <<>> /\ x.listing \in Seq(Items)
      /\ x.mode \in {"strict", "batch"} /\ x.lossy \in BOOLEAN
      /\ x.added \in Seq(Items) /\ Become(r, y)
      /\ UNCHANGED <<feed, processed, offered>>
  BY TheRun DEF CommitCollect
<1>2. raw' = [i \in Items |-> IF i \in Range(x.added) THEN "pending" ELSE raw[i]]
  BY DEF CommitCollect
<1>3. \A i \in Range(x.added) : i \in Items /\ raw[i] = Absent
  BY <1>1, RangeOf DEF Placed, Collecting
<1>4. TablesOK'
  BY <1>1, <1>2, <1>3 DEF Inv, TablesOK, Embeddings, Absent
<1>5. Known \subseteq Known' /\ Range(x.added) \subseteq Known'
  BY <1>2, <1>3 DEF Known, Absent
<1>6. \A i \in Items : raw[i] # Absent => raw'[i] # Absent
  BY <1>2 DEF Absent
<1>7. \A o \in Runs \ {r} : run[o].pc \in Collecting =>
        \A i \in Range(run[o].added) : raw'[i] = Absent
  <2> SUFFICES ASSUME NEW o \in Runs \ {r}, run[o].pc \in Collecting,
                      NEW i \in Range(run[o].added)
               PROVE  raw'[i] = Absent
    OBVIOUS
  <2>1. i \in Items /\ raw[i] = Absent
    BY TheRun, RangeOf DEF Placed
  <2>2. i \notin Range(x.added)
    BY <1>1 DEF Apart, Collecting
  <2> QED
    BY <1>2, <2>1, <2>2
<1> HIDE DEF x
<1>8. /\ merged \in Record /\ merged.mode = x.mode /\ merged.lossy = x.lossy
      /\ merged.listing = x.listing /\ merged.rawIds = x.listing
  <2>1. [x EXCEPT !.rawIds = x.listing] \in Record
    BY <1>1, FieldsOK
  <2> QED
    BY <1>1, <2>1 DEF Collected, Record
<1> HIDE DEF merged
<1>9. Settled(y) /\ y.mode = "strict" /\ y.lossy = x.lossy
  BY <1>1, <1>8, ReturnedIs
<1>10. Whole(y, Known', offered')
  <2>1. CASE x.lossy
    <3> HIDE DEF y
    <3> QED
      BY <1>9, <2>1, LossyIsWhole
  <2>2. CASE ~x.lossy
    <3>1. Range(x.listing) \subseteq Known'
      BY <1>1, <1>5, <2>2, RangeOfEmpty DEF Whole, Collecting
    <3>2. Whole(y, Known', offered)
      BY <1>1, <1>8, <3>1, ReturnedFromCollect DEF ToolOf
    <3> QED
      BY <1>1, <3>2
  <2> QED
    BY <1>1, <2>1, <2>2
<1> HIDE DEF y
<1>11. /\ y \in Record /\ Placed(y, raw', processed')
       /\ \A o \in Runs \ {r} : Apart(y, run[o])
  BY <1>9, SettledFits
<1> QED
  BY <1>1, <1>4, <1>6, <1>7, <1>10, <1>11, StepOfOne DEF Become

LEMMA ReadKeeps ==
  ASSUME Inv, NEW r \in Runs, Read(r)
  PROVE  Inv'
<1> DEFINE x == run[r]
           i == Head(x.todo)
<1>1. /\ x \in Record /\ Placed(x, raw, processed) /\ Whole(x, Known, offered)
      /\ x.pc = "process" /\ x.todo # <<>> /\ x.todo \in Seq(Items)
      /\ x.mode \in {"strict", "batch"} /\ x.lossy \in BOOLEAN
      /\ UNCHANGED <<feed, rows>>
  BY TheRun DEF Read
<1>2. i \in Items /\ Tail(x.todo) \in Seq(Items) /\ Range(x.todo) = {i} \union Range(Tail(x.todo))
  BY <1>1, RangeOfTail
<1>3. processed[i] \in Embeddings
      /\ (raw[i] = "processed" <=> processed[i] # Absent)
  BY <1>2 DEF Inv, TablesOK
<1>4. CASE raw[i] = Absent
  <2> DEFINE y == [x EXCEPT !.todo = Tail(x.todo)]
  <2>1. Become(r, y)
    BY <1>4 DEF Read
  <2>2. i \notin Known
    BY <1>4 DEF Known
  <2> HIDE DEF x, i
  <2>3. y \in Record
    BY <1>1, <1>2, FieldsOK
  <2>4. /\ y.pc = "process" /\ y.mode = x.mode /\ y.lossy = x.lossy /\ y.try = x.try
        /\ y.todo = Tail(x.todo) /\ y.listing = x.listing /\ y.added = x.added
        /\ y.rawIds = x.rawIds
    BY <1>1 DEF Record
  <2> HIDE DEF y
  <2>5. Placed(y, raw, processed) /\ \A o \in Runs \ {r} : Apart(y, run[o])
    BY <2>4 DEF Placed, Apart, Collecting
  <2>6. Whole(y, Known, offered)
    BY <1>1, <1>2, <2>2, <2>4 DEF Whole, Collecting
  <2> QED
    BY <1>1, <2>1, <2>3, <2>5, <2>6, StepWithinTool
<1>5. CASE raw[i] # Absent
  <2> DEFINE y == [x EXCEPT !.pc = "write", !.row = processed[i]]
  <2>1. Become(r, y)
    BY <1>5 DEF Read
  <2> HIDE DEF x
  <2>2. y \in Record
    <3>1. [x EXCEPT !.pc = "write"] \in Record
      BY <1>1, FieldsOK
    <3> QED
      BY <1>3, <3>1, FieldsOK
  <2>3. /\ y.pc = "write" /\ y.mode = x.mode /\ y.lossy = x.lossy /\ y.try = x.try
        /\ y.todo = x.todo /\ y.listing = x.listing /\ y.added = x.added
        /\ y.rawIds = x.rawIds /\ y.row = processed[i]
    BY <1>1 DEF Record
  <2> HIDE DEF y
  <2>4. Placed(y, raw, processed) /\ \A o \in Runs \ {r} : Apart(y, run[o])
    BY <1>1, <1>5, <2>3 DEF Placed, Apart, Collecting
  <2>5. Whole(y, Known, offered)
    BY <1>1, <2>3 DEF Whole, Collecting
  <2> QED
    BY <1>1, <2>1, <2>2, <2>4, <2>5, StepWithinTool
<1> QED
  BY <1>4, <1>5

LEMMA WriteKeeps ==
  ASSUME Inv, NEW r \in Runs, Write(r)
  PROVE  Inv'
<1> DEFINE x == run[r]
           i == Head(x.todo)
           y == [x EXCEPT !.pc = "process", !.row = Absent, !.todo = Tail(x.todo),
                          !.added = Append(x.added, i)]
<1>1. /\ x \in Record /\ Placed(x, raw, processed) /\ Whole(x, Known, offered)
      /\ x.pc = "write" /\ x.todo \in Seq(Items) /\ x.added \in Seq(Items)
      /\ x.mode \in {"strict", "batch"} /\ x.lossy \in BOOLEAN
      /\ UNCHANGED <<feed, offered>>
  BY TheRun DEF Write
<1>2. x.todo # <<>> /\ raw[i] # Absent /\ (x.row # Absent => processed[i] # Absent)
  BY <1>1 DEF Placed
<1>3. /\ i \in Items /\ Tail(x.todo) \in Seq(Items)
      /\ Range(x.todo) = {i} \union Range(Tail(x.todo))
  BY <1>1, <1>2, RangeOfTail
<1>4. CASE x.row = Absent /\ processed[i] # Absent
  <2>1. Become(r, Raised(r, run[r])) /\ UNCHANGED <<raw, processed>> /\ run[r].pc # "over"
    BY <1>1, <1>4 DEF Write
  <2> QED
    BY <1>1, <2>1, StepRaised
<1>5. CASE ~(x.row = Absent /\ processed[i] # Absent)
  <2>1. PICK vector \in {Bare, Embedded} :
          processed' = [processed EXCEPT ![i] =
                          Stored(IF x.row = Absent THEN vector ELSE @, vector)]
    BY <1>5 DEF Write
  <2>2. raw' = [raw EXCEPT ![i] = "processed"] /\ Become(r, y)
    BY <1>5 DEF Write
  <2>3. PICK e \in {Bare, Embedded} : processed' = [processed EXCEPT ![i] = e]
    BY <2>1 DEF Stored
  <2>4. TablesOK'
    BY <1>1, <1>3, <2>2, <2>3 DEF Inv, TablesOK, Embeddings, Absent, Bare, Embedded
  <2>5. /\ \A j \in Items : raw[j] # Absent => raw'[j] # Absent
        /\ \A j \in Items : processed[j] # Absent => processed'[j] # Absent
        /\ \A j \in Items : j # i => raw'[j] = raw[j]
    BY <1>3, <2>2, <2>3 DEF Inv, TablesOK, Absent, Bare, Embedded
  <2>6. \A o \in Runs \ {r} : run[o].pc \in Collecting =>
          \A j \in Range(run[o].added) : raw'[j] = Absent
    <3> SUFFICES ASSUME NEW o \in Runs \ {r}, run[o].pc \in Collecting,
                        NEW j \in Range(run[o].added)
                 PROVE  raw'[j] = Absent
      OBVIOUS
    <3>1. j \in Items /\ raw[j] = Absent
      BY TheRun, RangeOf DEF Placed
    <3> QED
      BY <1>2, <2>5, <3>1
  <2>7. Known \subseteq Known'
    BY <2>5 DEF Known
  <2> HIDE DEF x, i
  <2>8. /\ Append(x.added, i) \in Seq(Items)
        /\ Range(Append(x.added, i)) = Range(x.added) \union {i}
    BY <1>1, <1>3, RangeOfAppend
  <2>9. y \in Record
    <3>1. [x EXCEPT !.pc = "process"] \in Record
      BY <1>1, FieldsOK DEF Tool
    <3>2. [x EXCEPT !.pc = "process", !.row = Absent] \in Record
      BY <3>1, FieldsOK DEF Embeddings
    <3>3. [x EXCEPT !.pc = "process", !.row = Absent, !.todo = Tail(x.todo)] \in Record
      BY <1>3, <3>2, FieldsOK
    <3> QED
      BY <2>8, <3>3, FieldsOK
  <2>10. /\ y.pc = "process" /\ y.mode = x.mode /\ y.lossy = x.lossy /\ y.try = x.try
         /\ y.todo = Tail(x.todo) /\ y.listing = x.listing
         /\ y.added = Append(x.added, i) /\ y.rawIds = x.rawIds
    BY <1>1 DEF Record
  <2> HIDE DEF y
  <2>11. Placed(y, raw', processed') /\ \A o \in Runs \ {r} : Apart(y, run[o])
    BY <2>10 DEF Placed, Apart, Collecting
  <2>12. Whole(y, Known, offered)
    BY <1>1, <1>3, <2>8, <2>10 DEF Whole, Collecting
  <2>13. Whole(y, Known', offered')
    BY <1>1, <2>7, <2>12, WholeGrows
  <2> QED
    BY <1>1, <2>2, <2>4, <2>5, <2>6, <2>9, <2>11, <2>13, StepOfOne DEF Become
<1> QED
  BY <1>4, <1>5

LEMMA EndProcessKeeps ==
  ASSUME Inv, NEW r \in Runs, EndProcess(r)
  PROVE  Inv'
<1> DEFINE x == run[r]
           merged == [x EXCEPT !.doneIds = x.added]
           y == Returned(r, x, merged)
<1>1. /\ x \in Record /\ Whole(x, Known, offered)
      /\ x.pc = "process" /\ x.todo = <<>> /\ x.added \in Seq(Items)
      /\ Become(r, y) /\ UNCHANGED <<feed, rows>>
  BY TheRun DEF EndProcess
<1> HIDE DEF x
<1>2. /\ merged \in Record /\ merged.mode = x.mode /\ merged.lossy = x.lossy
      /\ merged.listing = x.listing /\ merged.doneIds = x.added
  <2>1. merged \in Record
    BY <1>1, FieldsOK
  <2> QED
    BY <1>1, <2>1 DEF Record
<1> HIDE DEF merged
<1>3. Settled(y) /\ Whole(y, Known, offered)
  BY <1>1, <1>2, ReturnedIs, ReturnedFromProcess
<1> HIDE DEF y
<1> QED
  BY <1>1, <1>3, StepBetweenTools

LEMMA DistributeKeeps ==
  ASSUME Inv, NEW r \in Runs, Distribute(r)
  PROVE  Inv'
<1> DEFINE x == run[r]
           y == Returned(r, x, x)
<1>1. /\ x \in Record /\ Whole(x, Known, offered) /\ x.pc = "distribute"
      /\ offered' = offered \union Range(x.todo)
      /\ Become(r, y) /\ UNCHANGED <<feed, raw, processed>>
  BY TheRun DEF Distribute
<1>2. TablesOK' /\ Known' = Known
  BY <1>1 DEF Inv, TablesOK, Known
<1>3. \A o \in Runs \ {r} : run[o].pc \in Collecting =>
        \A i \in Range(run[o].added) : raw'[i] = Absent
  BY <1>1 DEF Inv, RunsOK, Placed
<1> HIDE DEF x
<1>4. Settled(y)
  BY <1>1, ReturnedIs
<1>5. Range(x.todo) \subseteq offered' /\ offered \subseteq offered'
  BY <1>1
<1>6. Whole(y, Known, offered')
  BY <1>1, <1>5, ReturnedFromDistribute
<1> HIDE DEF y
<1>7. y \in Record /\ Placed(y, raw', processed') /\ \A o \in Runs \ {r} : Apart(y, run[o])
  BY <1>4, SettledFits
<1> QED
  BY <1>1, <1>2, <1>3, <1>5, <1>6, <1>7, StepOfOne DEF Become

LEMMA DistributeFailsKeeps ==
  ASSUME Inv, NEW r \in Runs, DistributeFails(r)
  PROVE  Inv'
<1> DEFINE x == run[r]
           y == Raised(r, x)
<1>1. /\ x \in Record /\ x.pc = "distribute" /\ offered \subseteq offered'
      /\ Become(r, y) /\ UNCHANGED <<feed, raw, processed>>
  BY TheRun DEF DistributeFails
<1>2. TablesOK' /\ Known' = Known
  BY <1>1 DEF Inv, TablesOK, Known
<1>3. \A o \in Runs \ {r} : run[o].pc \in Collecting =>
        \A i \in Range(run[o].added) : raw'[i] = Absent
  BY <1>1 DEF Inv, RunsOK, Placed
<1> HIDE DEF x
<1>4. Settled(y) /\ y.mode = "strict" /\ y.lossy
  BY <1>1, RaisedIs
<1> HIDE DEF y
<1>5. y \in Record /\ Placed(y, raw', processed') /\ \A o \in Runs \ {r} : Apart(y, run[o])
  BY <1>4, SettledFits
<1>6. Whole(y, Known', offered')
  BY <1>4, LossyIsWhole
<1> QED
  BY <1>1, <1>2, <1>3, <1>5, <1>6, StepOfOne DEF Become

LEMMA CalmDownKeeps ==
  ASSUME Inv, CalmDown
  PROVE  Inv'
<1>1. feed' \in [Sources -> Seq(Items)] /\ UNCHANGED <<rows, run>>
  BY ContentsAssumption DEF CalmDown
<1>2. Known' = Known
  BY <1>1 DEF Known
<1> QED
  BY <1>1, <1>2 DEF Inv, TablesOK, RunsOK

-----------------------------------------------------------------------------
(* The theorems. *)

LEMMA InvInit == Init => Inv
<1> SUFFICES ASSUME Init PROVE Inv
  OBVIOUS
<1> DEFINE none == Over("none", FALSE, <<>>)
<1>1. none \in Record /\ Settled(none) /\ none.mode = "strict" /\ none.pc = "over"
      /\ none.result = "none"
  <2>1. <<>> \in Seq(Items)
    OBVIOUS
  <2>2. Settled(none)
    BY <2>1, OverSettles
  <2> QED
    BY <2>2 DEF Settled, Over
<1>2. run = [r \in Runs |-> none]
  BY DEF Init
<1>3. TablesOK
  <2>1. <<>> \in Seq(Items)
    OBVIOUS
  <2> QED
    BY <2>1 DEF Init, TablesOK, Embeddings, Absent
<1> HIDE DEF none
<1>4. Placed(none, raw, processed) /\ Apart(none, none)
  BY <1>1, SettledFits
<1>5. Whole(none, Known, offered)
  BY <1>1 DEF Whole, Collecting
<1> QED
  BY <1>1, <1>2, <1>3, <1>4, <1>5 DEF Inv, RunsOK

LEMMA InvNext == Inv /\ [Next]_vars => Inv'
<1> SUFFICES ASSUME Inv, [Next]_vars PROVE Inv'
  OBVIOUS
<1>1. CASE UNCHANGED vars
  <2>1. Known' = Known
    BY <1>1 DEF Known
  <2> QED
    BY <1>1, <2>1 DEF Inv, TablesOK, RunsOK
<1>2. CASE CalmDown
  BY <1>2, CalmDownKeeps
<1>3. ASSUME NEW r \in Runs,
             \/ Start(r) \/ StartBatch(r) \/ Work(r) \/ Fault(r)
             \/ NoCollector(r) \/ DistributeFails(r)
      PROVE  Inv'
  BY <1>3, StartKeeps, StartBatchKeeps, FaultKeeps, NoCollectorKeeps, DistributeFailsKeeps,
     FetchKeeps, CheckKeeps, InsertKeeps, WaitKeeps, DeadlockKeeps, CommitCollectKeeps,
     NoInputKeeps, ReadKeeps, WriteKeeps, EndProcessKeeps, DistributeKeeps
     DEF Work
<1> QED
  BY <1>1, <1>2, <1>3 DEF Next

LEMMA InvHolds == Spec => []Inv
<1>1. Spec => Init /\ [][Next]_vars
  BY PTL DEF Spec
<1> QED
  BY <1>1, InvInit, InvNext, PTL

\* A strict run that ends in success and has absorbed no exception has offered
\* every item that its source listed (StrictExecutor.run, executes/collect.py,
\* process.py and distribute.py), for any number of runs and whatever they do
\* to the same rows meanwhile.
THEOREM SuccessWhole == Spec => []SuccessIsWhole
<1>1. Inv => SuccessIsWhole
  <2> SUFFICES ASSUME Inv, NEW r \in Runs, run[r].pc = "over",
                      run[r].result = "success", ~run[r].lossy
               PROVE  Range(run[r].listing) \subseteq offered
    BY DEF SuccessIsWhole
  <2>1. Whole(run[r], Known, offered) /\ run[r].mode \in {"strict", "batch"}
    BY TheRun
  <2> QED
    BY <2>1 DEF Whole
<1> QED
  BY <1>1, InvHolds, PTL

\* The rows of the other items stay as they are when a run writes one.
LEMMA OneWrite ==
  ASSUME Inv, NEW r \in Runs, Write(r)
  PROVE  \A i \in Items : /\ processed[i] = Embedded => processed'[i] = Embedded
                          /\ raw[i] # Absent => raw'[i] # Absent
<1> DEFINE x == run[r]
           j == Head(x.todo)
<1>1. CASE x.row = Absent /\ processed[j] # Absent
  BY <1>1 DEF Write
<1>2. CASE ~(x.row = Absent /\ processed[j] # Absent)
  <2>1. PICK vector \in {Bare, Embedded} :
          processed' = [processed EXCEPT ![j] =
                          Stored(IF x.row = Absent THEN vector ELSE @, vector)]
    BY <1>2 DEF Write
  <2>2. raw' = [raw EXCEPT ![j] = "processed"]
    BY <1>2 DEF Write
  <2>3. processed \in [Items -> Embeddings] /\ raw \in [Items -> {Absent, "pending", "processed"}]
    BY DEF Inv, TablesOK
  <2> HIDE DEF x, j
  <2> QED
    BY <1>2, <2>1, <2>2, <2>3 DEF Stored, Absent, Bare, Embedded
<1> QED
  BY <1>1, <1>2

LEMMA RowsStay ==
  ASSUME Inv, [Next]_vars
  PROVE  \A i \in Items : /\ processed[i] = Embedded => processed'[i] = Embedded
                          /\ raw[i] # Absent => raw'[i] # Absent
<1>1. CASE UNCHANGED <<raw, processed>>
  BY <1>1
<1>2. ASSUME NEW r \in Runs, CommitCollect(r)
      PROVE  \A i \in Items : /\ processed[i] = Embedded => processed'[i] = Embedded
                              /\ raw[i] # Absent => raw'[i] # Absent
  BY <1>2 DEF CommitCollect, Absent
<1>3. \/ UNCHANGED <<raw, processed>>
      \/ \E r \in Runs : CommitCollect(r) \/ Write(r)
  BY DEF Next, Work, CalmDown, Start, StartBatch, Fault, NoCollector, DistributeFails, Fetch,
     Check, Insert, Wait, Deadlock, NoInput, Read, EndProcess, Distribute
<1> QED
  BY <1>1, <1>2, <1>3, OneWrite

\* No run loses a row or an embedding that another one has written, and a raw
\* row is marked processed exactly when its processed row is there
\* (executes/process.py, the repositories' update of missing embeddings).
THEOREM EmbeddingsKept == Spec => EmbeddingKept
<1>1. Inv /\ Inv' /\ [Next]_vars =>
        [\A i \in Items :
           /\ processed[i] = Embedded => processed'[i] = Embedded
           /\ raw[i] # Absent => raw'[i] # Absent
           /\ raw'[i] = "processed" <=> processed'[i] # Absent]_vars
  BY RowsStay DEF Inv, TablesOK
<1>2. Spec => Init /\ [][Next]_vars
  BY PTL DEF Spec
<1> QED
  BY <1>1, <1>2, InvHolds, PTL DEF EmbeddingKept
=============================================================================
