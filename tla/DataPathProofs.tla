---------------------------- MODULE DataPathProofs ----------------------------
(* The safety of DataPath for every file, any number of workers and faults,  *)
(* and every value of the limits.                                            *)
EXTENDS DataPath, RelationFeaturesProofs

-----------------------------------------------------------------------------
(* The invariant.                                                          *)

\* What the first n rows of a file become; a list of records in which no return is
\* twice; the whole normalized file, however its rows repeat each other.
RecordsTo(f, n) == {NormalizedRow(f, k) : k \in 1..n}
Distinct(records) ==
  \A i, j \in DOMAIN records : records[i].returnId = records[j].returnId => i = j
Whole(f, records) ==
  /\ records \in Seq(NormalizedReturnRecord) /\ Distinct(records)
  /\ Range(records) = RecordsTo(f, Len(f.rows))

FileOK == (\E c \in Cases : file = c.file) /\ budget \in Nat

\* The request: the object and the rows it leaves behind, and why they may differ.
UploadOK ==
  /\ upload \in {"validating", "rejected", "putting", "committing", "compensating",
                 "created", "failed"}
  /\ object \in BOOLEAN /\ row \in BOOLEAN /\ started \in BOOLEAN /\ happened \subseteq Faults
  /\ upload \notin {"validating", "rejected"} => Accepted(file)
  /\ upload \in {"validating", "rejected", "putting"} => ~object /\ ~row
  /\ upload \in {"committing", "compensating", "created"} => object
  /\ row => upload \in {"compensating", "created", "failed"}
  /\ upload = "created" => row
  /\ upload = "compensating" => "commit" \in happened
  /\ row /\ ~object => "commit" \in happened
  /\ upload = "failed" /\ object /\ ~row => happened \cap {"put", "delete", "crash"} # {}
  /\ started => row

\* A worker's temporary file holds what the rows it has read become.
WorkerRow(f) ==
  [at : {"idle", "reading", "writing", "announcing", "failing"},
   columns : {<<>>, columns(f.header)}, line : 1..(Len(f.rows) + 1),
   temp : Seq(NormalizedReturnRecord)]
Progress(f, s) ==
  /\ s.at \in {"writing", "announcing"} => s.columns = columns(f.header)
  /\ Range(s.temp) = RecordsTo(f, s.line - 1) /\ Distinct(s.temp)
  /\ s.at = "announcing" => s.line = Len(f.rows) + 1

WorkersOK ==
  /\ worker \in [Workers -> WorkerRow(file)]
  /\ \A w \in Workers : /\ Progress(file, worker[w])
                        /\ worker[w].at # "idle" => started
                        /\ worker[w].at = "announcing" => final # None

\* What is on the volume and in the snapshot is a whole file, and any two whole files
\* have as many records: so every event under way announces what is on the volume.
Announced == IF final = None THEN {} ELSE {Len(final)}
FilesOK ==
  /\ final # None => started /\ Whole(file, final)
  /\ snapshot # None => started /\ Whole(file, snapshot)
  /\ events \in Seq(Announced)
  /\ scored \in BOOLEAN

\* Why a worker may give up: what the failures it reports are excused by.
Excused == IdsMeet \/ happened \cap {"commit", "store", "disk"} # {}
FailingOK == \A w \in Workers : worker[w].at = "failing" => Excused

FailuresOK == failed \subseteq {"NORMALIZATION", "RELATIONS", "SCORING"} /\ AcceptedIsScored

\* There is nothing to deliver before the start.
PendingOK == pending \in Nat /\ (~started => pending = 0)

IInv ==
  FileOK /\ UploadOK /\ WorkersOK /\ FilesOK /\ FailingOK /\ FailuresOK /\ PendingOK

-----------------------------------------------------------------------------
(* The rows of an accepted file.                                           *)

CellOf(f, k, field) == Cell(f.rows[k], columns(f.header), field)
Ids == {"order_id", "customer_id", "return_id", "support_agent_id"}

\* The identifiers of an accepted row are there and its numbers are numbers.
LEMMA AcceptedCells ==
  ASSUME NEW f, Represented(f), Accepted(f), NEW k \in DOMAIN f.rows
  PROVE  /\ Readable(f, k)
         /\ \A field \in Ids : CellOf(f, k, field) \in Int /\ CellOf(f, k, field) # Blank
         /\ CellOf(f, k, "product_category") \in Int \cup {Blank}
         /\ CellOf(f, k, "return_reason") \in Int \cup {Blank}
         /\ CellOf(f, k, "order_amount") \in Nat /\ CellOf(f, k, "order_amount") > 0
         /\ CellOf(f, k, "order_amount") \notin {Blank, Junk}
         /\ CellOf(f, k, "refund_amount") \in Nat
         /\ CellOf(f, k, "refund_amount") \notin {Blank, Junk}
         /\ CellOf(f, k, "decision_time_minutes") # Junk
         /\ CellOf(f, k, "decision_time_minutes") # Blank
              => CellOf(f, k, "decision_time_minutes") \in Nat
         /\ validDecision(CellOf(f, k, "decision"))
         /\ CellOf(f, k, "timestamp") \in timestampLayouts
         /\ ~Conflicts(f, columns(f.header), k)
<1> DEFINE cell(field) == CellOf(f, k, field)
<1>1. /\ validateHeaders(f.header) /\ RowValid(f, columns(f.header), k)
  BY DEF Accepted
<1>2. /\ Readable(f, k)
      /\ \A field \in requiredSemanticColumns : cell(field) # Blank
      /\ ~Conflicts(f, columns(f.header), k)
      /\ \A field \in {"order_amount", "refund_amount", "decision_time_minutes"} :
           ValidNumber(cell(field), field)
      /\ validDecision(cell("decision"))
      /\ cell("timestamp") \in timestampLayouts
  BY <1>1 DEF RowValid, CellOf
<1>3. /\ \A field \in {"order_id", "customer_id", "return_id", "support_agent_id",
                       "product_category", "return_reason"} : cell(field) \in Int \cup {Blank}
      /\ \A field \in {"order_amount", "refund_amount", "decision_time_minutes"} :
           cell(field) \in Int \cup {Blank, Junk}
  BY <1>1, <1>2 DEF Represented, CellOf
<1>4. \A field \in Ids : cell(field) \in Int /\ cell(field) # Blank
  BY <1>2, <1>3 DEF Ids, requiredSemanticColumns
<1>5. cell("product_category") \in Int \cup {Blank} /\ cell("return_reason") \in Int \cup {Blank}
  BY <1>3
<1>6. cell("order_amount") # Blank /\ cell("refund_amount") # Blank
  BY <1>2 DEF requiredSemanticColumns
<1>7. cell("order_amount") \in Nat /\ cell("order_amount") > 0
      /\ cell("order_amount") \notin {Blank, Junk}
  <2>1. ValidNumber(cell("order_amount"), "order_amount")
        /\ cell("order_amount") \in Int \cup {Blank, Junk}
    BY <1>2, <1>3
  <2>2. QED
    BY <1>6, <2>1 DEF ValidNumber, IsNumber
<1>8. cell("refund_amount") \in Nat /\ cell("refund_amount") \notin {Blank, Junk}
  <2>1. ValidNumber(cell("refund_amount"), "refund_amount")
        /\ cell("refund_amount") \in Int \cup {Blank, Junk}
    BY <1>2, <1>3
  <2>2. QED
    BY <1>6, <2>1 DEF ValidNumber, IsNumber
<1>9. /\ cell("decision_time_minutes") # Blank =>
           cell("decision_time_minutes") \in Nat /\ cell("decision_time_minutes") # Junk
  <2>1. ValidNumber(cell("decision_time_minutes"), "decision_time_minutes")
        /\ cell("decision_time_minutes") \in Int \cup {Blank, Junk}
    BY <1>2, <1>3
  <2>2. QED
    BY <2>1 DEF ValidNumber, IsNumber
<1>10. QED
  BY <1>2, <1>4, <1>5, <1>7, <1>8, <1>9, RowsAssumption

\* What an accepted row becomes; a rewritten amount under half a cent is nought.
LEMMA AcceptedRow ==
  ASSUME NEW f, Represented(f), Accepted(f), NEW k \in DOMAIN f.rows
  PROVE  /\ Normalizable(f, columns(f.header), k)
         /\ NormalizedRow(f, k) \in NormalizedReturnRecord
         /\ NormalizedRow(f, k).returnId = Rewritten(CellOf(f, k, "return_id"))
         /\ NormalizedRow(f, k).orderAmount = 0 => CellOf(f, k, "order_amount") < 5
<1> DEFINE cell(field) == CellOf(f, k, field)
           r == NormalizedRow(f, k)
<1> USE AcceptedCells
<1>1. Normalizable(f, columns(f.header), k)
  BY DEF Normalizable, IsNumber, CellOf
<1>2. /\ r.orderId = Rewritten(cell("order_id"))
      /\ r.customerId = Rewritten(cell("customer_id"))
      /\ r.returnId = Rewritten(cell("return_id"))
      /\ r.agentId = cell("support_agent_id")
      /\ r.orderAmount = Cents(cell("order_amount"))
      /\ r.refundAmount = Cents(cell("refund_amount"))
      /\ r.category = Rewritten(cell("product_category"))
      /\ r.reason = cell("return_reason")
      /\ r.evidence \in BOOLEAN /\ r.override \in BOOLEAN
      /\ r.status = normalizeDecision(cell("decision"))
      /\ r.minutes = Minutes(cell("decision_time_minutes"))
      /\ r.timestamp = normalizeTimestamp(cell("timestamp"))
  BY DEF NormalizedRow, normalizeCSVRow, CellOf, normalizeBoolean
<1>3. /\ r.orderId \in Int /\ r.customerId \in Int /\ r.returnId \in Int /\ r.agentId \in Int
      /\ r.category \in Int \cup {Blank} /\ r.reason \in Int \cup {Blank}
  BY <1>2 DEF Ids, Rewritten
<1>4. r.orderAmount \in Nat /\ r.refundAmount \in Nat /\ r.minutes \in Nat
      /\ (r.orderAmount = 0 => cell("order_amount") < 5)
  <2>1. ASSUME NEW n \in Nat PROVE Cents(n) \in Nat /\ (Cents(n) = 0 => n < 5)
    BY DEF Cents
  <2>2. Minutes(cell("decision_time_minutes")) \in Nat
    BY DEF Minutes
  <2>3. QED
    BY <1>2, <2>1, <2>2
<1>5. r.status \in {"APPROVED", "DECLINED"}
  BY <1>2 DEF validDecision, normalizeDecision
<1>6. r.timestamp \in {"RFC3339", "2006-01-02"}
  BY <1>2 DEF timestampLayouts, normalizeTimestamp
<1>7. r = [orderId |-> r.orderId, customerId |-> r.customerId, returnId |-> r.returnId,
           agentId |-> r.agentId, orderAmount |-> r.orderAmount,
           refundAmount |-> r.refundAmount, category |-> r.category, reason |-> r.reason,
           evidence |-> r.evidence, status |-> r.status, override |-> r.override,
           minutes |-> r.minutes, timestamp |-> r.timestamp]
  BY DEF NormalizedRow, normalizeCSVRow
<1>8. r \in NormalizedReturnRecord
  <2> HIDE DEF r
  <2>1. QED
    BY <1>2, <1>3, <1>4, <1>5, <1>6, <1>7 DEF NormalizedReturnRecord
<1>9. QED
  BY <1>1, <1>2, <1>4, <1>8

\* Accepted rows with the same return id are the same: each repeats the first of them.
LEMMA SameReturnSameRow ==
  ASSUME NEW f, Represented(f), Accepted(f), NEW j \in DOMAIN f.rows,
         NEW k \in DOMAIN f.rows, CellOf(f, j, "return_id") = CellOf(f, k, "return_id")
  PROVE  f.rows[j] = f.rows[k]
<1> DEFINE at == columns(f.header)
           all == {i \in DOMAIN f.rows : CellOf(f, i, "return_id") = CellOf(f, j, "return_id")}
<1>1. DOMAIN f.rows = 1..Len(f.rows) /\ Len(f.rows) \in Nat
  BY LenProperties DEF Represented
<1>2. all \subseteq Nat /\ all # {}
  BY <1>1
<1>3. Min(all) \in all /\ \A i \in all : Min(all) <= i
  <2> HIDE DEF all
  <2>1. QED
    BY <1>2, LeastNumber
<1>4. ASSUME NEW i \in all PROVE f.rows[i] = f.rows[Min(all)]
  <2>1. CASE i = Min(all)
    BY <2>1
  <2>2. CASE i # Min(all)
    <3> DEFINE same == SameReturn(f, at, i)
    <3>1. /\ \A n \in DOMAIN f.rows : Readable(f, n) /\ CellOf(f, n, "return_id") # Blank
          /\ ~Conflicts(f, at, i)
      BY AcceptedCells DEF Ids
    <3>2. same = {n \in all : n < i}
      BY <1>1, <3>1 DEF SameReturn, CellOf
    <3>3. Min(all) \in same /\ same \subseteq Nat
      BY <1>2, <1>3, <2>2, <3>2
    <3>4. Min(same) \in same /\ \A n \in same : Min(same) <= n
      <4> HIDE DEF same
      <4>1. QED
        BY <3>3, LeastNumber
    <3>5. Min(same) = Min(all)
      <4>1. Min(same) \in all /\ Min(same) <= Min(all) /\ Min(all) <= Min(same)
        BY <1>3, <3>2, <3>3, <3>4
      <4>2. QED
        BY <1>2, <1>3, <4>1
    <3>6. QED
      BY <3>1, <3>3, <3>5 DEF Conflicts
  <2>3. QED
    BY <2>1, <2>2
<1>5. QED
  BY <1>4

\* Two accepted rows that become different records of one return met by rewriting.
LEMMA OnlyRewritingClashes ==
  ASSUME Represented(file), Accepted(file),
         NEW j \in DOMAIN file.rows, NEW k \in DOMAIN file.rows,
         NormalizedRow(file, j).returnId = NormalizedRow(file, k).returnId,
         NormalizedRow(file, j) # NormalizedRow(file, k)
  PROVE  IdsMeet
<1> DEFINE id(i) == CellOf(file, i, "return_id")
<1>1. Rewritten(id(j)) = Rewritten(id(k))
  BY AcceptedRow
<1>2. id(j) # id(k)
  BY SameReturnSameRow DEF NormalizedRow
<1>3. id(j) \in Raw("return_id") /\ id(k) \in Raw("return_id")
  BY DEF Raw, CellOf
<1>4. QED
  BY <1>1, <1>2, <1>3 DEF IdsMeet

LEMMA NextRow ==
  ASSUME NEW f
  PROVE  /\ RecordsTo(f, 0) = {}
         /\ \A n \in Nat : RecordsTo(f, n + 1) = RecordsTo(f, n) \cup {NormalizedRow(f, n + 1)}
<1>1. RecordsTo(f, 0) = {}
  BY DEF RecordsTo
<1>2. ASSUME NEW n \in Nat
      PROVE  RecordsTo(f, n + 1) = RecordsTo(f, n) \cup {NormalizedRow(f, n + 1)}
  <2>1. 1..(n + 1) = (1..n) \cup {n + 1}
    OBVIOUS
  <2>2. QED
    BY <2>1 DEF RecordsTo
<1>3. QED
  BY <1>1, <1>2

LEMMA RecordsAreTyped ==
  ASSUME NEW f, Represented(f), Accepted(f), NEW n \in 0..Len(f.rows)
  PROVE  RecordsTo(f, n) \subseteq NormalizedReturnRecord
<1>1. DOMAIN f.rows = 1..Len(f.rows) /\ Len(f.rows) \in Nat
  BY LenProperties DEF Represented
<1>2. QED
  BY <1>1, AcceptedRow DEF RecordsTo

LEMMA RecordsAreFew ==
  ASSUME NEW f, NEW n \in Nat
  PROVE  IsFiniteSet(RecordsTo(f, n)) /\ Cardinality(RecordsTo(f, n)) <= n
<1> DEFINE of == [k \in 1..n |-> NormalizedRow(f, k)]
<1>1. of \in Surjection(1..n, RecordsTo(f, n))
  BY DEF Surjection, RecordsTo
<1>2. IsFiniteSet(1..n) /\ Cardinality(1..n) = n
  BY FS_Interval
<1>3. QED
  <2> HIDE DEF of
  <2>1. QED
    BY <1>1, <1>2, FS_Surjection

\* A list without repeats is as long as the set of its records.
LEMMA LengthIsSize ==
  ASSUME NEW R, NEW s \in Seq(R), Distinct(s)
  PROVE  IsFiniteSet(Range(s)) /\ Cardinality(Range(s)) = Len(s)
<1>1. Len(s) \in Nat /\ s \in [1..Len(s) -> R] /\ DOMAIN s = 1..Len(s)
  BY LenProperties
<1>2. s \in Surjection(1..Len(s), Range(s))
  BY <1>1 DEF Surjection, Range
<1>3. s \in Injection(1..Len(s), Range(s))
  BY <1>1 DEF Injection, IsInjective, Range, Distinct
<1>4. IsFiniteSet(1..Len(s)) /\ Cardinality(1..Len(s)) = Len(s)
  BY <1>1, FS_Interval
<1>5. QED
  BY <1>2, <1>3, <1>4, FS_Surjection

\* Whole files have records, no more than the upload allows, and are as long as each
\* other; relations loads one announced with its length.
LEMMA WholeFile ==
  ASSUME NEW f, Represented(f), Accepted(f), NEW s, Whole(f, s)
  PROVE  /\ Len(s) \in 1..MaxRows /\ s # <<>>
         /\ Loads(s, Len(s))
         /\ \A t : Whole(f, t) => Len(t) = Len(s)
<1>1. s \in Seq(NormalizedReturnRecord) /\ Distinct(s) /\ Range(s) = RecordsTo(f, Len(f.rows))
  BY DEF Whole
<1>2. Len(f.rows) \in 1..MaxRows /\ DOMAIN f.rows = 1..Len(f.rows)
  BY LenProperties DEF Represented, Accepted
<1>3. IsFiniteSet(Range(s)) /\ Cardinality(Range(s)) = Len(s) /\ Len(s) \in Nat
  BY <1>1, LengthIsSize, LenProperties
<1>4. Len(s) <= Len(f.rows)
  BY <1>1, <1>2, <1>3, RecordsAreFew
<1>5. Range(s) # {}
  <2>1. NormalizedRow(f, 1) \in RecordsTo(f, Len(f.rows))
    BY <1>2 DEF RecordsTo
  <2>2. QED
    BY <1>1, <2>1
<1>6. Len(s) # 0 /\ s # <<>>
  BY <1>1, <1>3, <1>5, FS_EmptySet DEF Range
<1>7. Len(s) \in 1..MaxRows
  BY <1>2, <1>3, <1>4, <1>6, RowsAssumption
<1>8. \A t : Whole(f, t) => Len(t) = Len(s)
  BY <1>1, <1>3, LengthIsSize DEF Whole
<1>9. validateRecords(s)
  <2>1. ASSUME NEW r \in Range(s)
        PROVE  Blank \notin {r.returnId, r.customerId, r.orderId, r.agentId}
    <3>1. r \in NormalizedReturnRecord
      BY <1>1, <1>2, RecordsAreTyped
    <3>2. r.returnId \in Int /\ r.customerId \in Int /\ r.orderId \in Int /\ r.agentId \in Int
      BY <3>1 DEF NormalizedReturnRecord
    <3>3. QED
      BY <3>2, RowsAssumption
  <2>2. QED
    BY <1>1, <1>6, <2>1 DEF validateRecords, Distinct
<1>10. QED
  BY <1>6, <1>7, <1>8, <1>9 DEF Loads

-----------------------------------------------------------------------------
(* The invariant holds initially; what no step takes back.                 *)

LEMMA IdleWorker ==
  ASSUME NEW f, Represented(f)
  PROVE  Idle \in WorkerRow(f) /\ Progress(f, Idle)
<1>1. Idle \in WorkerRow(f)
  <2>1. 1 \in 1..(Len(f.rows) + 1)
    BY LenProperties DEF Represented
  <2>2. QED
    BY <2>1 DEF Idle, WorkerRow
<1>2. Progress(f, Idle)
  <2>1. Range(Idle.temp) = {} /\ RecordsTo(f, Idle.line - 1) = {}
    BY DEF Idle, Range, RecordsTo
  <2>2. Idle.temp = <<>> /\ Idle.at = "idle"
    BY DEF Idle
  <2>3. DOMAIN <<>> = {}
    BY EmptySeq, LenProperties
  <2>4. Distinct(Idle.temp)
    BY <2>2, <2>3 DEF Distinct
  <2>5. QED
    BY <2>1, <2>2, <2>4 DEF Progress
<1>3. QED
  BY <1>1, <1>2

LEMMA Initially == Init => IInv
<1> SUFFICES ASSUME Init PROVE IInv
  OBVIOUS
<1>1. FileOK
  BY DataPathAssumption DEF Init, FileOK
<1>2. UploadOK
  BY DEF Init, UploadOK
<1>3. WorkersOK
  <2>1. Represented(file)
    BY DataPathAssumption DEF Init
  <2>2. QED
    BY <2>1, IdleWorker DEF Init, WorkersOK, Idle
<1>4. FilesOK
  BY EmptySeq DEF Init, FilesOK
<1>5. FailuresOK
  BY DEF Init, FailuresOK, AcceptedIsScored
<1>6. FailingOK /\ PendingOK
  BY DEF Init, Idle, FailingOK, PendingOK
<1>7. QED
  BY <1>1, <1>2, <1>3, <1>4, <1>5, <1>6 DEF IInv

LEMMA StartedIsAccepted ==
  ASSUME IInv
  PROVE  Represented(file) /\ (started => row /\ Accepted(file))
<1>1. Represented(file)
  BY DataPathAssumption DEF IInv, FileOK
<1>2. started => row /\ Accepted(file)
  BY DEF IInv, UploadOK
<1>3. QED
  BY <1>1, <1>2

\* A step meets at most a fault; what has happened stays.
Later == /\ budget' \in Nat
         /\ happened \subseteq happened' /\ happened' \subseteq Faults
LEMMA FaultIsLater ==
  ASSUME IInv
  PROVE  /\ NoFault => Later
         /\ UNCHANGED <<budget, happened>> => Later
         /\ \A kind \in Faults : Fault(kind) => Later /\ kind \in happened'
<1>1. budget \in Nat /\ happened \subseteq Faults
  BY DEF IInv, FileOK, UploadOK
<1>2. QED
  BY <1>1 DEF Later, NoFault, Fault

LEMMA NothingTakenBack ==
  ASSUME IInv, [Next]_vars
  PROVE  file' = file /\ (started => started') /\ Later
<1> USE FaultIsLater
<1>1. {"put", "commit", "delete", "crash", "redeliver", "store", "disk", "publish", "volume",
       "inputs", "database"} \subseteq Faults
  BY DEF Faults
<1>2. CASE Validate \/ PutObject \/ CommitRows \/ Compensate \/ CrashUpload
  <2>1. CASE Validate
    BY <2>1 DEF Validate
  <2>2. CASE PutObject
    BY <1>1, <2>2 DEF PutObject
  <2>3. CASE CommitRows
    BY <1>1, <2>3 DEF CommitRows
  <2>4. CASE Compensate
    BY <1>1, <2>4 DEF Compensate
  <2>5. CASE CrashUpload
    BY <1>1, <2>5 DEF CrashUpload
  <2>6. QED
    BY <1>2, <2>1, <2>2, <2>3, <2>4, <2>5
<1>3. CASE StartAnalysis \/ Redeliver
  <2>1. CASE StartAnalysis
    BY <2>1 DEF StartAnalysis
  <2>2. CASE Redeliver
    BY <1>1, <2>2 DEF Redeliver
  <2>3. QED
    BY <1>3, <2>1, <2>2
<1>4. ASSUME NEW w \in Workers,
             TakeDelivery(w) \/ WorkerStep(w) \/ WorkerFails(w) \/ WorkerDies(w)
      PROVE  file' = file /\ (started => started') /\ Later
  <2>1. CASE TakeDelivery(w)
    BY <2>1 DEF TakeDelivery
  <2>2. CASE OpenSource(w)
    BY <1>1, <2>2 DEF OpenSource
  <2>3. CASE NormalizeLine(w)
    BY <2>3 DEF NormalizeLine
  <2>4. CASE Rename(w)
    BY <2>4 DEF Rename
  <2>5. CASE Announce(w)
    BY <1>1, <2>5 DEF Announce
  <2>6. CASE ReportFailure(w)
    BY <1>1, <2>6 DEF ReportFailure
  <2>7. CASE WorkerFails(w)
    BY <1>1, <2>7 DEF WorkerFails
  <2>8. CASE WorkerDies(w)
    BY <1>1, <2>8 DEF WorkerDies
  <2>9. QED
    BY <1>4, <2>1, <2>2, <2>3, <2>4, <2>5, <2>6, <2>7, <2>8 DEF WorkerStep
<1>5. CASE LoadSnapshot
  BY <1>1, <1>5 DEF LoadSnapshot
<1>6. CASE ScoreSnapshot
  BY <1>1, <1>6 DEF ScoreSnapshot
<1>7. CASE UNCHANGED vars
  BY <1>7 DEF vars, upVars
<1>8. QED
  BY <1>2, <1>3, <1>4, <1>5, <1>6, <1>7 DEF Next

LEMMA UploadStep ==
  ASSUME IInv, [Next]_vars
  PROVE  UploadOK'
<1>1. UploadOK /\ happened \subseteq happened' /\ happened' \subseteq Faults /\ file' = file
  BY NothingTakenBack DEF IInv, Later
<1>2. CASE UNCHANGED <<upload, object, row, started>>
  BY <1>1, <1>2 DEF UploadOK
<1>3. CASE Validate
  BY <1>1, <1>3 DEF UploadOK, Validate
<1>4. CASE PutObject
  BY <1>1, <1>4 DEF UploadOK, PutObject, Fault, NoFault
<1>5. CASE CommitRows
  BY <1>1, <1>5 DEF UploadOK, CommitRows, Fault, NoFault
<1>6. CASE Compensate
  BY <1>1, <1>6 DEF UploadOK, Compensate, Fault, NoFault
<1>7. CASE CrashUpload
  BY <1>1, <1>7 DEF UploadOK, CrashUpload, Fault, NoFault
<1>8. CASE StartAnalysis
  BY <1>1, <1>8 DEF UploadOK, StartAnalysis, upVars
<1>9. CASE Redeliver \/ LoadSnapshot \/ ScoreSnapshot
  BY <1>2, <1>9 DEF Redeliver, LoadSnapshot, ScoreSnapshot, upVars
<1>10. ASSUME NEW w \in Workers,
              TakeDelivery(w) \/ WorkerStep(w) \/ WorkerFails(w) \/ WorkerDies(w)
       PROVE  UNCHANGED <<upload, object, row, started>>
  BY <1>10 DEF TakeDelivery, WorkerStep, OpenSource, NormalizeLine, Rename, Announce,
               ReportFailure, WorkerFails, WorkerDies, upVars
<1>11. CASE UNCHANGED vars
  BY <1>2, <1>11 DEF vars, upVars
<1>12. QED
  BY <1>2, <1>3, <1>4, <1>5, <1>6, <1>7, <1>8, <1>9, <1>10, <1>11 DEF Next

-----------------------------------------------------------------------------
(* The workers and the files.                                              *)

LEMMA WorkerMoves ==
  ASSUME WorkersOK, file' = file, started => started', final # None => final' # None,
         NEW w \in Workers, NEW s \in WorkerRow(file), Progress(file, s),
         worker' = [worker EXCEPT ![w] = s],
         s.at # "idle" => started', s.at = "announcing" => final' # None
  PROVE  WorkersOK'
<1>1. worker' \in [Workers -> WorkerRow(file)]
  BY DEF WorkersOK
<1>2. ASSUME NEW v \in Workers
      PROVE  /\ Progress(file, worker'[v])
             /\ worker'[v].at # "idle" => started'
             /\ worker'[v].at = "announcing" => final' # None
  <2>1. CASE v = w
    BY <2>1 DEF WorkersOK
  <2>2. CASE v # w
    BY <2>2 DEF WorkersOK
  <2>3. QED
    BY <2>1, <2>2
<1>3. QED
  BY <1>1, <1>2 DEF WorkersOK

LEMMA WorkerEnds ==
  ASSUME IInv, [Next]_vars, NEW w \in Workers, NEW ack, Ended(w, ack),
         final # None => final' # None
  PROVE  WorkersOK'
<1>1. WorkersOK /\ file' = file /\ (started => started') /\ Represented(file)
  BY NothingTakenBack, StartedIsAccepted DEF IInv
<1>2. Idle \in WorkerRow(file) /\ Progress(file, Idle) /\ Idle.at = "idle"
  BY <1>1, IdleWorker DEF Idle
<1>3. QED
  BY <1>1, <1>2, WorkerMoves DEF Ended

LEMMA WorkerGivesUp ==
  ASSUME IInv, [Next]_vars, NEW w \in Workers, worker[w].at # "idle", GivesUp(w), final' = final
  PROVE  WorkersOK'
<1> DEFINE s == [Idle EXCEPT !.at = "failing"]
<1>1. WorkersOK /\ file' = file /\ started' /\ Represented(file)
  BY NothingTakenBack, StartedIsAccepted DEF IInv, WorkersOK
<1>2. Idle \in WorkerRow(file) /\ Progress(file, Idle)
  BY <1>1, IdleWorker
<1>3. s \in WorkerRow(file) /\ Progress(file, s) /\ s.at = "failing"
  BY <1>2 DEF WorkerRow, Progress
<1>4. worker' = [worker EXCEPT ![w] = s]
  BY DEF GivesUp
<1>5. QED
  <2> HIDE DEF s
  <2>1. QED
    BY <1>1, <1>3, <1>4, WorkerMoves

LEMMA TakeDeliveryWorkers ==
  ASSUME IInv, [Next]_vars, NEW w \in Workers, TakeDelivery(w)
  PROVE  WorkersOK'
<1> DEFINE s == [worker[w] EXCEPT !.at = "reading"]
<1>1. WorkersOK /\ file' = file /\ started' = started /\ final' = final /\ PendingOK
  BY NothingTakenBack DEF IInv, TakeDelivery
<1>2. worker[w] \in WorkerRow(file) /\ Progress(file, worker[w]) /\ worker[w] = Idle
  BY <1>1 DEF WorkersOK, TakeDelivery
<1>3. s \in WorkerRow(file) /\ Progress(file, s) /\ s.at = "reading"
  BY <1>2 DEF WorkerRow, Progress
<1>4. worker' = [worker EXCEPT ![w] = s]
  BY DEF TakeDelivery
<1>5. started
  BY <1>1 DEF PendingOK, TakeDelivery
<1>6. QED
  <2> HIDE DEF s
  <2>1. QED
    BY <1>1, <1>3, <1>4, <1>5, WorkerMoves

LEMMA OpenSourceWorkers ==
  ASSUME IInv, [Next]_vars, NEW w \in Workers, OpenSource(w)
  PROVE  WorkersOK'
<1> DEFINE s == [worker[w] EXCEPT !.at = "writing", !.columns = columns(file.header)]
<1>1. WorkersOK /\ file' = file /\ started' = started /\ final' = final
  BY NothingTakenBack DEF IInv, OpenSource
<1>2. worker[w] \in WorkerRow(file) /\ Progress(file, worker[w]) /\ worker[w].at = "reading"
      /\ started
  BY <1>1 DEF WorkersOK, OpenSource
<1>3. s \in WorkerRow(file) /\ Progress(file, s) /\ s.at = "writing"
  BY <1>2 DEF WorkerRow, Progress
<1>4. CASE GivesUp(w)
  BY <1>1, <1>2, <1>4, WorkerGivesUp
<1>5. CASE worker' = [worker EXCEPT ![w] = s]
  <2> HIDE DEF s
  <2>1. QED
    BY <1>1, <1>2, <1>3, <1>5, WorkerMoves
<1>6. QED
  BY <1>4, <1>5 DEF OpenSource

\* The records there with the row's return id, and the worker when the row is read.
Same(f, s) == {r \in Range(s.temp) : r.returnId = NormalizedRow(f, s.line).returnId}
TempWith(f, s) ==
  s.temp \o (IF Same(f, s) = {} THEN <<NormalizedRow(f, s.line)>> ELSE <<>>)
Extended(f, s) ==
  [at |-> "writing", columns |-> s.columns, line |-> s.line + 1, temp |-> TempWith(f, s)]

\* A row that became a record already there is left out, any other is written: either
\* way the temporary file holds what the rows read become, each return once.
LEMMA RowIsWritten ==
  ASSUME NEW f, Represented(f), Accepted(f), NEW s \in WorkerRow(f), Progress(f, s),
         s.at = "writing", s.line <= Len(f.rows), Same(f, s) \subseteq {NormalizedRow(f, s.line)}
  PROVE  Extended(f, s) \in WorkerRow(f) /\ Progress(f, Extended(f, s))
         /\ Extended(f, s).at = "writing"
<1> DEFINE record == NormalizedRow(f, s.line)
           same == Same(f, s)
           new == Extended(f, s)
<1>1. /\ s.line \in Nat /\ s.line >= 1 /\ Len(f.rows) \in Nat
      /\ s.temp \in Seq(NormalizedReturnRecord)
      /\ s.columns = columns(f.header) /\ s.columns \in {<<>>, columns(f.header)}
      /\ Range(s.temp) = RecordsTo(f, s.line - 1) /\ Distinct(s.temp)
  BY LenProperties DEF WorkerRow, Progress, Represented
<1>0. same = {r \in Range(s.temp) : r.returnId = record.returnId} /\ same \subseteq {record}
  BY DEF Same
<1>2. record \in NormalizedReturnRecord
  BY <1>1, AcceptedRow, LenProperties DEF Represented
<1> DEFINE added == IF same = {} THEN <<record>> ELSE <<>>
           temp == s.temp \o added
<1>3. /\ temp \in Seq(NormalizedReturnRecord)
      /\ Range(temp) = Range(s.temp) \cup {record}
      /\ Distinct(temp)
  <2>1. CASE same = {}
    <3>1. temp = Append(s.temp, record)
      BY <1>1, <1>2, <2>1, AppendIsConcat
    <3>2. /\ temp \in Seq(NormalizedReturnRecord) /\ Len(temp) = Len(s.temp) + 1
          /\ \A i \in 1..Len(s.temp) : temp[i] = s.temp[i]
          /\ temp[Len(s.temp) + 1] = record
      <4> HIDE DEF temp
      <4>1. QED
        BY <1>1, <1>2, <3>1, AppendProperties
    <3>3. Len(s.temp) \in Nat /\ DOMAIN s.temp = 1..Len(s.temp)
          /\ DOMAIN temp = 1..(Len(s.temp) + 1)
      <4> HIDE DEF temp
      <4>1. QED
        BY <1>1, <3>2, LenProperties
    <3> HIDE DEF temp
    <3>4. Range(temp) = Range(s.temp) \cup {record}
      BY <3>2, <3>3 DEF Range
    <3>5. \A i \in 1..Len(s.temp) : s.temp[i].returnId # record.returnId
      BY <1>0, <2>1, <3>3 DEF Range
    <3>6. Distinct(temp)
      <4> SUFFICES ASSUME NEW i \in DOMAIN temp, NEW j \in DOMAIN temp,
                          temp[i].returnId = temp[j].returnId
                   PROVE  i = j
        BY DEF Distinct
      <4>1. \A n \in DOMAIN temp : n \in 1..Len(s.temp) \/ n = Len(s.temp) + 1
        BY <3>3
      <4>2. CASE i \in 1..Len(s.temp) /\ j \in 1..Len(s.temp)
        BY <1>1, <3>2, <3>3, <4>2 DEF Distinct
      <4>3. CASE i = Len(s.temp) + 1 \/ j = Len(s.temp) + 1
        BY <3>2, <3>5, <4>1, <4>3
      <4>4. QED
        BY <4>1, <4>2, <4>3
    <3>7. QED
      BY <3>2, <3>4, <3>6
  <2>2. CASE same # {}
    <3>1. temp = s.temp
      BY <1>1, <2>2, ConcatEmptySeq
    <3>2. record \in Range(s.temp)
      BY <1>0, <2>2
    <3>3. QED
      BY <1>1, <3>1, <3>2
  <2>3. QED
    BY <2>1, <2>2
<1>4. RecordsTo(f, s.line) = RecordsTo(f, s.line - 1) \cup {record}
  <2>1. s.line - 1 \in Nat /\ (s.line - 1) + 1 = s.line
    BY <1>1
  <2>2. QED
    BY <2>1, NextRow
<1>5. /\ new.at = "writing" /\ new.columns = columns(f.header) /\ new.line = s.line + 1
      /\ new.temp = temp
      /\ new = [at |-> new.at, columns |-> new.columns, line |-> new.line, temp |-> new.temp]
  BY <1>1 DEF Extended, TempWith
<1> HIDE DEF temp, new
<1>6. new.line \in 1..(Len(f.rows) + 1) /\ new.line - 1 = s.line
  <2>1. new.line = s.line + 1
    BY <1>5
  <2>2. QED
    BY <1>1, <2>1
<1>7. new \in WorkerRow(f)
  BY <1>3, <1>5, <1>6 DEF WorkerRow
<1>8. Progress(f, new)
  BY <1>1, <1>3, <1>4, <1>5, <1>6 DEF Progress
<1>9. QED
  BY <1>5, <1>7, <1>8 DEF new

\* What the step of a writing worker has in its hands.
LEMMA Writing ==
  ASSUME IInv, NEW w \in Workers, worker[w].at \in {"writing", "announcing"}
  PROVE  /\ started /\ Represented(file) /\ Accepted(file)
         /\ worker[w] \in WorkerRow(file) /\ Progress(file, worker[w])
         /\ worker[w].columns = columns(file.header)
         /\ worker[w].line \in Nat /\ worker[w].line >= 1
         /\ worker[w].line <= Len(file.rows) + 1 /\ Len(file.rows) \in Nat
         /\ worker[w].temp \in Seq(NormalizedReturnRecord)
         /\ DOMAIN file.rows = 1..Len(file.rows)
<1>1. worker[w] \in WorkerRow(file) /\ Progress(file, worker[w]) /\ started
  BY DEF IInv, WorkersOK
<1>2. Represented(file) /\ Accepted(file)
  BY <1>1, StartedIsAccepted
<1>3. QED
  BY <1>1, <1>2, LenProperties DEF WorkerRow, Progress, Represented

LEMMA ReadByFields ==
  ASSUME NEW f, NEW s \in WorkerRow(f), s.at = "writing", NEW rows, NEW new,
         new = [s EXCEPT !.line = @ + 1, !.temp = rows]
  PROVE  new = [at |-> "writing", columns |-> s.columns, line |-> s.line + 1, temp |-> rows]
<1>1. new.at = "writing" /\ new.columns = s.columns /\ new.line = s.line + 1 /\ new.temp = rows
  BY DEF WorkerRow
<1>2. new = [at |-> new.at, columns |-> new.columns, line |-> new.line, temp |-> new.temp]
  BY DEF WorkerRow
<1>3. QED
  BY <1>1, <1>2

LEMMA NormalizeLineWorkers ==
  ASSUME IInv, [Next]_vars, NEW w \in Workers, NormalizeLine(w)
  PROVE  WorkersOK'
<1>1. WorkersOK /\ file' = file /\ started' = started /\ worker[w].at = "writing"
      /\ worker[w].line <= Len(file.rows)
  BY NothingTakenBack DEF IInv, NormalizeLine
<1> DEFINE new == Extended(file, worker[w])
<1>2. \/ /\ Same(file, worker[w]) \subseteq {NormalizedRow(file, worker[w].line)}
         /\ worker' = [worker EXCEPT ![w] = new] /\ final' = final
      \/ GivesUp(w) /\ final' = final
  <2>1. \/ /\ Same(file, worker[w]) \subseteq {NormalizedRow(file, worker[w].line)}
           /\ Write(w, TempWith(file, worker[w]))
        \/ GivesUp(w) /\ final' = final
    BY <1>1, Writing DEF NormalizeLine, NormalizedRow, Same, TempWith
  <2>2. ASSUME Write(w, TempWith(file, worker[w]))
        PROVE  worker' = [worker EXCEPT ![w] = new] /\ final' = final
    <3>1. PICK rows : rows = TempWith(file, worker[w])
      OBVIOUS
    <3>2. worker' = [worker EXCEPT ![w].line = @ + 1, ![w].temp = rows] /\ final' = final
      BY <2>2, <3>1 DEF Write
    <3>3. new = [at |-> "writing", columns |-> worker[w].columns, line |-> worker[w].line + 1,
                 temp |-> rows]
      BY <3>1 DEF Extended
    <3> HIDE DEF new
    <3>4. worker[w] \in WorkerRow(file)
      BY <1>1, Writing
    <3>5. new = [worker[w] EXCEPT !.line = @ + 1, !.temp = rows]
      BY <1>1, <3>3, <3>4, ReadByFields
    <3>6. worker' = [worker EXCEPT ![w] = new]
      <4>1. worker \in [Workers -> WorkerRow(file)]
        BY <1>1 DEF WorkersOK
      <4>2. DOMAIN worker' = Workers /\ worker' = [v \in Workers |-> worker'[v]]
        BY <3>2, <4>1
      <4>3. worker'[w] = [worker[w] EXCEPT !.line = @ + 1, !.temp = rows]
        BY <3>2, <4>1
      <4>4. \A v \in Workers : v # w => worker'[v] = worker[v]
        BY <3>2, <4>1
      <4>5. QED
        BY <3>5, <4>1, <4>2, <4>3, <4>4
    <3>7. QED
      BY <3>2, <3>6 DEF new
  <2>3. QED
    BY <2>1, <2>2
<1>3. CASE GivesUp(w) /\ final' = final
  BY <1>1, <1>3, WorkerGivesUp
<1>4. CASE /\ Same(file, worker[w]) \subseteq {NormalizedRow(file, worker[w].line)}
           /\ worker' = [worker EXCEPT ![w] = new] /\ final' = final
  <2>1. new \in WorkerRow(file) /\ Progress(file, new) /\ new.at = "writing"
    BY <1>1, <1>4, Writing, RowIsWritten
  <2> HIDE DEF new
  <2>2. QED
    BY <1>1, <1>4, <2>1, Writing, WorkerMoves
<1>5. QED
  BY <1>2, <1>3, <1>4

\* A file that is renamed is whole.
LEMMA RenamedIsWhole ==
  ASSUME IInv, NEW w \in Workers, worker[w].at = "announcing"
                                  \/ (worker[w].at = "writing" /\ worker[w].line > Len(file.rows))
  PROVE  Whole(file, worker[w].temp)
<1>1. worker[w].line = Len(file.rows) + 1
  BY Writing DEF Progress
<1>2. worker[w].line - 1 = Len(file.rows)
  BY <1>1, Writing
<1>3. QED
  BY <1>2, Writing DEF Progress, Whole

LEMMA RenameWorkers ==
  ASSUME IInv, [Next]_vars, NEW w \in Workers, Rename(w)
  PROVE  WorkersOK' /\ final' = worker[w].temp /\ Whole(file, worker[w].temp)
<1> DEFINE new == [worker[w] EXCEPT !.at = "announcing"]
<1>1. WorkersOK /\ file' = file /\ started' = started /\ worker[w].at = "writing"
      /\ worker[w].line > Len(file.rows)
  BY NothingTakenBack DEF IInv, Rename
<1>2. Whole(file, worker[w].temp)
  BY <1>1, RenamedIsWhole
<1>3. worker[w].temp # <<>> /\ worker[w].temp \in Seq(NormalizedReturnRecord)
  BY <1>1, <1>2, Writing, WholeFile
<1>4. final' = worker[w].temp /\ worker' = [worker EXCEPT ![w] = new]
  BY <1>3 DEF Rename
<1>5. final' # None
  BY <1>3, <1>4, DataPathAssumption
<1>6. new \in WorkerRow(file) /\ Progress(file, new) /\ new.at = "announcing"
  <2>1. worker[w].line = Len(file.rows) + 1
    BY <1>1, Writing
  <2>2. QED
    BY <1>1, <2>1, Writing DEF WorkerRow, Progress
<1>7. WorkersOK'
  <2> HIDE DEF new
  <2>1. QED
    BY <1>1, <1>4, <1>5, <1>6, Writing, WorkerMoves
<1>8. QED
  BY <1>2, <1>4, <1>7

LEMMA WorkersStep ==
  ASSUME IInv, [Next]_vars
  PROVE  WorkersOK'
<1>1. ASSUME NEW w \in Workers,
             TakeDelivery(w) \/ WorkerStep(w) \/ WorkerFails(w) \/ WorkerDies(w)
      PROVE  WorkersOK'
  <2>1. CASE Announce(w) \/ ReportFailure(w) \/ WorkerDies(w)
    <3>1. PICK ack : Ended(w, ack) /\ final' = final
      BY <2>1 DEF Announce, ReportFailure, WorkerDies
    <3>2. QED
      BY <3>1, WorkerEnds
  <2>2. CASE WorkerFails(w)
    <3>1. worker[w].at # "idle" /\ GivesUp(w) /\ final' = final
      BY <2>2 DEF WorkerFails
    <3>2. QED
      BY <3>1, WorkerGivesUp
  <2>3. QED
    BY <1>1, <2>1, <2>2, TakeDeliveryWorkers, OpenSourceWorkers, NormalizeLineWorkers,
       RenameWorkers DEF WorkerStep
<1>2. CASE UNCHANGED <<worker, final>>
  BY <1>2, NothingTakenBack DEF IInv, WorkersOK
<1>3. CASE Validate \/ PutObject \/ CommitRows \/ Compensate \/ CrashUpload
           \/ StartAnalysis \/ Redeliver \/ LoadSnapshot \/ ScoreSnapshot \/ UNCHANGED vars
  BY <1>2, <1>3 DEF Validate, PutObject, CommitRows, Compensate, CrashUpload, StartAnalysis,
                    Redeliver, LoadSnapshot, ScoreSnapshot, vars
<1>4. QED
  BY <1>1, <1>3 DEF Next

\* The head of the events is the length of the file on the volume, and it loads.
LEMMA NextEvent ==
  ASSUME IInv, events # <<>>
  PROVE  final # None /\ Head(events) = Len(final) /\ Loads(final, Head(events))
         /\ Tail(events) \in Seq(Announced)
         /\ Append(Tail(events), Head(events)) \in Seq(Announced)
<1>1. events \in Seq(Announced)
  BY DEF IInv, FilesOK
<1>2. Head(events) \in Announced /\ Tail(events) \in Seq(Announced)
  BY <1>1, HeadTailProperties
<1>3. final # None /\ Head(events) = Len(final)
  BY <1>2 DEF Announced
<1>4. Loads(final, Len(final))
  BY <1>3, StartedIsAccepted, WholeFile DEF IInv, FilesOK
<1>5. Append(Tail(events), Head(events)) \in Seq(Announced)
  BY <1>2, AppendProperties
<1>6. QED
  BY <1>2, <1>3, <1>4, <1>5

\* A load that fails found the volume unreadable; any other reads what is there.
LEMMA LoadOutcomes ==
  ASSUME IInv, LoadSnapshot
  PROVE  /\ UNCHANGED <<final, scored>> /\ final # None /\ events' \in Seq(Announced)
         /\ \/ snapshot' = final /\ failed' = failed
            \/ /\ snapshot' = snapshot /\ failed' = failed \cup {"RELATIONS"}
               /\ "volume" \in happened'
<1>1. events # <<>> /\ UNCHANGED <<final, scored>>
  BY DEF LoadSnapshot
<1>2. final # None /\ Loads(final, Head(events)) /\ Tail(events) \in Seq(Announced)
      /\ Append(Tail(events), Head(events)) \in Seq(Announced)
  BY <1>1, NextEvent
<1>3. \/ snapshot' = final /\ events' = Tail(events) /\ failed' = failed
      \/ Fault("volume") /\ Unloaded
  BY <1>2 DEF LoadSnapshot
<1>4. QED
  BY <1>1, <1>2, <1>3 DEF Unloaded, Fault

LEMMA FilesKept ==
  ASSUME IInv, [Next]_vars, UNCHANGED <<final, events, snapshot>>, scored' \in BOOLEAN
  PROVE  FilesOK'
<1>1. FilesOK /\ file' = file /\ (started => started')
  BY NothingTakenBack DEF IInv
<1>2. Announced' = Announced
  BY DEF Announced
<1>3. QED
  BY <1>1, <1>2 DEF FilesOK

LEMMA FilesStep ==
  ASSUME IInv, [Next]_vars
  PROVE  FilesOK'
<1>1. FilesOK /\ file' = file /\ (started => started')
  BY NothingTakenBack DEF IInv
<1>2. ASSUME NEW w \in Workers, Rename(w) PROVE FilesOK'
  <2>1. final' = worker[w].temp /\ Whole(file, final') /\ started /\ Represented(file)
        /\ Accepted(file)
    BY <1>2, RenameWorkers, Writing DEF Rename
  <2>2. final' # None
    BY <2>1, DataPathAssumption DEF Whole
  <2>3. Announced \subseteq Announced'
    BY <1>1, <2>1, <2>2, WholeFile DEF Announced, FilesOK
  <2>4. events' \in Seq(Announced')
    BY <1>1, <1>2, <2>3, SeqMonotonic DEF FilesOK, Rename
  <2>5. snapshot' = snapshot /\ scored' = scored
    BY <1>2 DEF Rename
  <2>6. QED
    BY <1>1, <2>1, <2>4, <2>5 DEF FilesOK
<1>3. ASSUME NEW w \in Workers, Announce(w) PROVE FilesOK'
  <2>1. UNCHANGED <<final, snapshot, scored>> /\ worker[w].at = "announcing"
        /\ (events' = events \/ events' = Append(events, Len(worker[w].temp)))
    BY <1>3 DEF Announce
  <2>2. CASE events' = events
    BY <1>1, <2>1, <2>2, FilesKept DEF FilesOK
  <2>3. CASE events' = Append(events, Len(worker[w].temp))
    <3>1. Whole(file, worker[w].temp) /\ final # None
      BY <2>1, RenamedIsWhole DEF IInv, WorkersOK
    <3>2. Len(worker[w].temp) = Len(final)
      BY <1>1, <2>1, <3>1, Writing, WholeFile DEF FilesOK
    <3>3. Len(final) \in Announced /\ Announced' = Announced
      BY <2>1, <3>1 DEF Announced
    <3>4. events' \in Seq(Announced)
      BY <1>1, <2>3, <3>2, <3>3, AppendProperties DEF FilesOK
    <3>5. QED
      BY <1>1, <2>1, <3>3, <3>4 DEF FilesOK
  <2>4. QED
    BY <2>1, <2>2, <2>3
<1>4. CASE LoadSnapshot
  <2>1. /\ snapshot' \in {final, snapshot} /\ UNCHANGED <<final, scored>>
        /\ final # None /\ events' \in Seq(Announced)
    BY <1>4, LoadOutcomes
  <2>2. Announced' = Announced
    BY <2>1 DEF Announced
  <2>3. QED
    BY <1>1, <2>1, <2>2 DEF FilesOK
<1>5. CASE ScoreSnapshot
  <2>1. UNCHANGED <<final, events, snapshot>> /\ scored' \in BOOLEAN
    BY <1>1, <1>5 DEF ScoreSnapshot, FilesOK
  <2>2. QED
    BY <2>1, FilesKept
<1>6. CASE UNCHANGED <<final, events, snapshot, scored>>
  BY <1>1, <1>6, FilesKept DEF FilesOK
<1>7. CASE Validate \/ PutObject \/ CommitRows \/ Compensate \/ CrashUpload
           \/ StartAnalysis \/ Redeliver \/ UNCHANGED vars
  BY <1>6, <1>7 DEF Validate, PutObject, CommitRows, Compensate, CrashUpload, StartAnalysis,
                    Redeliver, vars
<1>8. ASSUME NEW w \in Workers, TakeDelivery(w) \/ OpenSource(w) \/ NormalizeLine(w)
                                \/ ReportFailure(w) \/ WorkerFails(w) \/ WorkerDies(w)
      PROVE  UNCHANGED <<final, events, snapshot, scored>>
  BY <1>8 DEF TakeDelivery, OpenSource, NormalizeLine, Write, ReportFailure, WorkerFails,
              WorkerDies
<1>9. QED
  BY <1>2, <1>3, <1>4, <1>5, <1>6, <1>7, <1>8 DEF Next, WorkerStep

-----------------------------------------------------------------------------
(* The failures.                                                           *)

LEMMA ExcuseStays ==
  ASSUME IInv, [Next]_vars
  PROVE  (IdsMeet' <=> IdsMeet) /\ (Excused => Excused')
<1>1. happened \subseteq happened' /\ file' = file
  BY NothingTakenBack DEF Later
<1>2. IdsMeet' <=> IdsMeet
  BY <1>1 DEF IdsMeet, Raw
<1>3. QED
  BY <1>1, <1>2 DEF Excused

LEMMA FailuresKept ==
  ASSUME IInv, [Next]_vars, failed' = failed, Records \subseteq Records'
  PROVE  FailuresOK'
<1>1. FailuresOK /\ happened \subseteq happened'
  BY NothingTakenBack DEF IInv, Later
<1>2. IdsMeet' <=> IdsMeet
  BY ExcuseStays
<1>3. \A r : Storable(r)' <=> Storable(r)
  BY DEF Storable, Fits
<1>4. QED
  BY <1>1, <1>2, <1>3 DEF FailuresOK, AcceptedIsScored

\* A worker gives up when the object is gone or unreadable, the disk fails, or two ids
\* met.
LEMMA GivingUpIsExcused ==
  ASSUME IInv, [Next]_vars, NEW w \in Workers,
         OpenSource(w) \/ NormalizeLine(w) \/ Rename(w) \/ WorkerFails(w)
  PROVE  worker'[w].at # "failing" \/ Excused'
<1>0. worker \in [Workers -> WorkerRow(file)]
  BY DEF IInv, WorkersOK
<1>1. CASE OpenSource(w) /\ ~(object /\ validateHeaders(file.header))
  <2>1. started
    BY <1>1 DEF OpenSource, IInv, WorkersOK
  <2>2. row /\ Accepted(file)
    BY <2>1, StartedIsAccepted
  <2>3. ~object
    BY <1>1, <2>2 DEF Accepted
  <2>4. QED
    BY <2>2, <2>3, ExcuseStays DEF IInv, UploadOK, Excused
<1>2. CASE NormalizeLine(w) /\ ~(Same(file, worker[w]) \subseteq {NormalizedRow(file, worker[w].line)})
  <2>1. worker[w].at = "writing" /\ worker[w].line <= Len(file.rows)
    BY <1>2 DEF NormalizeLine
  <2>2. PICK r \in Range(worker[w].temp) :
              /\ r.returnId = NormalizedRow(file, worker[w].line).returnId
              /\ r # NormalizedRow(file, worker[w].line)
    BY <1>2 DEF Same
  <2>3. PICK j \in 1..(worker[w].line - 1) : r = NormalizedRow(file, j)
    BY <2>1, Writing DEF Progress, RecordsTo
  <2>4. j \in DOMAIN file.rows /\ worker[w].line \in DOMAIN file.rows
    BY <2>1, Writing
  <2>5. IdsMeet
    BY <2>1, <2>2, <2>3, <2>4, Writing, OnlyRewritingClashes
  <2>6. QED
    BY <2>5, ExcuseStays DEF Excused
<1>3. CASE NormalizeLine(w)
  <2>1. worker[w].at = "writing" /\ worker[w].line \in DOMAIN file.rows
    BY <1>3, Writing DEF NormalizeLine
  <2>2. Normalizable(file, worker[w].columns, worker[w].line)
    BY <2>1, Writing, AcceptedRow
  <2>3. CASE Same(file, worker[w]) \subseteq {NormalizedRow(file, worker[w].line)}
    <3>1. PICK rows : worker' = [worker EXCEPT ![w].line = @ + 1, ![w].temp = rows]
      BY <1>3, <2>1, <2>2, <2>3, Writing DEF NormalizeLine, Same, NormalizedRow, Write
    <3>2. worker'[w].at = worker[w].at
      BY <1>0, <3>1 DEF WorkerRow
    <3>3. QED
      BY <2>1, <3>2
  <2>4. QED
    BY <1>2, <1>3, <2>3
<1>4. CASE Rename(w)
  <2>1. worker[w].temp # <<>>
    BY <1>4, RenameWorkers, Writing, WholeFile DEF Rename
  <2>2. worker' = [worker EXCEPT ![w].at = "announcing"]
    BY <1>4, <2>1 DEF Rename
  <2>3. QED
    BY <1>0, <2>2 DEF WorkerRow
<1>5. CASE (OpenSource(w) \/ WorkerFails(w)) /\ happened' \cap {"store", "disk"} # {}
  BY <1>5 DEF Excused
<1>6. CASE OpenSource(w)
  <2>1. CASE worker' = [worker EXCEPT ![w].at = "writing", ![w].columns = columns(file.header)]
    BY <1>0, <2>1 DEF WorkerRow
  <2>2. QED
    BY <1>1, <1>5, <1>6, <2>1 DEF OpenSource, Fault
<1>7. CASE WorkerFails(w)
  BY <1>5, <1>7 DEF WorkerFails, Fault
<1>8. QED
  BY <1>3, <1>4, <1>6, <1>7

LEMMA FailingStep ==
  ASSUME IInv, [Next]_vars
  PROVE  FailingOK'
<1>1. FailingOK /\ WorkersOK /\ (Excused => Excused')
  BY ExcuseStays DEF IInv
<1>2. CASE worker' = worker
  BY <1>1, <1>2 DEF FailingOK
<1>3. ASSUME NEW w \in Workers, NEW s, worker' = [worker EXCEPT ![w] = s],
             worker'[w].at # "failing" \/ Excused'
      PROVE  FailingOK'
  BY <1>1, <1>3 DEF FailingOK, WorkersOK
<1>4. ASSUME NEW w \in Workers, TakeDelivery(w) PROVE FailingOK'
  <2>1. worker' = [worker EXCEPT ![w] = [worker[w] EXCEPT !.at = "reading"]]
    BY <1>4 DEF TakeDelivery
  <2>2. worker'[w].at = "reading"
    BY <1>1, <2>1 DEF WorkersOK, WorkerRow
  <2>3. QED
    BY <1>3, <2>1, <2>2
<1>5. ASSUME NEW w \in Workers, OpenSource(w) \/ NormalizeLine(w) \/ Rename(w) \/ WorkerFails(w)
      PROVE  FailingOK'
  <2>1. worker'[w].at # "failing" \/ Excused'
    BY <1>5, GivingUpIsExcused
  <2>2. \E s : worker' = [worker EXCEPT ![w] = s]
    <3>1. CASE OpenSource(w)
      BY <3>1 DEF OpenSource, GivesUp
    <3>2. CASE NormalizeLine(w)
      BY <3>2 DEF NormalizeLine, GivesUp, Write
    <3>3. CASE Rename(w)
      BY <3>3 DEF Rename, GivesUp
    <3>4. CASE WorkerFails(w)
      BY <3>4 DEF WorkerFails, GivesUp
    <3>5. QED
      BY <1>5, <3>1, <3>2, <3>3, <3>4
  <2>3. QED
    BY <1>3, <2>1, <2>2
<1>6. ASSUME NEW w \in Workers, Announce(w) \/ ReportFailure(w) \/ WorkerDies(w)
      PROVE  FailingOK'
  <2>1. worker' = [worker EXCEPT ![w] = Idle]
    BY <1>6 DEF Announce, ReportFailure, WorkerDies, Ended
  <2>2. worker'[w].at = "idle"
    BY <1>1, <2>1 DEF WorkersOK, Idle
  <2>3. QED
    BY <1>3, <2>1, <2>2
<1>7. CASE Validate \/ PutObject \/ CommitRows \/ Compensate \/ CrashUpload
           \/ StartAnalysis \/ Redeliver \/ LoadSnapshot \/ ScoreSnapshot \/ UNCHANGED vars
  BY <1>2, <1>7 DEF Validate, PutObject, CommitRows, Compensate, CrashUpload, StartAnalysis,
                    Redeliver, LoadSnapshot, ScoreSnapshot, vars
<1>8. QED
  BY <1>4, <1>5, <1>6, <1>7 DEF Next, WorkerStep

\* A run fails on a record that cannot be stored, or on its inputs or its database.
LEMMA ScoringIsCaused ==
  ASSUME ScoreSnapshot, failed' # failed
  PROVE  /\ failed' = failed \cup {"SCORING"} /\ snapshot' = snapshot
         /\ (\E r \in Records : ~Storable(r)) \/ happened' \cap {"inputs", "database"} # {}
<1>1. snapshot # None /\ snapshot' = snapshot
  BY DEF ScoreSnapshot
<1>2. Records = Range(snapshot)
  BY <1>1 DEF Records
<1>3. \/ ~(\A r \in Range(snapshot) : Storable(r)) /\ failed' = failed \cup {"SCORING"}
      \/ /\ \E kind \in {"inputs", "database"} : Fault(kind)
         /\ failed' = failed \cup {"SCORING"}
  BY DEF ScoreSnapshot
<1>4. QED
  BY <1>1, <1>2, <1>3 DEF Fault

LEMMA FailuresStep ==
  ASSUME IInv, [Next]_vars
  PROVE  FailuresOK'
<1>1. FailuresOK /\ FilesOK /\ happened \subseteq happened'
  BY NothingTakenBack DEF IInv, Later
<1>2. (IdsMeet' <=> IdsMeet) /\ (Excused => Excused')
  BY ExcuseStays
<1>3. \A r : Storable(r)' <=> Storable(r)
  BY DEF Storable, Fits
<1>4. CASE UNCHANGED <<failed, snapshot>>
  <2>1. Records' = Records
    BY <1>4 DEF Records
  <2>2. QED
    BY <1>4, <2>1, FailuresKept
<1>5. ASSUME NEW w \in Workers, ReportFailure(w) PROVE FailuresOK'
  <2>1. snapshot' = snapshot /\ (failed' = failed \/ failed' = failed \cup {"NORMALIZATION"})
    BY <1>5 DEF ReportFailure
  <2>2. Excused'
    BY <1>2, <1>5 DEF ReportFailure, IInv, FailingOK
  <2>3. Records' = Records
    BY <2>1 DEF Records
  <2>4. QED
    BY <1>1, <1>2, <1>3, <2>1, <2>2, <2>3 DEF FailuresOK, AcceptedIsScored, Excused
<1>6. CASE LoadSnapshot
  <2>1. CASE failed' = failed /\ snapshot' = final /\ final # None
    <3>1. snapshot # None => Range(snapshot) = Range(final)
      BY <1>1, <2>1 DEF FilesOK, Whole
    <3>2. Records \subseteq Records'
      BY <2>1, <3>1 DEF Records
    <3>3. QED
      BY <2>1, <3>2, FailuresKept
  <2>2. CASE snapshot' = snapshot /\ failed' = failed \cup {"RELATIONS"} /\ "volume" \in happened'
    <3>1. Records' = Records
      BY <2>2 DEF Records
    <3>2. QED
      BY <1>1, <1>2, <1>3, <2>2, <3>1 DEF FailuresOK, AcceptedIsScored
  <2>3. QED
    BY <1>6, <2>1, <2>2, LoadOutcomes
<1>7. CASE ScoreSnapshot
  <2>1. snapshot' = snapshot
    BY <1>7 DEF ScoreSnapshot
  <2>2. CASE failed' = failed
    BY <1>4, <2>1, <2>2
  <2>3. CASE failed' # failed
    <3>1. /\ failed' = failed \cup {"SCORING"}
          /\ (\E r \in Records : ~Storable(r)) \/ happened' \cap {"inputs", "database"} # {}
      BY <1>7, <2>3, ScoringIsCaused
    <3>2. Records' = Records
      BY <2>1 DEF Records
    <3>3. QED
      BY <1>1, <1>2, <1>3, <3>1, <3>2 DEF FailuresOK, AcceptedIsScored
  <2>4. QED
    BY <2>2, <2>3
<1>8. ASSUME NEW w \in Workers,
             \/ TakeDelivery(w) \/ OpenSource(w) \/ NormalizeLine(w) \/ Rename(w)
             \/ Announce(w) \/ WorkerFails(w) \/ WorkerDies(w)
      PROVE  UNCHANGED <<failed, snapshot>>
  BY <1>8 DEF TakeDelivery, OpenSource, NormalizeLine, Rename, Announce, WorkerFails, WorkerDies
<1>9. CASE Validate \/ PutObject \/ CommitRows \/ Compensate \/ CrashUpload
           \/ StartAnalysis \/ Redeliver \/ UNCHANGED vars
  BY <1>4, <1>9 DEF Validate, PutObject, CommitRows, Compensate, CrashUpload, StartAnalysis,
                    Redeliver, vars
<1>10. QED
  BY <1>4, <1>5, <1>6, <1>7, <1>8, <1>9 DEF Next, WorkerStep

-----------------------------------------------------------------------------
(* The deliveries.                                                         *)

LEMMA PendingStep ==
  ASSUME IInv, [Next]_vars
  PROVE  PendingOK'
<1>1. PendingOK /\ WorkersOK /\ (started => started')
  BY NothingTakenBack DEF IInv
<1>2. CASE pending' = pending
  BY <1>1, <1>2 DEF PendingOK
<1>3. CASE StartAnalysis \/ Redeliver
  BY <1>1, <1>3 DEF PendingOK, StartAnalysis, Redeliver
<1>4. ASSUME NEW w \in Workers, TakeDelivery(w) PROVE PendingOK'
  BY <1>1, <1>4 DEF PendingOK, TakeDelivery
<1>5. ASSUME NEW w \in Workers, Announce(w) \/ ReportFailure(w) \/ WorkerDies(w)
      PROVE  PendingOK'
  <2>1. started
    BY <1>1, <1>5 DEF WorkersOK, Announce, ReportFailure, WorkerDies
  <2>2. pending' \in {pending, pending + 1}
    BY <1>5 DEF Announce, ReportFailure, WorkerDies, Ended
  <2>3. QED
    BY <1>1, <2>1, <2>2 DEF PendingOK
<1>6. ASSUME NEW w \in Workers, OpenSource(w) \/ NormalizeLine(w) \/ Rename(w) \/ WorkerFails(w)
      PROVE  pending' = pending
  BY <1>6 DEF OpenSource, NormalizeLine, Rename, WorkerFails
<1>7. CASE Validate \/ PutObject \/ CommitRows \/ Compensate \/ CrashUpload
           \/ LoadSnapshot \/ ScoreSnapshot \/ UNCHANGED vars
  BY <1>2, <1>7 DEF Validate, PutObject, CommitRows, Compensate, CrashUpload, LoadSnapshot,
                    ScoreSnapshot, vars
<1>8. QED
  BY <1>2, <1>3, <1>4, <1>5, <1>6, <1>7 DEF Next, WorkerStep

-----------------------------------------------------------------------------
(* What holds in every reachable state.                                    *)

\* The invariant above holds for every file, any number of workers and faults.
THEOREM Invariance == Spec => []IInv
<1>1. Init => IInv
  BY Initially
<1>2. IInv /\ [Next]_vars => IInv'
  <2> SUFFICES ASSUME IInv, [Next]_vars PROVE IInv'
    OBVIOUS
  <2>2. FileOK'
    BY NothingTakenBack DEF IInv, FileOK, Later
  <2>3. QED
    BY <2>2, UploadStep, WorkersStep, FilesStep, FailingStep, FailuresStep, PendingStep DEF IInv
<1>3. QED
  BY <1>1, <1>2, PTL DEF Spec

\* A registered dataset has its object and an object its dataset, unless an answer was
\* lost, a deletion failed or the service died (UploadDatasetDetailed).
THEOREM StoresMatch == Spec => []StoreMatchesDatabase
<1>1. IInv => StoreMatchesDatabase
  BY DEF IInv, UploadOK, StoreMatchesDatabase
<1>2. QED
  BY <1>1, Invariance, PTL

\* Whatever dataset.normalized announces is on the volume as a whole, however many
\* deliveries are handled at once and wherever one of them dies (the temporary file).
THEOREM AnnouncedIsWhole == Spec => []AnnouncedFileIsWhole
<1>1. IInv => AnnouncedFileIsWhole
  <2>1. SUFFICES ASSUME IInv, NEW n \in DOMAIN events
                 PROVE  final # None /\ Loads(final, events[n])
    BY DEF AnnouncedFileIsWhole
  <2>2. events \in Seq(Announced)
    BY <2>1 DEF IInv, FilesOK
  <2>3. events[n] \in Announced
    BY <2>2, LenProperties
  <2>4. final # None /\ events[n] = Len(final)
    BY <2>3 DEF Announced
  <2>5. Loads(final, Len(final))
    BY <2>1, <2>4, StartedIsAccepted, WholeFile DEF IInv, FilesOK
  <2>6. QED
    BY <2>4, <2>5
<1>2. QED
  BY <1>1, Invariance, PTL

\* A file the upload accepted fails in no later stage, unless ids that differ are
\* rewritten to the same, a record of it does not fit scoring's types and tables, or a
\* call of the stage itself fails: the validation, the normalization and the load agree
\* about every file, for any number of faults and any limits of the tables.
THEOREM AcceptedIsHandled == Spec => []AcceptedIsScored
<1>1. IInv => AcceptedIsScored
  BY DEF IInv, FailuresOK
<1>2. QED
  BY <1>1, Invariance, PTL

\* The records loaded have a decision that is known, a timestamp in the one layout or a
\* date without a time, and an order amount unless it was under half a cent.
THEOREM LoadedIsAccepted == Spec => []LoadedAsAccepted
<1>1. IInv => LoadedAsAccepted
  <2>1. SUFFICES ASSUME IInv, NEW r \in Records
                 PROVE  /\ r.status \in {"APPROVED", "DECLINED"}
                        /\ r.timestamp \in {"RFC3339", "2006-01-02"}
                        /\ r.orderAmount = 0 => \E amount \in Raw("order_amount") : amount < 5
    BY DEF LoadedAsAccepted
  <2>2. Whole(file, snapshot) /\ r \in Range(snapshot) /\ Represented(file) /\ Accepted(file)
    BY <2>1, StartedIsAccepted DEF Records, IInv, FilesOK
  <2>3. PICK k \in 1..Len(file.rows) : r = NormalizedRow(file, k)
    BY <2>2 DEF Whole, RecordsTo
  <2>4. k \in DOMAIN file.rows
    BY <2>2, LenProperties DEF Represented
  <2>5. r \in NormalizedReturnRecord
        /\ (r.orderAmount = 0 => CellOf(file, k, "order_amount") < 5)
    BY <2>2, <2>3, <2>4, AcceptedRow
  <2>6. CellOf(file, k, "order_amount") \in Raw("order_amount")
    BY <2>4 DEF Raw, CellOf
  <2>7. QED
    BY <2>5, <2>6 DEF NormalizedReturnRecord
<1>2. QED
  BY <1>1, Invariance, PTL

\* What the calculations over a snapshot rest on: it is finite, typed, and each return
\* is in it once.
LEMMA SnapshotRecords ==
  ASSUME IInv, NEW r \in Records
  PROVE  /\ snapshot # None /\ Records = Range(snapshot) /\ r \in Range(snapshot)
         /\ IsFiniteSet(Range(snapshot))
         /\ \A p \in Range(snapshot) : p \in NormalizedReturnRecord /\ p.returnId \in Int
         /\ \A p, q \in Range(snapshot) : p.returnId = q.returnId => p = q
<1>1. snapshot # None /\ Records = Range(snapshot)
  BY DEF Records
<1>2. snapshot \in Seq(NormalizedReturnRecord) /\ Distinct(snapshot)
  BY <1>1 DEF IInv, FilesOK, Whole
<1>3. IsFiniteSet(Range(snapshot))
  BY <1>2, LengthIsSize
<1>4. \A p \in Range(snapshot) : p \in NormalizedReturnRecord
  BY <1>2, LenProperties DEF Range
<1>5. \A p \in Range(snapshot) : p.returnId \in Int
  BY <1>4 DEF NormalizedReturnRecord
<1>6. \A p, q \in Range(snapshot) : p.returnId = q.returnId => p = q
  BY <1>2 DEF Range, Distinct
<1>7. QED
  BY <1>1, <1>3, <1>4, <1>5, <1>6

\* Every part of the state has its type; a risk score is between 0 and 100 whichever
\* rules apply.
THEOREM TypeCorrect == Spec => []TypeOK
<1>1. IInv => TypeOK
  <2> SUFFICES ASSUME IInv PROVE TypeOK
    OBVIOUS
  <2>1. budget \in Nat
    BY DEF IInv, FileOK
  <2>2. pending \in Nat
    BY DEF IInv, PendingOK
  <2>3. \A w \in Workers : worker[w].at \in {"idle", "reading", "writing", "announcing",
                                               "failing"}
    BY DEF IInv, WorkersOK, WorkerRow
  <2>4. final # None => Len(final) \in 1..MaxRows
    BY StartedIsAccepted, WholeFile DEF IInv, FilesOK
  <2>5. events \in Seq(1..MaxRows)
    <3>1. Announced \subseteq 1..MaxRows /\ events \in Seq(Announced)
      BY <2>4 DEF Announced, IInv, FilesOK
    <3>2. QED
      BY <3>1, SeqMonotonic
  <2>6. \A r \in Records : RiskScore(r) \in 0..100
    BY ScoreRange DEF RiskScore
  <2>7. final = None \/ Len(final) <= MaxRows
    BY <2>4, RowsAssumption
  <2>8. QED
    BY <2>1, <2>2, <2>3, <2>5, <2>6, <2>7 DEF TypeOK, IInv, UploadOK, FailuresOK
<1>2. QED
  BY <1>1, Invariance, PTL

\* A rule of scoring about a relation feature that fires has its explanation signal, for
\* every snapshot, the approval rates between the two thresholds excepted.
THEOREM SignalsExplainRules == Spec => []RulesAreExplained
<1>1. IInv => RulesAreExplained
  <2> SUFFICES ASSUME IInv, NEW r \in Records
               PROVE  LET f == Features(r)
                          signals == explanationSignals(f)
                          rules == Rules(r, f)
                      IN /\ "CUSTOMER_FREQUENT_RETURNS" \in rules => "customer" \in signals
                         /\ "REPEATED_AGENT_CUSTOMER_PAIR" \in rules => "pair" \in signals
                         /\ "SUSPICIOUS_CLUSTER" \in rules => "cluster" \in signals
                         /\ "FULL_AMOUNT_REFUND" \in rules => "ratio" \in signals
                         /\ "AGENT_HIGH_APPROVAL_RATE" \in rules =>
                              "rate" \in signals \/ f.agentApprovalRate \in 86..89
    BY DEF RulesAreExplained
  <2>1. r.orderAmount \in Nat /\ r.refundAmount \in Nat /\ IsFiniteSet(Range(snapshot))
    BY SnapshotRecords DEF NormalizedReturnRecord
  <2>2. PICK f : f = Features(r)
    OBVIOUS
  <2>3. f.refundAmountRatio \in Nat /\ f.agentDecisionCount \in Nat /\ f.agentApprovalRate \in Nat
    BY <2>1, <2>2, FeatureTypes DEF Features
  <2>4. QED
    BY <2>2, <2>3, RulesHaveSignals
<1>2. QED
  BY <1>1, Invariance, PTL

\* A related return of the features is related in the graph, and being related is
\* mutual, for every snapshot.
THEOREM RelationsAgree == Spec => []RelatedIsMutual
<1>1. IInv => RelatedIsMutual
  <2> SUFFICES ASSUME IInv, NEW r \in Records, NEW q \in Records
               PROVE  /\ q.returnId \in Range(Features(r).topRelatedReturns) =>
                           q \in AllRelated(r, snapshot)
                      /\ q \in AllRelated(r, snapshot) => r \in AllRelated(q, snapshot)
    BY DEF RelatedIsMutual
  <2>1. q.returnId \in Range(Features(r).topRelatedReturns) => q \in AllRelated(r, snapshot)
    BY SnapshotRecords, TopAreRelated DEF Features
  <2>2. q \in AllRelated(r, snapshot) => r \in AllRelated(q, snapshot)
    BY SnapshotRecords, RelatedBothWays
  <2>3. QED
    BY <2>1, <2>2
<1>2. QED
  BY <1>1, Invariance, PTL

\* Every graph with room for seven nodes shows the return it is about and both ends of
\* every edge, whatever the snapshot and however many returns are related.
THEOREM GraphsAreClosed == Spec => []GraphIsClosed
<1>1. ASSUME IInv, NEW r \in Records, NEW limit \in Nat, limit >= 7
      PROVE  /\ <<"return", r.returnId>> \in GraphNodes(r, snapshot, limit)
             /\ \A edge \in GraphEdges(r, snapshot, limit) :
                  /\ {edge[1], edge[3]} \subseteq GraphNodes(r, snapshot, limit)
                  /\ edge[2] = "RELATED" \/ edge \in buildReturnRelations(r)
  <2> DEFINE nodes == OwnNodes(r) \cup RelatedNodes(r, snapshot, limit)
  <2>1. GraphNodes(r, snapshot, limit) = nodes
    BY <1>1, SnapshotRecords, GraphIsWhole DEF AllNodes
  <2>2. <<"return", r.returnId>> \in nodes
    BY DEF OwnNodes
  <2>3. ASSUME NEW edge \in GraphEdges(r, snapshot, limit)
        PROVE  /\ {edge[1], edge[3]} \subseteq nodes
               /\ edge[2] = "RELATED" \/ edge \in buildReturnRelations(r)
    <3>1. CASE \E id \in Related(r, snapshot, limit) :
                 edge = << <<"return", r.returnId>>, "RELATED", <<"return", id>> >>
      <4>1. PICK id \in Related(r, snapshot, limit) :
                   edge = << <<"return", r.returnId>>, "RELATED", <<"return", id>> >>
        BY <3>1
      <4>2. edge[1] = <<"return", r.returnId>> /\ edge[2] = "RELATED" /\ edge[3] = <<"return", id>>
        BY <4>1
      <4>3. <<"return", id>> \in nodes
        BY DEF RelatedNodes
      <4>4. QED
        BY <2>2, <4>2, <4>3
    <3>2. CASE ~(\E id \in Related(r, snapshot, limit) :
                   edge = << <<"return", r.returnId>>, "RELATED", <<"return", id>> >>)
      <4>1. /\ edge \in buildReturnRelations(r)
            /\ edge[1] \in OwnNodes(r) /\ edge[3] \in OwnNodes(r)
        BY <3>2 DEF GraphEdges, buildReturnRelations, OwnNodes
      <4>2. QED
        BY <4>1
    <3>3. QED
      BY <3>1, <3>2
  <2>4. QED
    BY <2>1, <2>2, <2>3
<1>2. IInv => GraphIsClosed
  <2>1. \A limit \in 7..9 : limit \in Nat /\ limit >= 7
    OBVIOUS
  <2>2. QED
    BY <1>1, <2>1 DEF GraphIsClosed
<1>3. QED
  BY <1>2, Invariance, PTL

\* The analytics that count the records of a snapshot in code of their own agree with the
\* features, for every snapshot: the history of a customer, its average ratio rounded
\* twice, the rate and the largest pair of an agent, and the override count, off by no
\* more than the number of decisions lets the rounded rate be.
THEOREM AnalyticsAreConsistent == Spec => []AnalyticsAgree
<1>1. ASSUME IInv, NEW r \in Records
      PROVE  LET f == Features(r)
                 history == buildCustomerHistory(r.customerId, snapshot)
                 behavior == GetCustomerBehaviorSummary(r.customerId, snapshot)
                 summary == buildAgentSummary(r.agentId, snapshot)
                 overrides == Count(snapshot, LAMBDA q : q.agentId = r.agentId /\ q.override)
                 ratios == {Features(q).refundAmountRatio :
                              q \in Those(snapshot, LAMBDA q : q.customerId = r.customerId)}
             IN /\ history.returnCount = f.customerReturnCount
                /\ history.approvedRefunds = f.customerApprovedRefundCount
                /\ history.linkedAgents[r.agentId] = f.customerAgentPairCount
                /\ behavior.averageRefundRatio \in Min(ratios)..Max(ratios)
                /\ behavior.totalRefundAmount >= r.refundAmount
                /\ summary.approvalRate = f.agentApprovalRate
                /\ summary.repeatedCustomerPairCount >= f.customerAgentPairCount
                /\ ManualOverrideCount(summary)
                     \in (overrides - (summary.decisionsCount + 199) \div 200)
                         ..(overrides + summary.decisionsCount \div 200)
  <2>1. /\ r \in Range(snapshot) /\ IsFiniteSet(Range(snapshot))
        /\ \A q \in Range(snapshot) : q.orderAmount \in Nat /\ q.refundAmount \in Nat
    <3>1. \A q \in NormalizedReturnRecord : q.orderAmount \in Nat /\ q.refundAmount \in Nat
      BY DEF NormalizedReturnRecord
    <3>2. QED
      BY <1>1, <3>1, SnapshotRecords
  <2>2. \A q : Features(q) = calculateFeatures(q, snapshot)
    BY DEF Features
  <2>3. {Features(q).refundAmountRatio :
           q \in Those(snapshot, LAMBDA q : q.customerId = r.customerId)}
        = Ratios(SameCustomer(snapshot, r))
    <3>1. \A q : calculateFeatures(q, snapshot).refundAmountRatio = ratio(q.refundAmount, q.orderAmount)
      BY DEF calculateFeatures
    <3>2. \A q : Features(q).refundAmountRatio = ratio(q.refundAmount, q.orderAmount)
      BY <2>2, <3>1
    <3>3. Those(snapshot, LAMBDA q : q.customerId = r.customerId) = SameCustomer(snapshot, r)
      BY DEF Those, SameCustomer
    <3>4. QED
      BY <3>2, <3>3 DEF Ratios
  <2>4. Count(snapshot, LAMBDA q : q.agentId = r.agentId /\ q.override)
        = Cardinality({q \in Range(snapshot) : q.agentId = r.agentId /\ q.override})
    BY DEF Count, Those
  <2>5. /\ buildCustomerHistory(r.customerId, snapshot).returnCount = Features(r).customerReturnCount
        /\ buildCustomerHistory(r.customerId, snapshot).approvedRefunds
             = Features(r).customerApprovedRefundCount
        /\ buildCustomerHistory(r.customerId, snapshot).linkedAgents[r.agentId]
             = Features(r).customerAgentPairCount
    BY <2>1, <2>2, HistoryAgrees
  <2>6. /\ GetCustomerBehaviorSummary(r.customerId, snapshot).averageRefundRatio
             \in Min(Ratios(SameCustomer(snapshot, r)))..Max(Ratios(SameCustomer(snapshot, r)))
        /\ GetCustomerBehaviorSummary(r.customerId, snapshot).totalRefundAmount >= r.refundAmount
    BY <2>1, BehaviorAgrees
  <2>7. LET summary == buildAgentSummary(r.agentId, snapshot)
            overrides == Cardinality({q \in Range(snapshot) : q.agentId = r.agentId /\ q.override})
        IN /\ summary.approvalRate = Features(r).agentApprovalRate
           /\ summary.repeatedCustomerPairCount >= Features(r).customerAgentPairCount
           /\ ManualOverrideCount(summary)
                \in (overrides - (summary.decisionsCount + 199) \div 200)
                    ..(overrides + summary.decisionsCount \div 200)
    BY <2>1, <2>2, AgentSummaryAgrees
  <2>8. QED
    BY <2>3, <2>4, <2>5, <2>6, <2>7
<1>2. IInv => AnalyticsAgree
  BY <1>1 DEF AnalyticsAgree
<1>3. QED
  BY <1>2, Invariance, PTL

-----------------------------------------------------------------------------
(* The warnings of an upload.                                              *)

\* What makes g the concatenations of the first sequences of a list.
AreJoined(g, seqs, n) ==
  g = [i \in 1..n |-> IF i = 1 THEN seqs[i] ELSE g[i - 1] \o seqs[i]]

LEMMA JoinedExist ==
  ASSUME NEW seqs, NEW size \in Nat
  PROVE  \E g : AreJoined(g, seqs, size)
<1> DEFINE bad == {n \in Nat : ~(\E g : AreJoined(g, seqs, n))}
<1>1. \E g : AreJoined(g, seqs, 0)
  <2>1. AreJoined([i \in 1..0 |-> seqs[i]], seqs, 0)
    BY DEF AreJoined
  <2>2. QED
    BY <2>1
<1>2. ASSUME NEW n \in Nat, NEW g, AreJoined(g, seqs, n)
      PROVE  \E h : AreJoined(h, seqs, n + 1)
  <2> DEFINE value(k, i) == IF i = 1 THEN seqs[i] ELSE k[i - 1] \o seqs[i]
             h == [i \in 1..(n + 1) |-> value(g, i)]
  <2>1. \A i \in 1..n : g[i] = value(g, i) /\ i \in 1..(n + 1)
    <3>1. \A i \in 1..n : g[i] = value(g, i)
      BY <1>2, Zenon DEF AreJoined
    <3>2. QED
      BY <3>1
  <2>2. ASSUME NEW i \in 1..(n + 1) PROVE value(g, i) = value(h, i)
    <3>1. CASE i = 1
      BY <3>1
    <3>2. CASE i # 1
      <4>1. i - 1 \in 1..n
        BY <3>2
      <4>2. h[i - 1] = g[i - 1]
        BY <2>1, <4>1
      <4>3. QED
        BY <3>2, <4>2
    <3>3. QED
      BY <3>1, <3>2
  <2>3. AreJoined(h, seqs, n + 1)
    BY <2>2 DEF AreJoined
  <2>4. QED
    BY <2>3
<1>3. bad = {}
  <2>1. SUFFICES ASSUME bad # {} PROVE FALSE
    OBVIOUS
  <2>2. Min(bad) \in bad /\ \A n \in bad : Min(bad) <= n
    <3>1. bad \subseteq Nat
      OBVIOUS
    <3> HIDE DEF bad
    <3>2. QED
      BY <2>1, <3>1, LeastNumber
  <2>3. PICK m \in bad : \A n \in bad : m <= n
    BY <2>2
  <2>4. m \in Nat /\ m # 0
    BY <1>1
  <2>5. m - 1 \in Nat /\ m - 1 \notin bad /\ (m - 1) + 1 = m
    BY <2>3, <2>4
  <2>6. QED
    BY <1>2, <2>3, <2>5
<1>4. QED
  BY <1>3

\* The library's operator is the last of them.
LEMMA FlattenIsLast ==
  ASSUME NEW seqs, Len(seqs) \in Nat \ {0}
  PROVE  \E g : AreJoined(g, seqs, Len(seqs)) /\ FlattenSeq(seqs) = g[Len(seqs)]
<1> DEFINE g == CHOOSE h : AreJoined(h, seqs, Len(seqs))
<1>1. AreJoined(g, seqs, Len(seqs))
  BY JoinedExist
<1>2. FlattenSeq(seqs) = g[Len(seqs)]
  BY DEF FlattenSeq, AreJoined
<1>3. QED
  BY <1>1, <1>2

\* Nothing of a joined sequence is lost.
LEMMA JoinedHold ==
  ASSUME NEW T, NEW seqs, NEW size \in Nat, \A i \in 1..size : seqs[i] \in Seq(T),
         NEW g, AreJoined(g, seqs, size)
  PROVE  \A i \in 1..size : g[i] \in Seq(T) /\ \A j \in 1..i : Range(seqs[j]) \subseteq Range(g[i])
<1> DEFINE Holds(i) == g[i] \in Seq(T) /\ \A j \in 1..i : Range(seqs[j]) \subseteq Range(g[i])
           bad == {i \in 1..size : ~Holds(i)}
<1>1. SUFFICES ASSUME bad # {} PROVE FALSE
  OBVIOUS
<1>2. Min(bad) \in bad /\ \A i \in bad : Min(bad) <= i
  <2>1. bad \subseteq Nat
    OBVIOUS
  <2> HIDE DEF bad
  <2>2. QED
    BY <1>1, <2>1, LeastNumber
<1>3. PICK i \in 1..size : ~Holds(i) /\ \A j \in 1..size : ~Holds(j) => i <= j
  BY <1>2
<1>4. g[i] = IF i = 1 THEN seqs[i] ELSE g[i - 1] \o seqs[i]
  BY Zenon DEF AreJoined
<1>5. CASE i = 1
  <2>1. Holds(i)
    <3>1. g[i] = seqs[i] /\ seqs[i] \in Seq(T)
      BY <1>4, <1>5
    <3>2. \A j \in 1..i : j = i
      BY <1>5
    <3>3. QED
      BY <3>1, <3>2
  <2>2. QED
    BY <1>3, <2>1
<1>6. CASE i # 1
  <2>1. i - 1 \in 1..size /\ Holds(i - 1)
    <3>1. PICK n : n = i - 1
      OBVIOUS
    <3>2. n \in 1..size /\ ~(i <= n)
      BY <1>6, <3>1
    <3> HIDE DEF Holds
    <3>3. Holds(n)
      BY <1>3, <3>2
    <3>4. QED
      BY <3>1, <3>2, <3>3
  <2>2. PICK s, t : s = g[i - 1] /\ t = seqs[i]
    OBVIOUS
  <2>3. s \in Seq(T) /\ t \in Seq(T) /\ g[i] = s \o t
    BY <1>4, <1>6, <2>1, <2>2
  <2>4. g[i] \in Seq(T) /\ Range(g[i]) = Range(s) \cup Range(t)
    BY <2>3, ConcatProperties, RangeConcatenation
  <2>5. \A j \in 1..i : j \in 1..(i - 1) \/ j = i
    OBVIOUS
  <2>6. Holds(i)
    BY <2>1, <2>2, <2>4, <2>5
  <2>7. QED
    BY <1>3, <2>6
<1>7. QED
  BY <1>5, <1>6

Warning ==
  [row : Nat, code : {"DUPLICATE_ROW", "ZERO_REFUND_AMOUNT", "MISSING_OPTIONAL"}]

LEMMA OneWarning ==
  ASSUME NEW k \in Nat, NEW holds,
         NEW code \in {"DUPLICATE_ROW", "ZERO_REFUND_AMOUNT", "MISSING_OPTIONAL"}
  PROVE  (IF holds THEN <<[row |-> k, code |-> code]>> ELSE <<>>) \in Seq(Warning)
<1>1. [row |-> k, code |-> code] \in Warning
  BY DEF Warning
<1>2. QED
  BY <1>1

\* A row's warnings; that it repeats another is one of them.
LEMMA WarningsOfRow ==
  ASSUME NEW f, NEW at, NEW k \in Nat
  PROVE  /\ RowWarnings(f, at, k) \in Seq(Warning)
         /\ Repeats(f, at, k) =>
              [row |-> k, code |-> "DUPLICATE_ROW"] \in Range(RowWarnings(f, at, k))
<1>1. PICK a, b, c :
        /\ a = IF Repeats(f, at, k) THEN <<[row |-> k, code |-> "DUPLICATE_ROW"]>> ELSE <<>>
        /\ b = IF Cell(f.rows[k], at, "refund_amount") = 0
               THEN <<[row |-> k, code |-> "ZERO_REFUND_AMOUNT"]>> ELSE <<>>
        /\ c = IF /\ "decision_time_minutes" \in DOMAIN at
                  /\ Cell(f.rows[k], at, "decision_time_minutes") = Blank
               THEN <<[row |-> k, code |-> "MISSING_OPTIONAL"]>> ELSE <<>>
  OBVIOUS
<1>2. RowWarnings(f, at, k) = (a \o b) \o c
  BY <1>1 DEF RowWarnings
<1>3. a \in Seq(Warning) /\ b \in Seq(Warning) /\ c \in Seq(Warning)
  BY <1>1, OneWarning
<1>4. (a \o b) \o c \in Seq(Warning) /\ Range(a) \subseteq Range((a \o b) \o c)
  <2>1. a \o b \in Seq(Warning) /\ Range(a) \subseteq Range(a \o b)
    BY <1>3, ConcatProperties, RangeConcatenation
  <2>2. PICK d \in Seq(Warning) : d = a \o b
    BY <2>1
  <2>3. d \o c \in Seq(Warning) /\ Range(d) \subseteq Range(d \o c)
    BY <1>3, ConcatProperties, RangeConcatenation
  <2>4. QED
    BY <2>1, <2>2, <2>3
<1>5. ASSUME Repeats(f, at, k) PROVE [row |-> k, code |-> "DUPLICATE_ROW"] \in Range(a)
  <2>1. PICK w : w = [row |-> k, code |-> "DUPLICATE_ROW"]
    OBVIOUS
  <2>2. a = <<w>>
    BY <1>1, <1>5, <2>1
  <2>3. w \in Range(<<w>>)
    BY DEF Range
  <2>4. QED
    BY <2>1, <2>2, <2>3
<1>6. QED
  BY <1>2, <1>4, <1>5

\* The report names a repeated row unless it is full.
LEMMA RepeatedIsWarned ==
  ASSUME NEW f, Represented(f), NEW k \in DOMAIN f.rows, Repeats(f, columns(f.header), k)
  PROVE  \/ [row |-> k, code |-> "DUPLICATE_ROW"] \in Range(Warnings(f))
         \/ Len(Warnings(f)) = MaxErrors
<1>1. PICK n \in Nat : n = Len(f.rows) /\ DOMAIN f.rows = 1..n
  BY LenProperties DEF Represented
<1>2. PICK seqs : seqs = [i \in DOMAIN f.rows |-> RowWarnings(f, columns(f.header), i)]
  OBVIOUS
<1>3. PICK all : all = FlattenSeq(seqs)
  OBVIOUS
<1>4. Warnings(f) = SubSeq(all, 1, IF Len(all) < MaxErrors THEN Len(all) ELSE MaxErrors)
  BY <1>2, <1>3 DEF Warnings
<1>5. DOMAIN seqs = 1..n /\ \A i \in 1..n : /\ seqs[i] = RowWarnings(f, columns(f.header), i)
                                            /\ seqs[i] \in Seq(Warning)
  <2>1. DOMAIN seqs = 1..n /\ \A i \in 1..n : seqs[i] = RowWarnings(f, columns(f.header), i)
    BY <1>1, <1>2
  <2>2. \A i \in 1..n : i \in Nat
    OBVIOUS
  <2>3. QED
    BY <2>1, <2>2, WarningsOfRow
<1>6. Len(seqs) = n /\ n # 0
  <2>1. seqs \in [1..n -> Seq(Warning)]
    BY <1>1, <1>2, <1>5
  <2>2. seqs \in Seq(Seq(Warning)) /\ Len(seqs) = n
    BY <2>1, FunctionIsList, Zenon
  <2>3. n # 0
    BY <1>1
  <2>4. QED
    BY <2>2, <2>3
<1>7. PICK g : AreJoined(g, seqs, n) /\ all = g[n]
  <2>1. Len(seqs) \in Nat \ {0}
    BY <1>6
  <2>2. \E g : AreJoined(g, seqs, Len(seqs)) /\ FlattenSeq(seqs) = g[Len(seqs)]
    BY <2>1, FlattenIsLast
  <2>3. QED
    BY <1>3, <1>6, <2>2
<1>8. all \in Seq(Warning) /\ Range(seqs[k]) \subseteq Range(all)
  <2>1. \A i \in 1..n : g[i] \in Seq(Warning) /\ \A j \in 1..i : Range(seqs[j]) \subseteq Range(g[i])
    BY <1>5, <1>7, JoinedHold
  <2>2. n \in 1..n /\ k \in 1..n
    BY <1>1, <1>6
  <2>3. QED
    BY <1>7, <2>1, <2>2
<1>9. [row |-> k, code |-> "DUPLICATE_ROW"] \in Range(all)
  <2>1. k \in Nat /\ k \in 1..n
    BY <1>1
  <2>2. [row |-> k, code |-> "DUPLICATE_ROW"] \in Range(seqs[k])
    BY <1>5, <2>1, WarningsOfRow
  <2>3. QED
    BY <1>8, <2>2
<1>10. Len(all) \in Nat /\ MaxErrors \in Nat \ {0} /\ all \in [1..Len(all) -> Warning]
  BY <1>8, LenProperties, RowsAssumption
<1>11. CASE Len(all) < MaxErrors
  <2>1. Warnings(f) = all
    BY <1>4, <1>8, <1>11, SubSeqFull
  <2>2. QED
    BY <1>9, <2>1
<1>12. CASE ~(Len(all) < MaxErrors)
  <2>1. Warnings(f) = SubSeq(all, 1, MaxErrors)
    BY <1>4, <1>12
  <2>2. \A i \in 1..MaxErrors : all[i] \in Warning
    BY <1>10, <1>12
  <2>3. Len(SubSeq(all, 1, MaxErrors)) = MaxErrors
    BY <1>10, <2>2, SubSeqProperties
  <2>4. QED
    BY <2>1, <2>3
<1>13. QED
  BY <1>11, <1>12

\* Of two accepted rows that become one record the later repeats the first of its return,
\* unless their ids met only when they were rewritten.
LEMMA DroppedIsRepeated ==
  ASSUME Represented(file), Accepted(file),
         NEW j \in DOMAIN file.rows, NEW k \in DOMAIN file.rows, j < k,
         NormalizedRow(file, j) = NormalizedRow(file, k)
  PROVE  Repeats(file, columns(file.header), k) \/ IdsMeet
<1> DEFINE id(i) == CellOf(file, i, "return_id")
           at == columns(file.header)
           same == SameReturn(file, at, k)
<1>1. CASE id(j) # id(k)
  <2>1. Rewritten(id(j)) = Rewritten(id(k))
    BY AcceptedRow
  <2>2. id(j) \in Raw("return_id") /\ id(k) \in Raw("return_id")
    BY DEF Raw, CellOf
  <2>3. QED
    BY <1>1, <2>1, <2>2 DEF IdsMeet
<1>2. CASE id(j) = id(k)
  <2>1. DOMAIN file.rows = 1..Len(file.rows) /\ Len(file.rows) \in Nat
    BY LenProperties DEF Represented
  <2>2. /\ \A i \in DOMAIN file.rows : Readable(file, i)
        /\ id(k) # Blank
    BY AcceptedCells DEF Ids
  <2>3. same = {i \in 1..(k - 1) : Readable(file, i) /\ id(k) # Blank /\ id(i) = id(k)}
    BY DEF SameReturn, CellOf
  <2>4. j \in same /\ same \subseteq DOMAIN file.rows /\ same \subseteq Nat
    BY <1>2, <2>1, <2>2, <2>3
  <2>5. Min(same) \in same
    <3> HIDE DEF same
    <3>1. QED
      BY <2>4, LeastNumber
  <2>6. id(Min(same)) = id(k) /\ Min(same) \in DOMAIN file.rows
    BY <2>3, <2>4, <2>5
  <2>7. file.rows[Min(same)] = file.rows[k]
    BY <2>6, SameReturnSameRow
  <2>8. QED
    BY <2>4, <2>7 DEF Repeats
<1>3. QED
  BY <1>1, <1>2

\* A row that was accepted and left out was named by a warning of the upload's answer,
\* unless its id met another only when it was rewritten or the report was full.
THEOREM DroppedIsWarned == Spec => []DropsAreWarned
<1>1. IInv => DropsAreWarned
  <2> SUFFICES ASSUME IInv, final # None, NEW j \in DOMAIN file.rows,
                      NEW k \in DOMAIN file.rows, j < k,
                      NormalizedRow(file, j) = NormalizedRow(file, k)
               PROVE  \/ [row |-> k, code |-> "DUPLICATE_ROW"] \in Range(Warnings(file))
                      \/ IdsMeet
                      \/ Len(Warnings(file)) = MaxErrors
    BY DEF DropsAreWarned
  <2>1. Represented(file) /\ Accepted(file)
    BY StartedIsAccepted DEF IInv, FilesOK
  <2>2. Repeats(file, columns(file.header), k) \/ IdsMeet
    BY <2>1, DroppedIsRepeated
  <2>3. QED
    BY <2>1, <2>2, RepeatedIsWarned
<1>2. QED
  BY <1>1, Invariance, PTL

-----------------------------------------------------------------------------
(* Where the ranked analytics are not deterministic.                       *)

\* Every ranked agent has one category at most, or one with a name that is more
\* frequent than any other and no less frequent than the blank one.
TopsAreClear ==
  snapshot # None =>
    \A sortBy \in {"averageClusterSize", "approvalRate", "manualOverrideRate"} :
      \A agent \in Range(GetRankedAgents(snapshot, 10, sortBy)) :
        TopIsClear(CategoryCounts(agent, snapshot))

\* The order in which topKey walks its map shows exactly when a ranked agent has two
\* named categories tied at the top, or a blank one ahead of all the others; whatever
\* else the snapshot holds, the ranking names the same top category in every request.
THEOREM OnlyTiesAreIndeterminate == Spec => [](AnalyticsDeterministic <=> TopsAreClear)
<1>1. ASSUME IInv
      PROVE  AnalyticsDeterministic <=> TopsAreClear
  <2>1. CASE snapshot = None
    BY <2>1 DEF AnalyticsDeterministic, TopsAreClear
  <2>2. CASE snapshot # None
    <3>1. IsFiniteSet(Range(snapshot))
      <4>1. snapshot \in Seq(NormalizedReturnRecord) /\ Distinct(snapshot)
        BY <1>1, <2>2 DEF IInv, FilesOK, Whole
      <4>2. QED
        BY <4>1, LengthIsSize
    <3>2. \A agent : Cardinality(TopCategories(agent, snapshot)) = 1
                       <=> TopIsClear(CategoryCounts(agent, snapshot))
      BY <3>1, TopCategoryIsClear
    <3>3. QED
      BY <2>2, <3>2 DEF AnalyticsDeterministic, TopsAreClear
  <2>3. QED
    BY <2>1, <2>2
<1>2. QED
  BY <1>1, Invariance, PTL
=============================================================================
