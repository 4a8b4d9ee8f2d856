------------------------------- MODULE CsvRows -------------------------------
(***************************************************************************)
(* The three readings of one dataset, as functions of its rows: the upload *)
(* service's validation, its normalization, and the load in the relations  *)
(* service.  A cell holds what its text means: an amount or a number of    *)
(* minutes is an integer in thousandths, an identifier or a category an    *)
(* integer (negative: with the prefix, or the capitals, that normalization *)
(* rewrites), a timestamp the name of its layout, a decision or a flag its *)
(* text in capitals.  Header names are as normalizeHeader leaves them.     *)
(***************************************************************************)
EXTENDS Integers, Sequences, FiniteSets, SequencesExt

CONSTANTS
  Blank,      \* a cell without text
  Junk,       \* a cell whose text its column cannot be read from
  Unparsable, \* a row that is not CSV
  MaxRows,    \* the row limit of an upload
  MaxErrors   \* the limit on the issues, and on the warnings, of a report

ASSUME RowsAssumption ==
  Blank \notin Int /\ Blank # Junk /\ MaxRows \in Nat /\ MaxErrors \in Nat \ {0}

headerAliases ==
  [order_id |-> "order_id", purchase_id |-> "order_id",
   customer_id |-> "customer_id", buyer_id |-> "customer_id",
   client_id |-> "customer_id",
   return_id |-> "return_id", refund_request_id |-> "return_id",
   support_agent_id |-> "support_agent_id", agent_id |-> "support_agent_id",
   support_user_id |-> "support_agent_id",
   order_amount |-> "order_amount", purchase_amount |-> "order_amount",
   refund_amount |-> "refund_amount", return_amount |-> "refund_amount",
   decision |-> "decision", status |-> "decision", approval_status |-> "decision",
   timestamp |-> "timestamp", created_at |-> "timestamp",
   decision_time |-> "timestamp",
   decision_time_minutes |-> "decision_time_minutes",
   resolution_minutes |-> "decision_time_minutes",
   product_category |-> "product_category", category |-> "product_category",
   return_reason |-> "return_reason", reason |-> "return_reason",
   evidence_provided |-> "evidence_provided", evidence |-> "evidence_provided",
   has_photo |-> "evidence_provided", proof_provided |-> "evidence_provided",
   manual_override |-> "manual_override", override |-> "manual_override"]

requiredSemanticColumns ==
  {"order_id", "customer_id", "return_id", "support_agent_id", "order_amount",
   "refund_amount", "decision", "timestamp"}

\* The positions of the columns whose names are known.
Known(header) == {i \in DOMAIN header : header[i] \in DOMAIN headerAliases}

\* validateHeaders: no empty name, no name twice, no field twice, none missing.
validateHeaders(header) ==
  /\ header # <<>>
  /\ \A i \in DOMAIN header : header[i] # ""
  /\ \A i, j \in DOMAIN header : header[i] = header[j] => i = j
  /\ \A i, j \in Known(header) :
       headerAliases[header[i]] = headerAliases[header[j]] => i = j
  /\ requiredSemanticColumns \subseteq {headerAliases[header[i]] : i \in Known(header)}

\* The column of each field the file has one for.
columns(header) ==
  LET known == Known(header)
  IN [field \in {headerAliases[header[i]] : i \in known} |->
        CHOOSE i \in known : headerAliases[header[i]] = field]

\* The cell of a field, blank when the file has no column for it.
Cell(row, at, field) == IF field \in DOMAIN at THEN row[at[field]] ELSE Blank

IsNumber(cell) == cell \notin {Blank, Junk}

-----------------------------------------------------------------------------
\* A row the reader parses, with as many cells as the header.
Readable(file, k) ==
  file.rows[k] # Unparsable /\ Len(file.rows[k]) = Len(file.header)
\* The earlier readable rows with this row's return id.
SameReturn(file, at, k) ==
  LET id(j) == Cell(file.rows[j], at, "return_id")
  IN {j \in 1..(k - 1) : Readable(file, j) /\ id(k) # Blank /\ id(j) = id(k)}

\* Mutant: only the row just before is a repeated one.
RepeatsPrevious(file, at, k) ==
  k - 1 \in SameReturn(file, at, k) /\ file.rows[k - 1] = file.rows[k]

\* The row is compared with the first of them only.
Repeats(file, at, k) ==
  LET same == SameReturn(file, at, k)
  IN same # {} /\ file.rows[Min(same)] = file.rows[k]
Conflicts(file, at, k) ==
  LET same == SameReturn(file, at, k)
  IN same # {} /\ file.rows[Min(same)] # file.rows[k]

validDecision(cell) ==
  cell \in {"APPROVED", "APPROVE", "DECLINED", "DECLINE", "REJECTED", "REJECT"}

timestampLayouts == {"RFC3339", "2006-01-02 15:04:05", "2006-01-02",
                     "02.01.2006 15:04", "01/02/2006 15:04"}
\* Mutant: a text that is no number passes.
ValidNumberOrText(cell, field) ==
  IsNumber(cell) => IF field = "order_amount" THEN cell > 0 ELSE cell >= 0

\* validateFiniteNumber: the order amount is positive, the others not negative.
ValidNumber(cell, field) ==
  \/ cell = Blank
  \/ IsNumber(cell) /\ (IF field = "order_amount" THEN cell > 0 ELSE cell >= 0)

\* The row raises no issue.
RowValid(file, at, k) ==
  LET cell(field) == Cell(file.rows[k], at, field)
  IN /\ Readable(file, k)
     /\ \A field \in requiredSemanticColumns : cell(field) # Blank
     /\ ~Conflicts(file, at, k)
     /\ \A field \in {"order_amount", "refund_amount", "decision_time_minutes"} :
          ValidNumber(cell(field), field)
     /\ validDecision(cell("decision"))
     /\ cell("timestamp") \in timestampLayouts

\* validateCSVStream: an upload without an issue is accepted.
Accepted(file) == LET at == columns(file.header) IN
  /\ validateHeaders(file.header)
  /\ Len(file.rows) \in 1..MaxRows
  /\ \A k \in DOMAIN file.rows : RowValid(file, at, k)

RowWarnings(file, at, k) ==
  LET warn(code, holds) == IF holds THEN <<[row |-> k, code |-> code]>> ELSE <<>>
      cell(field) == Cell(file.rows[k], at, field)
  IN warn("DUPLICATE_ROW", Repeats(file, at, k))
     \o warn("ZERO_REFUND_AMOUNT", cell("refund_amount") = 0)
     \o warn("MISSING_OPTIONAL", /\ "decision_time_minutes" \in DOMAIN at
                                 /\ cell("decision_time_minutes") = Blank)

\* The warnings of an accepted file, up to the limit.
Warnings(file) ==
  LET at == columns(file.header)
      all == FlattenSeq([k \in DOMAIN file.rows |-> RowWarnings(file, at, k)])
  IN SubSeq(all, 1, IF Len(all) < MaxErrors THEN Len(all) ELSE MaxErrors)

-----------------------------------------------------------------------------
\* A source prefix, or capitals, are replaced.
Rewritten(cell) == IF cell # Blank /\ cell < 0 THEN -cell ELSE cell

\* Two decimals, in hundredths.
Cents(cell) == (cell + 5) \div 10

normalizeBoolean(cell) == cell \in {"TRUE", "YES", "Y", "1", "T"}
\* Mutant: the short forms are left as they are.
normalizeDecisionInFull(cell) ==
  IF cell \in {"REJECTED", "DENIED"} THEN "DECLINED"
  ELSE IF cell \in {"OK", "ACCEPTED"} THEN "APPROVED" ELSE cell

normalizeDecision(cell) ==
  IF cell \in {"APPROVED", "APPROVE", "OK", "ACCEPTED", "ACCEPT", "YES"}
  THEN "APPROVED"
  ELSE IF cell \in {"DECLINED", "DECLINE", "REJECTED", "REJECT", "DENIED",
                    "DENY", "NO"}
       THEN "DECLINED" ELSE cell

\* A layout that is not one of these is kept as it is.
normalizeTimestamp(cell) ==
  IF cell \in {"unix", "RFC3339", "2006-01-02 15:04:05", "2006-01-02 15:04",
               "01/02/2006 15:04", "01/02/2006 15:04:05", "02.01.2006 15:04",
               "02.01.2006 15:04:05"}
  THEN "RFC3339" ELSE cell

\* Whole minutes, cut off; 60 when there are none.
Minutes(cell) == IF cell = Blank THEN 60 ELSE cell \div 1000

\* The row can be normalized: it is whole and its numbers are numbers.
Normalizable(file, at, k) ==
  /\ Readable(file, k)
  /\ IsNumber(Cell(file.rows[k], at, "order_amount"))
  /\ IsNumber(Cell(file.rows[k], at, "refund_amount"))
  /\ Cell(file.rows[k], at, "decision_time_minutes") # Junk

normalizeCSVRow(row, at) == LET cell(field) == Cell(row, at, field) IN
  [orderId |-> Rewritten(cell("order_id")),
   customerId |-> Rewritten(cell("customer_id")),
   returnId |-> Rewritten(cell("return_id")),
   agentId |-> cell("support_agent_id"),
   orderAmount |-> Cents(cell("order_amount")),
   refundAmount |-> Cents(cell("refund_amount")),
   category |-> Rewritten(cell("product_category")),
   reason |-> cell("return_reason"),
   evidence |-> normalizeBoolean(cell("evidence_provided")),
   status |-> normalizeDecision(cell("decision")),
   override |-> normalizeBoolean(cell("manual_override")),
   minutes |-> Minutes(cell("decision_time_minutes")),
   timestamp |-> normalizeTimestamp(cell("timestamp"))]

NormalizedRow(file, k) == normalizeCSVRow(file.rows[k], columns(file.header))

\* What the rows of an accepted file become.
NormalizedReturnRecord ==
  [orderId: Int, customerId: Int, returnId: Int, agentId: Int,
   orderAmount: Nat, refundAmount: Nat, category: Int \cup {Blank},
   reason: Int \cup {Blank}, evidence: BOOLEAN,
   status: {"APPROVED", "DECLINED"}, override: BOOLEAN, minutes: Nat,
   timestamp: {"RFC3339", "2006-01-02"}]

\* A file as this module represents it: its rows are a sequence, and a cell is
\* what its column is read as.
Represented(file) ==
  /\ file.rows \in Seq(Range(file.rows))
  /\ validateHeaders(file.header) =>
       \A k \in DOMAIN file.rows : Readable(file, k) =>
         LET cell(field) == Cell(file.rows[k], columns(file.header), field)
         IN /\ \A field \in {"order_id", "customer_id", "return_id", "support_agent_id",
                             "product_category", "return_reason"} :
                 cell(field) \in Int \cup {Blank}
            /\ \A field \in {"order_amount", "refund_amount",
                             "decision_time_minutes"} :
                 cell(field) \in Int \cup {Blank, Junk}

-----------------------------------------------------------------------------
\* validateRecords: identifiers are there, and no return is there twice.
validateRecords(records) ==
  /\ records # <<>>
  /\ \A r \in Range(records) :
       Blank \notin {r.returnId, r.customerId, r.orderId, r.agentId}
  /\ \A i, j \in DOMAIN records :
       records[i].returnId = records[j].returnId => i = j

\* loadDatasetFromPath: the records are valid and as many as announced.
Loads(records, expectedCount) ==
  validateRecords(records) /\ (expectedCount > 0 => Len(records) = expectedCount)
=============================================================================
