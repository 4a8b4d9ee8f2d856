------------------------------ MODULE MCDataPath ------------------------------
(***************************************************************************)
(* Files of three families: one row, two, or a row four times over, with   *)
(* any cell off the base row; headers wrong in each way; and seven rows    *)
(* spread over two customers and two agents.  Only two small files meet    *)
(* faults, three of them each.                                             *)
(***************************************************************************)
EXTENDS DataPath, TLC

Names == <<"order_id", "customer_id", "return_id", "agent_id", "order_amount",
           "refund_amount", "status", "timestamp", "decision_time_minutes",
           "category", "reason", "evidence", "override">>

Row(n) == <<n, 1, n, 1, 100000, 50000, "APPROVED", "RFC3339", 5000, 1, 1,
            "YES", "NO">>

\* Other cells for the columns of a row.
Others == <<{Blank, -1, 9}, {Blank, -1}, {Blank, -1}, {Blank, 2},
            {Blank, Junk, 0, 4, -10, 600010}, {Blank, Junk, 0, 600000, -10, 600010},
            {Blank, "REJECT", "APPROVE", "OK"},
            {Blank, "2006-01-02", "02.01.2006 15:04", "2006-01-02 15:04"},
            {Blank, Junk, -1000, 5900, 99000}, {Blank, -1, 9}, {Blank, 2, -9},
            {Blank}, {"1"}>>

Variants(n) ==
  {Row(n)} \cup UNION {{[Row(n) EXCEPT ![c] = x] : x \in Others[c]} : c \in 1..13}

\* The header with one name replaced: a field missing, twice, or unnamed.
Headers == {[Names EXCEPT ![c] = name] :
              c \in {1, 9}, name \in {"", "note", "client_id", "status", "proof_provided"}}

\* Seven rows: how many of each customer and agent, and what varies with them.
Spread == {s \in [1..7 -> {<<1, 1>>, <<1, 2>>, <<2, 1>>, <<2, 2>>}] :
             \A i \in 1..6 : s[i][1] * 2 + s[i][2] <= s[i + 1][1] * 2 + s[i + 1][2]}

Wide(s, declined, reasons) ==
  [k \in 1..7 |->
     <<k, s[k][1], k, s[k][2], 100000, IF k > 4 THEN 96000 ELSE 35000,
       IF k \in declined THEN "REJECT" ELSE "APPROVED", "RFC3339", 7000,
       IF reasons THEN k % 2 ELSE 1, IF reasons THEN k % 3 ELSE 1,
       "NO", IF k % 3 = 1 THEN "YES" ELSE "NO">>]

Quiet(header, rows) == [file |-> [header |-> header, rows |-> rows], faults |-> 0]

MCCases ==
  {[file |-> [header |-> Names, rows |-> rows], faults |-> 3] :
     rows \in {<<Row(1)>>, <<Row(1), Row(2)>>}}
  \cup {Quiet(Names, <<a, b>>) : a \in Variants(1),
                                 b \in {Row(1), [Row(1) EXCEPT ![3] = -1]} \cup Variants(2)}
  \cup {Quiet(Names, rows) : rows \in {<<>>, <<Unparsable>>, <<Row(1), <<1>> >>, <<Row(1), Row(2), Row(1)>>,
                                       <<Row(1), Row(1), Row(1), Row(1)>>,
                                       [k \in 1..8 |-> Row(k)]}}
  \cup {Quiet(header, <<Row(1)>>) : header \in Headers}
  \cup {Quiet(Names, Wide(s, declined, reasons)) :
          s \in Spread, declined \in {{}, {2}}, reasons \in BOOLEAN}
=============================================================================
