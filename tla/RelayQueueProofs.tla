-------------------------- MODULE RelayQueueProofs --------------------------
(***************************************************************************)
(* For any receipts, orders, coroutines and bounds: the relay creates one  *)
(* order per order of the platform; a row is marked sent only when the POS *)
(* has its order, provided that no two orders share both their last digits *)
(* and their dishes; and a row is its coroutine's from claim to mark,      *)
(* provided that no live POST outlasts the claim timeout.                  *)
(***************************************************************************)
EXTENDS RelayQueue, FiniteSetTheorems, SequenceTheorems, TLAPS

\* The shapes of a coroutine's state.
LEMMA ProcShape ==
  ASSUME NEW x \in ProcStates
  PROVE  /\ x.at \in {"idle", "reading", "stored", "posting", "answered"}
         /\ x.at = "reading" => x.bytes \in Receipts
         /\ x.at = "stored" => x.id \in DOMAIN rows
         /\ x.at = "posting" => x.id \in DOMAIN rows /\ x.n \in RequestIds
         /\ x.at = "answered" => x.id \in DOMAIN rows /\ x.answer \in Answers
<1>1. CASE x = Idle
  BY <1>1 DEF Idle
<1>2. ASSUME NEW r \in Receipts, x = Reading(r)
      PROVE  x.at = "reading" /\ x.bytes \in Receipts
  BY <1>2 DEF Reading
<1>3. ASSUME NEW i \in DOMAIN rows, x = Stored(i)
      PROVE  x.at = "stored" /\ x.id \in DOMAIN rows
  BY <1>3 DEF Stored
<1>4. ASSUME NEW i \in DOMAIN rows, NEW n \in RequestIds, x = Posting(i, n)
      PROVE  x.at = "posting" /\ x.id \in DOMAIN rows /\ x.n \in RequestIds
  BY <1>4 DEF Posting
<1>5. ASSUME NEW i \in DOMAIN rows, NEW a \in Answers, x = Answered(i, a)
      PROVE  x.at = "answered" /\ x.id \in DOMAIN rows /\ x.answer \in Answers
  BY <1>5 DEF Answered
<1> QED BY <1>1, <1>2, <1>3, <1>4, <1>5 DEF ProcStates

LEMMA RowsSet ==
  ASSUME NEW s \in Seq(RowRecord), NEW i \in DOMAIN s, NEW x \in RowRecord
  PROVE  LET t == [s EXCEPT ![i] = x]
         IN  /\ t \in Seq(RowRecord) /\ DOMAIN t = DOMAIN s
             /\ t[i] = x /\ \A j \in DOMAIN s \ {i} : t[j] = s[j]
BY ExceptSeq

LEMMA SeqGrows ==
  ASSUME NEW S, NEW s \in Seq(S), NEW x \in S
  PROVE  LET t == Append(s, x)
         IN  /\ t \in Seq(S) /\ DOMAIN t = DOMAIN s \union {Len(s) + 1}
             /\ Len(s) + 1 \notin DOMAIN s /\ t[Len(s) + 1] = x
             /\ \A i \in DOMAIN s : t[i] = s[i]
<1>1. DOMAIN s = 1 .. Len(s) /\ Len(s) \in Nat
  BY LenProperties
<1>2. DOMAIN Append(s, x) = 1 .. Len(s) + 1
  BY <1>1, AppendProperties
<1> QED BY <1>1, <1>2, AppendProperties

\* A coroutine's state stays one when rows are added.
LEMMA StatesGrow ==
  ASSUME DOMAIN rows \subseteq DOMAIN rows' PROVE ProcStates \subseteq ProcStates'
BY DEF ProcStates

LEMMA ProcSet ==
  ASSUME TypeOK, DOMAIN rows \subseteq DOMAIN rows', NEW p \in Procs, NEW x \in ProcStates',
         proc' = [proc EXCEPT ![p] = x]
  PROVE  proc' \in [Procs -> ProcStates']
BY StatesGrow DEF TypeOK

LEMMA StatesAre ==
  /\ Idle \in ProcStates
  /\ \A r \in Receipts : Reading(r) \in ProcStates
  /\ \A i \in DOMAIN rows : /\ Stored(i) \in ProcStates
                            /\ \A n \in RequestIds : Posting(i, n) \in ProcStates
                            /\ \A a \in Answers : Answered(i, a) \in ProcStates
BY DEF ProcStates

-----------------------------------------------------------------------------
(* What a step does to the rows: their receipts never change, none is lost.*)

RowsKept ==
  /\ rows' \in Seq(RowRecord)
  /\ DOMAIN rows \subseteq DOMAIN rows'
  /\ \A i \in DOMAIN rows : rows'[i].bytes = rows[i].bytes

\* Row i becomes x, a row of the same receipt.
LEMMA RowChanged ==
  ASSUME TypeOK, NEW i \in DOMAIN rows, NEW x \in RowRecord, x.bytes = rows[i].bytes,
         rows' = [rows EXCEPT ![i] = x]
  PROVE  /\ RowsKept /\ DOMAIN rows' = DOMAIN rows /\ rows'[i] = x
         /\ \A j \in DOMAIN rows \ {i} : rows'[j] = rows[j]
<1>1. rows \in Seq(RowRecord)
  BY DEF TypeOK
<1> QED BY <1>1, RowsSet DEF RowsKept

LEMMA RowTyped ==
  ASSUME TypeOK, NEW i \in DOMAIN rows
  PROVE  rows[i] \in RowRecord
BY LenProperties, ElementOfSeq DEF TypeOK

LEMMA ClaimRows ==
  ASSUME TypeOK, NEW p \in Procs, NEW i \in DOMAIN rows, Claim(p, i)
  PROVE  /\ RowsKept /\ DOMAIN rows' = DOMAIN rows
         /\ rows[i].status = "PENDING"
         /\ rows'[i] = [rows[i] EXCEPT !.status = "SENDING", !.stale = FALSE]
         /\ \A j \in DOMAIN rows \ {i} : rows'[j] = rows[j]
<1> DEFINE x == [rows[i] EXCEPT !.status = "SENDING", !.stale = FALSE]
<1>1. x \in RowRecord /\ x.bytes = rows[i].bytes
  BY RowTyped DEF RowRecord, Statuses
<1>2. rows' = [rows EXCEPT ![i] = x] /\ rows[i].status = "PENDING"
  BY DEF Claim
<1> HIDE DEF x
<1>3. RowsKept /\ DOMAIN rows' = DOMAIN rows /\ rows'[i] = x
        /\ \A j \in DOMAIN rows \ {i} : rows'[j] = rows[j]
  BY <1>1, <1>2, RowChanged
<1> QED BY <1>2, <1>3 DEF x

LEMMA ReleaseRows ==
  ASSUME TypeOK, rows' = ReleaseStaleClaims
  PROVE  /\ RowsKept /\ DOMAIN rows' = DOMAIN rows
         /\ \A i \in DOMAIN rows :
              rows'[i] = IF rows[i].status = "SENDING" /\ rows[i].stale
                           THEN [rows[i] EXCEPT !.status = "PENDING"] ELSE rows[i]
<1>1. /\ DOMAIN rows' = DOMAIN rows
      /\ rows' = [i \in DOMAIN rows |-> rows'[i]]
      /\ \A i \in DOMAIN rows :
           rows'[i] = IF rows[i].status = "SENDING" /\ rows[i].stale
                        THEN [rows[i] EXCEPT !.status = "PENDING"] ELSE rows[i]
  BY DEF ReleaseStaleClaims
<1>2. ASSUME NEW i \in DOMAIN rows
      PROVE  rows'[i] \in RowRecord /\ rows'[i].bytes = rows[i].bytes
  BY <1>1, RowTyped DEF RowRecord, Statuses
<1>3. DOMAIN rows = 1 .. Len(rows) /\ Len(rows) \in Nat
  BY LenProperties DEF TypeOK
<1>4. rows' \in [1 .. Len(rows) -> RowRecord]
  BY <1>1, <1>2, <1>3
<1>5. rows' \in Seq(RowRecord)
  BY <1>3, <1>4, SeqDef
<1> QED BY <1>1, <1>2, <1>5 DEF RowsKept

LEMMA MarkedRow ==
  ASSUME NEW r \in RowRecord, NEW a \in Answers
  PROVE  LET x == MarkRow(r, a)
         IN  /\ x \in RowRecord /\ x.bytes = r.bytes
             /\ x.status \in {"SENT", "BLOCKED", "PENDING"}
             /\ x.status = "SENT" => a = "ok"
<1>1. CASE a = "ok"
  BY <1>1 DEF MarkRow, RowRecord, Statuses
<1>2. CASE a = "terminal"
  <2>1. MarkRow(r, a) = [r EXCEPT !.status = "BLOCKED", !.due = TRUE]
    BY <1>2 DEF MarkRow
  <2> QED BY <2>1 DEF RowRecord, Statuses
<1>3. CASE a = "transient"
  <2>1. MarkRow(r, a) = [r EXCEPT !.status = "PENDING", !.due = FALSE]
    BY <1>3 DEF MarkRow
  <2> QED BY <2>1 DEF RowRecord, Statuses
<1> QED BY <1>1, <1>2, <1>3 DEF Answers

LEMMA MarkRows ==
  ASSUME TypeOK, NEW p \in Procs, MarkOrder(p)
  PROVE  LET i == proc[p].id
         IN  /\ RowsKept /\ DOMAIN rows' = DOMAIN rows
             /\ i \in DOMAIN rows /\ proc[p].answer \in Answers
             /\ rows'[i] = MarkRow(rows[i], proc[p].answer)
             /\ \A j \in DOMAIN rows \ {i} : rows'[j] = rows[j]
<1> DEFINE i == proc[p].id
           x == MarkRow(rows[i], proc[p].answer)
<1>1. i \in DOMAIN rows /\ proc[p].answer \in Answers
  BY ProcShape DEF TypeOK, MarkOrder
<1>2. x \in RowRecord /\ x.bytes = rows[i].bytes
  BY <1>1, RowTyped, MarkedRow
<1>3. rows' = [rows EXCEPT ![i] = x]
  BY DEF MarkOrder
<1> HIDE DEF x, i
<1>4. RowsKept /\ DOMAIN rows' = DOMAIN rows /\ rows'[i] = x
        /\ \A j \in DOMAIN rows \ {i} : rows'[j] = rows[j]
  BY <1>1, <1>2, <1>3, RowChanged
<1> QED BY <1>1, <1>4 DEF x, i

LEMMA ReadingsAre ==
  ASSUME NEW r \in Receipts, NEW k \in Readings(r)
  PROVE  /\ k.platform \in {"shopee", "unknown"} /\ k.text \in BOOLEAN
         /\ k.ref \in Orders \union {NoRef}
<1>1. k \in {Text2Row(r), Ocr2Row(r), Unread}
  BY DEF Readings
<1>2. OrderOf[r] \in Orders
  BY NamesAssumption
<1>3. CASE k = Text2Row(r)
  BY <1>3 DEF Text2Row
<1>4. CASE k = Ocr2Row(r)
  BY <1>2, <1>4 DEF Ocr2Row
<1>5. CASE k = Unread
  BY <1>5 DEF Unread
<1> QED BY <1>1, <1>3, <1>4, <1>5

\* The actions that touch one row outside any coroutine, and what they make of it.
LEMMA OneRowRows ==
  ASSUME TypeOK, NEW i \in DOMAIN rows,
         \/ BackoffEnds(i) \/ ClaimExpires(i) \/ Recover(i)
         \/ RetryOrderNow(i) \/ DismissWaitingOrder(i)
  PROVE  /\ RowsKept /\ DOMAIN rows' = DOMAIN rows
         /\ \A j \in DOMAIN rows \ {i} : rows'[j] = rows[j]
         /\ rows[i].status = "SENDING" =>
              \/ rows'[i] = rows[i]
              \/ ClaimExpires(i) /\ rows'[i] = [rows[i] EXCEPT !.stale = TRUE]
         /\ rows'[i].status \in {"SENDING", "SENT"} => rows'[i].status = rows[i].status
<1>0. rows[i] \in RowRecord
  BY RowTyped
<1>1. ASSUME NEW x \in RowRecord, x.bytes = rows[i].bytes, rows' = [rows EXCEPT ![i] = x]
      PROVE  /\ RowsKept /\ DOMAIN rows' = DOMAIN rows
             /\ \A j \in DOMAIN rows \ {i} : rows'[j] = rows[j]
             /\ rows'[i] = x
  BY <1>1, RowChanged
<1>2. CASE BackoffEnds(i)
  <2> DEFINE x == [rows[i] EXCEPT !.due = TRUE]
  <2>1. x \in RowRecord /\ x.bytes = rows[i].bytes /\ x.status = "PENDING"
    BY <1>0, <1>2 DEF RowRecord, BackoffEnds
  <2>2. rows' = [rows EXCEPT ![i] = x] /\ rows[i].status = "PENDING"
    BY <1>2 DEF BackoffEnds
  <2> HIDE DEF x
  <2> QED BY <1>1, <2>1, <2>2
<1>3. CASE ClaimExpires(i)
  <2> DEFINE x == [rows[i] EXCEPT !.stale = TRUE]
  <2>1. x \in RowRecord /\ x.bytes = rows[i].bytes /\ x.status = "SENDING"
    BY <1>0, <1>3 DEF RowRecord, ClaimExpires
  <2>2. rows' = [rows EXCEPT ![i] = x] /\ rows[i].status = "SENDING"
    BY <1>3 DEF ClaimExpires
  <2>3. /\ RowsKept /\ DOMAIN rows' = DOMAIN rows
        /\ \A j \in DOMAIN rows \ {i} : rows'[j] = rows[j]
        /\ rows'[i] = x
    BY <1>1, <2>1, <2>2
  <2> QED BY <1>3, <2>1, <2>2, <2>3
<1>4. CASE Recover(i)
  <2>1. CASE UNCHANGED rows
    BY <2>1 DEF RowsKept, TypeOK
  <2>2. ASSUME NEW k \in Readings(rows[i].bytes), k.platform = "shopee",
               rows[i].status \in {"UNCLASSIFIED", "PENDING"},
               rows' = [rows EXCEPT ![i].platform = k.platform,
                                    ![i].text = k.text \/ rows[i].text,
                                    ![i].ref = IF k.text THEN k.ref ELSE rows[i].ref,
                                    ![i].status = "PENDING", ![i].due = TRUE]
        PROVE  /\ RowsKept /\ DOMAIN rows' = DOMAIN rows
               /\ \A j \in DOMAIN rows \ {i} : rows'[j] = rows[j]
               /\ rows'[i].status = "PENDING"
    <3> DEFINE x == [rows[i] EXCEPT !.platform = k.platform, !.text = k.text \/ rows[i].text,
                                    !.ref = IF k.text THEN k.ref ELSE rows[i].ref,
                                    !.status = "PENDING", !.due = TRUE]
    <3>1. k.text \in BOOLEAN /\ k.ref \in Orders \union {NoRef}
      BY <1>0, ReadingsAre DEF RowRecord
    <3>2. x \in RowRecord /\ x.bytes = rows[i].bytes /\ x.status = "PENDING"
      BY <1>0, <2>2, <3>1 DEF RowRecord, Statuses
    <3>3. rows' = [rows EXCEPT ![i] = x]
      BY <2>2
    <3> HIDE DEF x
    <3> QED BY <1>1, <3>2, <3>3
  <2> QED BY <1>4, <2>1, <2>2 DEF Recover
<1>5. CASE RetryOrderNow(i)
  <2> DEFINE x == [rows[i] EXCEPT !.status = "PENDING", !.due = TRUE]
  <2>1. x \in RowRecord /\ x.bytes = rows[i].bytes /\ x.status = "PENDING"
    BY <1>0 DEF RowRecord, Statuses
  <2>2. rows' = [rows EXCEPT ![i] = x] /\ rows[i].status \in {"PENDING", "BLOCKED"}
    BY <1>5 DEF RetryOrderNow
  <2> HIDE DEF x
  <2> QED BY <1>1, <2>1, <2>2
<1>6. CASE DismissWaitingOrder(i)
  <2> DEFINE x == [rows[i] EXCEPT !.status = "DISMISSED"]
  <2>1. x \in RowRecord /\ x.bytes = rows[i].bytes /\ x.status = "DISMISSED"
    BY <1>0 DEF RowRecord, Statuses
  <2>2. rows' = [rows EXCEPT ![i] = x] /\ rows[i].status \in Dismissible
    BY <1>6 DEF DismissWaitingOrder
  <2> HIDE DEF x
  <2> QED BY <1>1, <2>1, <2>2 DEF Dismissible
<1> QED BY <1>2, <1>3, <1>4, <1>5, <1>6

LEMMA StoreRows ==
  ASSUME TypeOK, NEW c \in Conns, StoreReceipt(c)
  PROVE  /\ RowsKept
         /\ \A i \in DOMAIN rows : rows'[i] = rows[i]
         /\ \A i \in DOMAIN rows' \ DOMAIN rows : rows'[i].status \in {"UNCLASSIFIED", "PENDING"}
         /\ proc' = [proc EXCEPT ![c] = proc'[c]]
         /\ proc'[c] = Idle \/ \E i \in DOMAIN rows' : proc'[c] = Stored(i)
         /\ faults' \in 0 .. MaxFaults /\ faults <= faults'
<1>0. proc[c].bytes \in Receipts /\ c \in Procs /\ proc \in [Procs -> ProcStates]
  BY ProcShape DEF TypeOK, StoreReceipt, Procs
<1>1. PICK k \in Readings(proc[c].bytes), enabled \in BOOLEAN :
        LET r == proc[c].bytes
            held == k.platform = "unknown" \/ ~enabled
            row == [bytes |-> r, ref |-> k.ref, text |-> k.text, platform |-> k.platform,
                    status |-> IF held THEN "UNCLASSIFIED" ELSE "PENDING",
                    stale |-> FALSE, due |-> TRUE]
        IN  /\ IF held THEN Fault ELSE UNCHANGED faults
            /\ \/ proc' = [proc EXCEPT ![c] = Idle] /\ UNCHANGED rows
               \/ /\ rows' = Append(rows, row)
                  /\ proc' = [proc EXCEPT ![c] = IF held THEN Idle ELSE Stored(Len(rows) + 1)]
  BY DEF StoreReceipt
<1> DEFINE held == k.platform = "unknown" \/ ~enabled
           row == [bytes |-> proc[c].bytes, ref |-> k.ref, text |-> k.text,
                   platform |-> k.platform, status |-> IF held THEN "UNCLASSIFIED" ELSE "PENDING",
                   stale |-> FALSE, due |-> TRUE]
<1>2. row \in RowRecord /\ row.status \in {"UNCLASSIFIED", "PENDING"}
  BY <1>0, ReadingsAre DEF RowRecord, Statuses
<1>3. faults' \in 0 .. MaxFaults /\ faults <= faults'
  BY <1>1, BoundsAssumption DEF Fault, TypeOK
<1>4. CASE proc' = [proc EXCEPT ![c] = Idle] /\ UNCHANGED rows
  BY <1>0, <1>3, <1>4 DEF RowsKept, TypeOK
<1>5. CASE /\ rows' = Append(rows, row)
           /\ proc' = [proc EXCEPT ![c] = IF held THEN Idle ELSE Stored(Len(rows) + 1)]
  <2> HIDE DEF row, held
  <2>1. rows \in Seq(RowRecord)
    BY DEF TypeOK
  <2>2. /\ rows' \in Seq(RowRecord) /\ DOMAIN rows' = DOMAIN rows \union {Len(rows) + 1}
        /\ Len(rows) + 1 \notin DOMAIN rows /\ rows'[Len(rows) + 1] = row
        /\ \A i \in DOMAIN rows : rows'[i] = rows[i]
    BY <1>2, <1>5, <2>1, SeqGrows
  <2>3. RowsKept
    BY <2>2 DEF RowsKept
  <2>4. \A i \in DOMAIN rows' \ DOMAIN rows : rows'[i].status \in {"UNCLASSIFIED", "PENDING"}
    BY <1>2, <2>2
  <2>5. proc'[c] = Idle \/ proc'[c] = Stored(Len(rows) + 1)
    BY <1>0, <1>5
  <2>6. proc' = [proc EXCEPT ![c] = proc'[c]]
    BY <1>0, <1>5
  <2> QED BY <1>3, <2>2, <2>3, <2>4, <2>5, <2>6
<1> QED BY <1>1, <1>4, <1>5

-----------------------------------------------------------------------------
(* Type correctness.                                                       *)

\* What is left to check of a step that keeps the rows.
LEMMA TypeStep ==
  ASSUME TypeOK, RowsKept, NEW p \in Procs, NEW x \in ProcStates',
         proc' = proc \/ proc' = [proc EXCEPT ![p] = x],
         todo' \subseteq DOMAIN rows \/ todo' \subseteq DOMAIN rows',
         recovery' \subseteq DOMAIN rows,
         requests' \subseteq Request, pos' \in Seq(PosOrder),
         prints' \in 0 .. MaxPrints, faults' \in 0 .. MaxFaults, presses' \in 0 .. MaxOperator
  PROVE  TypeOK'
<1>1. proc' \in [Procs -> ProcStates']
  BY ProcSet, StatesGrow DEF RowsKept, TypeOK
<1> QED BY <1>1 DEF TypeOK, RowsKept

LEMMA PostTyped ==
  ASSUME TypeOK, RowsKept, NEW p \in Procs, NEW i \in DOMAIN rows, Post(p, i)
  PROVE  /\ Posting(i, <<p, faults>>) \in ProcStates'
         /\ proc' = [proc EXCEPT ![p] = Posting(i, <<p, faults>>)]
         /\ requests' \subseteq Request
<1>1. <<p, faults>> \in RequestIds
  BY DEF RequestIds, TypeOK
<1>2. Posting(i, <<p, faults>>) \in ProcStates'
  BY <1>1 DEF RowsKept, ProcStates, RequestIds
<1>3. OrderOf[rows[i].bytes] \in Orders
  BY RowTyped, NamesAssumption DEF RowRecord
<1>4. [n |-> <<p, faults>>, order |-> OrderOf[rows[i].bytes], seen |-> "nothing"] \in Request
  BY <1>1, <1>3 DEF Request
<1>5. requests' \subseteq Request
  BY <1>4 DEF Post, TypeOK
<1> QED BY <1>2, <1>5 DEF Post

\* A request that ends leaves the others, and one coroutine at most reads it.
LEMMA FinishTyped ==
  ASSUME TypeOK, NEW q \in requests, NEW a \in Answers, Finish(q, a)
  PROVE  requests' \subseteq Request /\ proc' \in [Procs -> ProcStates]
<1>1. ASSUME NEW p \in Procs, proc[p].at = "posting"
      PROVE  Answered(proc[p].id, a) \in ProcStates
  BY <1>1, ProcShape, StatesAre DEF TypeOK
<1> QED BY <1>1 DEF Finish, TypeOK

LEMMA Unmoved ==
  ASSUME TypeOK, UNCHANGED rows
  PROVE  RowsKept /\ DOMAIN rows' = DOMAIN rows /\ ProcStates' = ProcStates
BY DEF TypeOK, RowsKept, ProcStates

LEMMA AgentTyped ==
  ASSUME TypeOK, Agent PROVE TypeOK' /\ RowsKept
<1>1. ASSUME NEW c \in Conns, StoreReceipt(c) PROVE TypeOK' /\ RowsKept
  <2>1. c \in Procs
    BY DEF Procs
  <2>2. proc'[c] \in ProcStates'
    BY <1>1, StoreRows DEF ProcStates
  <2>3. UNCHANGED <<todo, recovery, requests, pos, prints, presses>>
    BY <1>1 DEF StoreReceipt
  <2> QED BY <1>1, <2>1, <2>2, <2>3, StoreRows, TypeStep DEF TypeOK
<1>2. ASSUME NEW p \in Procs, NEW i \in DOMAIN rows, Claim(p, i),
             todo' \subseteq todo, UNCHANGED <<recovery, pos, bounds>>
      PROVE  TypeOK' /\ RowsKept
  <2>1. RowsKept /\ Post(p, i)
    BY <1>2, ClaimRows DEF Claim
  <2> QED BY <1>2, <2>1, PostTyped, TypeStep DEF TypeOK, bounds
<1>3. ASSUME NEW c \in Conns, DispatchNew(c) PROVE TypeOK' /\ RowsKept
  <2>1. c \in Procs /\ proc[c].id \in DOMAIN rows
    BY <1>3, ProcShape DEF Procs, TypeOK, DispatchNew
  <2>2. CASE Claim(c, proc[c].id)
    BY <1>2, <1>3, <2>1, <2>2 DEF DispatchNew
  <2>3. CASE UNCHANGED <<rows, requests>> /\ proc' = [proc EXCEPT ![c] = Idle]
    BY <1>3, <2>1, <2>3, Unmoved, StatesAre, TypeStep DEF DispatchNew, TypeOK, bounds
  <2> QED BY <1>3, <2>2, <2>3 DEF DispatchNew
<1>4. ASSUME LoopRound PROVE TypeOK' /\ RowsKept
  <2>1. RowsKept /\ DOMAIN rows' = DOMAIN rows /\ UNCHANGED <<proc, recovery, requests, pos, bounds>>
    BY <1>4, ReleaseRows DEF LoopRound
  <2>2. todo' \subseteq DOMAIN rows'
    BY <1>4 DEF LoopRound, PendingOrders
  <2>3. Idle \in ProcStates' /\ Loop \in Procs
    BY DEF ProcStates, Procs
  <2> QED BY <2>1, <2>2, <2>3, TypeStep DEF TypeOK, bounds
<1>5. ASSUME LoopNext PROVE TypeOK' /\ RowsKept
  <2>1. PICK i \in todo :
          /\ todo' = todo \ {i}
          /\ Claim(Loop, i) \/ UNCHANGED <<rows, proc, requests>>
    BY <1>5 DEF LoopNext
  <2>2. UNCHANGED <<recovery, pos, bounds>> /\ i \in DOMAIN rows /\ Loop \in Procs
    BY <1>5, <2>1 DEF LoopNext, TypeOK, Procs
  <2>3. CASE Claim(Loop, i)
    BY <1>2, <2>1, <2>2, <2>3
  <2>4. CASE UNCHANGED <<rows, proc, requests>>
    BY <2>1, <2>2, <2>4, Unmoved, StatesAre, TypeStep DEF TypeOK, bounds
  <2> QED BY <2>1, <2>3, <2>4
<1>6. ASSUME NEW p \in Procs, GiveUp(p) PROVE TypeOK' /\ RowsKept
  <2>1. Answered(proc[p].id, "transient") \in ProcStates
    BY <1>6, ProcShape, StatesAre DEF GiveUp, TypeOK, Answers
  <2>2. requests' \subseteq requests /\ faults' \in 0 .. MaxFaults
    BY <1>6, BoundsAssumption DEF GiveUp, Fault, TypeOK
  <2>3. UNCHANGED <<rows, todo, recovery, pos, prints, presses>>
        /\ proc' = [proc EXCEPT ![p] = Answered(proc[p].id, "transient")]
    BY <1>6 DEF GiveUp
  <2> QED BY <2>1, <2>2, <2>3, Unmoved, TypeStep DEF TypeOK
<1>7. ASSUME NEW p \in Procs, MarkOrder(p) PROVE TypeOK' /\ RowsKept
  <2>1. RowsKept /\ UNCHANGED <<todo, recovery, requests, pos, bounds>>
        /\ proc' = [proc EXCEPT ![p] = Idle]
    BY <1>7, MarkRows DEF MarkOrder
  <2>2. Idle \in ProcStates'
    BY DEF ProcStates
  <2> QED BY <2>1, <2>2, TypeStep DEF TypeOK, bounds
<1>8. ASSUME NEW i \in recovery, Recover(i) PROVE TypeOK' /\ RowsKept
  <2>1. i \in DOMAIN rows
    BY DEF TypeOK
  <2>2. RowsKept /\ UNCHANGED <<proc, todo, requests, pos, bounds>> /\ recovery' \subseteq recovery
    BY <1>8, <2>1, OneRowRows DEF Recover
  <2>3. Idle \in ProcStates' /\ Loop \in Procs
    BY DEF ProcStates, Procs
  <2> QED BY <2>2, <2>3, TypeStep DEF TypeOK, bounds
<1> QED BY <1>1, <1>3, <1>4, <1>5, <1>6, <1>7, <1>8 DEF Agent

LEMMA ClockStaffTyped ==
  ASSUME TypeOK, Clock \/ Staff PROVE TypeOK' /\ RowsKept
<1>1. Idle \in ProcStates' /\ Loop \in Procs
  BY DEF ProcStates, Procs
<1>2. ASSUME NEW i \in DOMAIN rows, BackoffEnds(i) \/ ClaimExpires(i)
      PROVE  TypeOK' /\ RowsKept
  <2>1. RowsKept /\ UNCHANGED <<proc, todo, recovery, requests, pos, bounds>>
    BY <1>2, OneRowRows DEF BackoffEnds, ClaimExpires
  <2> QED BY <1>1, <2>1, TypeStep DEF TypeOK, bounds
<1>3. ASSUME Press PROVE presses' \in 0 .. MaxOperator
  BY <1>3, BoundsAssumption DEF Press, TypeOK
<1>4. ASSUME NEW i \in DOMAIN rows, RetryOrderNow(i) \/ DismissWaitingOrder(i)
      PROVE  TypeOK' /\ RowsKept
  <2>1. RowsKept /\ UNCHANGED <<proc, todo, recovery, requests, pos, prints, faults>> /\ Press
    BY <1>4, OneRowRows DEF RetryOrderNow, DismissWaitingOrder
  <2> QED BY <1>1, <1>3, <2>1, TypeStep DEF TypeOK
<1>5. ASSUME NEW o \in Orders, EnterByHand(o) PROVE TypeOK' /\ RowsKept
  <2>1. UNCHANGED <<rows, proc, todo, recovery, requests, prints, faults>> /\ Press
    BY <1>5 DEF EnterByHand
  <2>2. PICK s \in {Items[o], "other"} :
          pos' = Append(pos, [order |-> o, by |-> "cashier", items |-> s])
    BY <1>5 DEF EnterByHand
  <2>3. [order |-> o, by |-> "cashier", items |-> s] \in PosOrder
    BY DEF PosOrder
  <2>4. pos' \in Seq(PosOrder)
    BY <2>2, <2>3, SeqGrows DEF TypeOK
  <2> QED BY <1>1, <1>3, <2>1, <2>4, Unmoved, TypeStep DEF TypeOK
<1> QED BY <1>2, <1>4, <1>5 DEF Clock, Staff

LEMMA ServerTyped ==
  ASSUME TypeOK, Server PROVE TypeOK' /\ RowsKept
<1>1. UNCHANGED <<rows, todo, recovery, prints, presses>>
  BY DEF Server, LookUp, Create, Refuse, bounds
<1>2. ASSUME requests' \subseteq Request, proc' \in [Procs -> ProcStates],
             pos' \in Seq(PosOrder), faults' \in 0 .. MaxFaults
      PROVE  TypeOK' /\ RowsKept
  BY <1>1, <1>2, Unmoved DEF TypeOK
<1>3. ASSUME NEW q \in requests, LookUp(q) PROVE TypeOK' /\ RowsKept
  <2>1. UNCHANGED <<pos, bounds>>
    BY <1>3 DEF LookUp
  <2>2. CASE requests' = (requests \ {q}) \union {[q EXCEPT !.seen = "clear"]} /\ UNCHANGED proc
    <3>1. [q EXCEPT !.seen = "clear"] \in Request
      BY DEF TypeOK, Request
    <3> QED BY <1>2, <2>1, <2>2, <3>1 DEF TypeOK, bounds
  <2>3. ASSUME NEW a \in Answers, Finish(q, a) PROVE TypeOK' /\ RowsKept
    BY <1>2, <2>1, <2>3, FinishTyped DEF TypeOK, bounds
  <2> QED BY <1>3, <2>2, <2>3 DEF LookUp, Answers
<1>4. ASSUME NEW q \in requests, Create(q) PROVE TypeOK' /\ RowsKept
  <2>1. q.order \in Orders
    BY DEF TypeOK, Request
  <2>2. [order |-> q.order, by |-> "relay", items |-> Items[q.order]] \in PosOrder
    BY <2>1 DEF PosOrder
  <2>3. pos' \in Seq(PosOrder)
    <3>1. pos \in Seq(PosOrder)
      BY DEF TypeOK
    <3>2. \/ pos' = pos
          \/ pos' = Append(pos, [order |-> q.order, by |-> "relay", items |-> Items[q.order]])
      BY <1>4 DEF Create, CreateOrder
    <3> QED BY <2>2, <3>1, <3>2, SeqGrows
  <2>4. Finish(q, "ok") /\ UNCHANGED bounds
    BY <1>4 DEF Create
  <2> QED BY <1>2, <2>3, <2>4, FinishTyped DEF TypeOK, bounds, Answers
<1>5. ASSUME NEW q \in requests, Refuse(q) PROVE TypeOK' /\ RowsKept
  <2>1. faults' \in 0 .. MaxFaults /\ UNCHANGED pos
    BY <1>5, BoundsAssumption DEF Refuse, Fault, TypeOK
  <2>2. PICK a \in {"terminal", "transient"} : Finish(q, a)
    BY <1>5 DEF Refuse
  <2> QED BY <1>2, <2>1, <2>2, FinishTyped DEF TypeOK, Answers
<1> QED BY <1>3, <1>4, <1>5 DEF Server

\* Every step keeps the types, and the receipts of the rows.
LEMMA TypeNext ==
  ASSUME TypeOK, [Next]_vars PROVE TypeOK' /\ RowsKept
<1>1. ASSUME NEW c \in Conns, NEW r \in Receipts, PrintReceipt(c, r) PROVE TypeOK' /\ RowsKept
  <2>1. c \in Procs /\ Reading(r) \in ProcStates
    BY StatesAre DEF Procs
  <2>2. prints' \in 0 .. MaxPrints
    BY <1>1, BoundsAssumption DEF PrintReceipt, TypeOK
  <2>3. UNCHANGED <<rows, todo, recovery, requests, pos, faults, presses>>
        /\ proc' = [proc EXCEPT ![c] = Reading(r)]
    BY <1>1 DEF PrintReceipt
  <2> QED BY <2>1, <2>2, <2>3, Unmoved, TypeStep DEF TypeOK
<1>2. ASSUME Restart PROVE TypeOK' /\ RowsKept
  <2>1. UNCHANGED <<rows, requests, pos, prints, presses>> /\ todo' = {}
        /\ proc' \in [Procs -> ProcStates]
    BY <1>2, StatesAre DEF Restart
  <2>2. recovery' \subseteq DOMAIN rows
    BY <1>2 DEF Restart, Recoverable
  <2>3. faults' \in 0 .. MaxFaults
    BY <1>2, BoundsAssumption DEF Restart, Fault, TypeOK
  <2> QED BY <2>1, <2>2, <2>3, Unmoved DEF TypeOK
<1>3. CASE UNCHANGED vars
  BY <1>3, Unmoved DEF vars, TypeOK
<1> QED BY <1>1, <1>2, <1>3, AgentTyped, ClockStaffTyped, ServerTyped DEF Next

LEMMA TypeInit == Init => TypeOK
<1> SUFFICES ASSUME Init PROVE TypeOK
  OBVIOUS
<1>1. rows \in Seq(RowRecord) /\ pos \in Seq(PosOrder)
  BY EmptySeq DEF Init
<1>2. proc \in [Procs -> ProcStates]
  BY StatesAre DEF Init
<1> QED BY <1>1, <1>2, BoundsAssumption DEF Init, TypeOK

\* Every reachable state of the relay is typed: a row is in one of the statuses of
\* the table, a coroutine works on a row there is, a request is one of a POST.
THEOREM TypeCorrect == Spec => []TypeOK
<1>1. TypeOK /\ [Next]_vars => TypeOK'
  BY TypeNext
<1> QED BY <1>1, TypeInit, PTL DEF Spec

-----------------------------------------------------------------------------
(* The orders on the POS.                                                  *)

\* A step adds one order at most, the relay's only when it had created none.
PosGrows ==
  /\ DOMAIN pos \subseteq DOMAIN pos'
  /\ \A k \in DOMAIN pos : pos'[k] = pos[k]
  /\ \A j, k \in DOMAIN pos' \ DOMAIN pos : j = k
  /\ \A k \in DOMAIN pos' \ DOMAIN pos :
       /\ pos'[k].order \in Orders
       /\ pos'[k].items \in {Items[pos'[k].order], "other"}
       /\ pos'[k].by = "relay" => CreatedFor(pos'[k].order) = {}

LEMMA AppendPos ==
  ASSUME TypeOK, NEW o \in Orders, NEW b \in {"relay", "cashier"}, NEW s \in {Items[o], "other"},
         pos' = Append(pos, [order |-> o, by |-> b, items |-> s]),
         b = "relay" => CreatedFor(o) = {}
  PROVE  PosGrows /\ \E k \in DOMAIN pos' : pos'[k].order = o
<1> DEFINE x == [order |-> o, by |-> b, items |-> s]
<1>1. x \in PosOrder /\ x.order = o /\ x.by = b /\ x.items = s
  BY DEF PosOrder
<1>2. pos \in Seq(PosOrder) /\ pos' = Append(pos, x)
  BY DEF TypeOK
<1> HIDE DEF x
<1>3. /\ DOMAIN pos' = DOMAIN pos \union {Len(pos) + 1}
      /\ pos'[Len(pos) + 1] = x /\ \A k \in DOMAIN pos : pos'[k] = pos[k]
  BY <1>1, <1>2, SeqGrows
<1> QED BY <1>1, <1>3 DEF PosGrows

LEMMA CreatePos ==
  ASSUME TypeOK, NEW o \in Orders, CreateOrder(o)
  PROVE  PosGrows /\ \E k \in DOMAIN pos' : pos'[k].order = o
<1>1. CASE CreatedFor(o) # {}
  BY <1>1 DEF CreateOrder, CreatedFor, PosGrows
<1>2. CASE CreatedFor(o) = {}
  BY <1>2, AppendPos DEF CreateOrder
<1> QED BY <1>1, <1>2

LEMMA PosNext ==
  ASSUME TypeOK, [Next]_vars PROVE PosGrows
<1>1. CASE UNCHANGED pos
  BY <1>1 DEF PosGrows
<1>2. ASSUME NEW q \in requests, Create(q) PROVE PosGrows
  BY <1>2, CreatePos DEF Create, TypeOK, Request
<1>3. ASSUME NEW o \in Orders, EnterByHand(o) PROVE PosGrows
  <2>1. PICK s \in {Items[o], "other"} :
          pos' = Append(pos, [order |-> o, by |-> "cashier", items |-> s])
    BY <1>3 DEF EnterByHand
  <2> QED BY <2>1, AppendPos
<1>4. ASSUME NEW c \in Conns, NEW r \in Receipts, PrintReceipt(c, r) PROVE UNCHANGED pos
  BY <1>4 DEF PrintReceipt
<1>5. ASSUME Agent \/ Clock \/ Restart \/ UNCHANGED vars PROVE UNCHANGED pos
  BY <1>5 DEF Agent, StoreReceipt, DispatchNew, LoopRound, LoopNext, GiveUp, MarkOrder, Recover,
              Clock, BackoffEnds, ClaimExpires, Restart, vars
<1>6. ASSUME NEW q \in requests, LookUp(q) \/ Refuse(q) PROVE UNCHANGED pos
  BY <1>6 DEF LookUp, Refuse
<1>7. ASSUME NEW i \in DOMAIN rows, RetryOrderNow(i) \/ DismissWaitingOrder(i) PROVE UNCHANGED pos
  BY <1>7 DEF RetryOrderNow, DismissWaitingOrder
<1> QED BY <1>1, <1>2, <1>3, <1>4, <1>5, <1>6, <1>7 DEF Next, Server, Staff

OneEach == \A o \in Orders : \A j, k \in CreatedFor(o) : j = k

LEMMA OneEachNext ==
  ASSUME OneEach, PosGrows PROVE OneEach'
<1> SUFFICES ASSUME NEW o \in Orders, NEW j \in CreatedFor(o)', NEW k \in CreatedFor(o)'
             PROVE  j = k
  BY DEF OneEach
<1>1. CASE j \in DOMAIN pos /\ k \in DOMAIN pos
  <2>1. j \in CreatedFor(o) /\ k \in CreatedFor(o)
    BY <1>1 DEF PosGrows, CreatedFor
  <2> QED BY <2>1 DEF OneEach
<1>2. CASE j \in DOMAIN pos /\ k \notin DOMAIN pos
  <2>1. j \in CreatedFor(o) /\ CreatedFor(o) = {}
    BY <1>2 DEF PosGrows, CreatedFor
  <2> QED BY <2>1
<1>3. CASE j \notin DOMAIN pos /\ k \in DOMAIN pos
  <2>1. k \in CreatedFor(o) /\ CreatedFor(o) = {}
    BY <1>3 DEF PosGrows, CreatedFor
  <2> QED BY <2>1
<1>4. CASE j \notin DOMAIN pos /\ k \notin DOMAIN pos
  BY <1>4 DEF PosGrows, CreatedFor
<1> QED BY <1>1, <1>2, <1>3, <1>4

LEMMA OneEachCounts ==
  OneEach => OneRelayedOrder
<1> SUFFICES ASSUME OneEach, NEW o \in Orders PROVE Cardinality(CreatedFor(o)) <= 1
  BY DEF OneRelayedOrder
<1>1. CASE CreatedFor(o) = {}
  BY <1>1, FS_EmptySet
<1>2. CASE CreatedFor(o) # {}
  <2>1. PICK k \in CreatedFor(o) : TRUE
    BY <1>2
  <2>2. CreatedFor(o) = {k}
    BY <2>1 DEF OneEach
  <2>3. Cardinality({k}) = 1
    BY FS_Singleton
  <2> QED BY <2>2, <2>3
<1> QED BY <1>1, <1>2

\* However often a receipt is posted (retries, abandoned claims, answers that come
\* too late, restarts, reprints), the relay creates one order for it.
THEOREM OneRelayedOrderHolds == Spec => []OneRelayedOrder
<1>1. Init => TypeOK /\ OneEach
  BY TypeInit DEF Init, OneEach, CreatedFor
<1>2. TypeOK /\ OneEach /\ [Next]_vars => (TypeOK /\ OneEach)'
  BY TypeNext, PosNext, OneEachNext
<1> QED BY <1>1, <1>2, OneEachCounts, PTL DEF Spec

-----------------------------------------------------------------------------
(* Which requests are whose.                                               *)

\* A request's name tells it from the others; the last one of a coroutine, and only
\* that one, is answered to it and carries the order of its row.
Named ==
  /\ \A q, r \in requests : q.n = r.n => q = r
  /\ \A q \in requests : /\ q.n[2] <= faults
                         /\ q.n[2] = faults => /\ proc[q.n[1]].at = "posting"
                                               /\ proc[q.n[1]].n = q.n
  /\ \A p \in Procs : proc[p].at = "posting" =>
       /\ proc[p].n[1] = p
       /\ \A q \in requests : q.n = proc[p].n => q.order = OrderOf[rows[proc[p].id].bytes]

\* A step that posts nothing and takes no coroutine off a request that goes on,
\* unless it is a fault, keeps the names.
LEMMA NamedStep ==
  ASSUME TypeOK, TypeOK', RowsKept, Named,
         faults <= faults',
         \A q \in requests' : \E r \in requests : r.n = q.n /\ r.order = q.order,
         \A q, r \in requests' : q.n = r.n => q = r,
         \A p \in Procs : proc'[p].at = "posting" => proc'[p] = proc[p],
         \A p \in Procs : \/ proc'[p] = proc[p] \/ proc[p].at # "posting" \/ faults < faults'
                          \/ \A q \in requests' : q.n # proc[p].n
  PROVE  Named'
<1>1. ASSUME NEW q \in requests'
      PROVE  /\ q.n[2] <= faults'
             /\ q.n[2] = faults' => proc'[q.n[1]].at = "posting" /\ proc'[q.n[1]].n = q.n
  <2>1. PICK r \in requests : r.n = q.n
    OBVIOUS
  <2>2. r.n \in RequestIds /\ faults \in Nat /\ faults' \in Nat
    BY DEF TypeOK, Request
  <2>3. r.n[1] \in Procs /\ r.n[2] \in Nat
    BY <2>2 DEF RequestIds
  <2>4. r.n[2] <= faults
    BY DEF Named
  <2>5. q.n[2] <= faults'
    BY <2>1, <2>2, <2>3, <2>4
  <2>6. ASSUME q.n[2] = faults'
        PROVE  proc'[q.n[1]].at = "posting" /\ proc'[q.n[1]].n = q.n
    <3>1. r.n[2] = faults /\ faults = faults'
      BY <2>1, <2>2, <2>3, <2>4, <2>6
    <3>2. proc[r.n[1]].at = "posting" /\ proc[r.n[1]].n = r.n
      BY <3>1 DEF Named
    <3>3. proc'[r.n[1]] = proc[r.n[1]]
      BY <2>1, <2>2, <2>3, <3>1, <3>2
    <3> QED BY <2>1, <3>2, <3>3
  <2> QED BY <2>5, <2>6
<1>2. ASSUME NEW p \in Procs, proc'[p].at = "posting"
      PROVE  /\ proc'[p].n[1] = p
             /\ \A q \in requests' : q.n = proc'[p].n => q.order = OrderOf[rows'[proc'[p].id].bytes]
  <2>1. proc'[p] = proc[p]
    BY <1>2
  <2>2. proc[p].id \in DOMAIN rows
    BY <1>2, <2>1, ProcShape DEF TypeOK
  <2>3. rows'[proc[p].id].bytes = rows[proc[p].id].bytes
    BY <2>2 DEF RowsKept
  <2> QED BY <1>2, <2>1, <2>3 DEF Named
<1> QED BY <1>1, <1>2 DEF Named

\* A coroutine that posts has no request of its name with the server.
LEMMA NamedPost ==
  ASSUME TypeOK, TypeOK', RowsKept, Named, NEW p \in Procs, NEW i \in DOMAIN rows,
         Post(p, i), proc[p].at # "posting", UNCHANGED faults
  PROVE  Named'
<1> DEFINE n == <<p, faults>>
           new == [n |-> n, order |-> OrderOf[rows[i].bytes], seen |-> "nothing"]
<1>1. requests' = requests \union {new} /\ proc' = [proc EXCEPT ![p] = Posting(i, n)]
  BY DEF Post
<1>2. \A q \in requests : q.n # n
  BY DEF Named
<1>3. \A s \in Procs \ {p} : proc'[s] = proc[s]
  BY <1>1 DEF TypeOK
<1>4. proc'[p].at = "posting" /\ proc'[p].n = n /\ proc'[p].id = i
  BY <1>1 DEF TypeOK, Posting
<1>5. new.n = n /\ new.order = OrderOf[rows'[i].bytes] /\ n[1] = p /\ n[2] = faults
  BY DEF RowsKept
<1>6. faults \in Nat
  BY DEF TypeOK
<1> HIDE DEF n, new
<1>7. \A q, r \in requests' : q.n = r.n => q = r
  BY <1>1, <1>2, <1>5 DEF Named
<1>8. ASSUME NEW q \in requests'
      PROVE  /\ q.n[2] <= faults'
             /\ q.n[2] = faults' => proc'[q.n[1]].at = "posting" /\ proc'[q.n[1]].n = q.n
  <2>1. CASE q = new
    BY <1>4, <1>5, <1>6, <2>1
  <2>2. CASE q \in requests
    <3>1. q.n[1] \in Procs
      BY <2>2 DEF TypeOK, Request, RequestIds
    <3>2. q.n[2] <= faults
      BY <2>2 DEF Named
    <3>3. ASSUME q.n[2] = faults
          PROVE  proc'[q.n[1]].at = "posting" /\ proc'[q.n[1]].n = q.n
      <4>1. proc[q.n[1]].at = "posting" /\ proc[q.n[1]].n = q.n
        BY <2>2, <3>3 DEF Named
      <4> QED BY <1>3, <3>1, <4>1
    <3> QED BY <3>2, <3>3
  <2> QED BY <1>1, <2>1, <2>2
<1>9. ASSUME NEW s \in Procs, proc'[s].at = "posting"
      PROVE  /\ proc'[s].n[1] = s
             /\ \A q \in requests' : q.n = proc'[s].n => q.order = OrderOf[rows'[proc'[s].id].bytes]
  <2>1. CASE s = p
    BY <1>1, <1>2, <1>4, <1>5, <2>1
  <2>2. CASE s # p
    <3>1. proc'[s] = proc[s]
      BY <1>3, <2>2
    <3>2. proc[s].id \in DOMAIN rows
      BY <1>9, <3>1, ProcShape DEF TypeOK
    <3>3. rows'[proc[s].id].bytes = rows[proc[s].id].bytes
      BY <3>2 DEF RowsKept
    <3>4. proc[s].n[1] = s
      BY <1>9, <3>1 DEF Named
    <3>5. new.n # proc[s].n
      BY <1>5, <2>2, <3>4
    <3> QED BY <1>1, <1>9, <3>1, <3>3, <3>4, <3>5 DEF Named
  <2> QED BY <2>1, <2>2
<1> QED BY <1>7, <1>8, <1>9 DEF Named

LEMMA NamedFinish ==
  ASSUME TypeOK, TypeOK', RowsKept, Named, NEW q \in requests, NEW a \in Answers, Finish(q, a),
         faults <= faults'
  PROVE  Named'
<1>1. requests' = requests \ {q}
  BY DEF Finish
<1>2. \A r \in requests' : r.n # q.n
  BY <1>1 DEF Named
<1>3. ASSUME NEW p \in Procs
      PROVE  proc'[p] = IF proc[p].at = "posting" /\ proc[p].n = q.n
                          THEN Answered(proc[p].id, a) ELSE proc[p]
  BY DEF Finish
<1>4. ASSUME NEW p \in Procs, proc'[p].at = "posting" PROVE proc'[p] = proc[p]
  <2>1. Answered(proc[p].id, a).at = "answered"
    BY DEF Answered
  <2> QED BY <1>3, <1>4, <2>1
<1>5. \A p \in Procs : proc'[p] = proc[p] \/ \A r \in requests' : r.n # proc[p].n
  BY <1>2, <1>3
<1>6. \A r, s \in requests' : r.n = s.n => r = s
  BY <1>1 DEF Named
<1> QED BY <1>1, <1>4, <1>5, <1>6, NamedStep

\* A step that leaves the requests alone and moves a coroutine that waits for no
\* answer to another state without one.
LEMMA NamedMove ==
  ASSUME TypeOK, TypeOK', RowsKept, Named, UNCHANGED requests, faults <= faults',
         NEW p \in Procs, NEW x, proc' = [proc EXCEPT ![p] = x],
         proc[p].at # "posting", x.at # "posting"
  PROVE  Named'
<1>1. \A s \in Procs \ {p} : proc'[s] = proc[s]
  BY DEF TypeOK
<1>2. proc'[p].at # "posting"
  BY DEF TypeOK
<1>3. \A q, r \in requests : q.n = r.n => q = r
  BY DEF Named
<1> QED BY <1>1, <1>2, <1>3, NamedStep

LEMMA NamedSame ==
  ASSUME TypeOK, TypeOK', RowsKept, Named, UNCHANGED <<requests, proc, faults>>
  PROVE  Named'
<1>1. \A q, r \in requests : q.n = r.n => q = r
  BY DEF Named
<1>2. faults \in Nat
  BY DEF TypeOK
<1> QED BY <1>1, <1>2, NamedStep

LEMMA ShapesAt ==
  /\ Idle.at = "idle"
  /\ \A r : Reading(r).at = "reading"
  /\ \A i : Stored(i).at = "stored"
  /\ \A i, a : /\ Answered(i, a).at = "answered" /\ Answered(i, a).id = i
               /\ Answered(i, a).answer = a
  /\ \A i, n : Posting(i, n).at = "posting" /\ Posting(i, n).id = i
BY DEF Idle, Reading, Stored, Answered, Posting

LEMMA NamedAgent ==
  ASSUME TypeOK, TypeOK', RowsKept, Named, Agent PROVE Named'
<1>0. Loop \in Procs /\ Conns \subseteq Procs /\ faults \in Nat
  BY DEF Procs, TypeOK
<1>1. ASSUME NEW c \in Conns, StoreReceipt(c) PROVE Named'
  <2>1. proc[c].at = "reading" /\ UNCHANGED requests
    BY <1>1 DEF StoreReceipt
  <2>2. faults <= faults' /\ proc' = [proc EXCEPT ![c] = proc'[c]] /\ proc'[c].at # "posting"
    BY <1>1, StoreRows, ShapesAt
  <2> QED BY <1>0, <2>1, <2>2, NamedMove
<1>2. ASSUME NEW c \in Conns, DispatchNew(c) PROVE Named'
  <2>1. proc[c].at = "stored" /\ proc[c].id \in DOMAIN rows /\ UNCHANGED faults
    BY <1>0, <1>2, ProcShape DEF DispatchNew, TypeOK, bounds
  <2>2. CASE Claim(c, proc[c].id)
    BY <1>0, <2>1, <2>2, NamedPost DEF Claim
  <2>3. CASE UNCHANGED requests /\ proc' = [proc EXCEPT ![c] = Idle]
    <3>1. Idle.at # "posting" /\ proc[c].at # "posting" /\ faults <= faults'
      BY <1>0, <2>1, ShapesAt
    <3> QED BY <1>0, <2>3, <3>1, NamedMove
  <2> QED BY <1>2, <2>2, <2>3 DEF DispatchNew
<1>3. ASSUME LoopRound \/ \E i \in recovery : Recover(i) PROVE Named'
  <2>1. UNCHANGED <<proc, requests, faults>>
    BY <1>3 DEF LoopRound, Recover, bounds
  <2> QED BY <2>1, NamedSame
<1>4. ASSUME LoopNext PROVE Named'
  <2>1. PICK i \in todo : Claim(Loop, i) \/ UNCHANGED <<rows, proc, requests>>
    BY <1>4 DEF LoopNext
  <2>2. proc[Loop].at # "posting" /\ i \in DOMAIN rows /\ UNCHANGED faults
    BY <1>4, ShapesAt DEF LoopNext, TypeOK, bounds
  <2>3. CASE Claim(Loop, i)
    BY <1>0, <2>2, <2>3, NamedPost DEF Claim
  <2>4. CASE UNCHANGED <<rows, proc, requests>>
    BY <2>2, <2>4, NamedSame
  <2> QED BY <2>1, <2>3, <2>4
<1>5. ASSUME NEW p \in Procs, GiveUp(p) PROVE Named'
  <2>1. requests' \subseteq requests /\ faults' = faults + 1
        /\ proc' = [proc EXCEPT ![p] = Answered(proc[p].id, "transient")]
    BY <1>5 DEF GiveUp, Fault
  <2>2. \A s \in Procs : proc'[s].at = "posting" => proc'[s] = proc[s]
    BY <2>1, ShapesAt DEF TypeOK
  <2>3. \A q, r \in requests' : q.n = r.n => q = r
    BY <2>1 DEF Named
  <2> QED BY <1>0, <2>1, <2>2, <2>3, NamedStep
<1>6. ASSUME NEW p \in Procs, MarkOrder(p) PROVE Named'
  <2>1. proc[p].at = "answered" /\ UNCHANGED <<requests, faults>> /\ proc' = [proc EXCEPT ![p] = Idle]
    BY <1>6 DEF MarkOrder, bounds
  <2>2. Idle.at # "posting" /\ proc[p].at # "posting" /\ faults <= faults'
    BY <1>0, <2>1, ShapesAt
  <2> QED BY <2>1, <2>2, NamedMove
<1> QED BY <1>1, <1>2, <1>3, <1>4, <1>5, <1>6 DEF Agent

LEMMA NamedServer ==
  ASSUME TypeOK, TypeOK', RowsKept, Named, Server PROVE Named'
<1>0. faults \in Nat
  BY DEF TypeOK
<1>1. ASSUME NEW q \in requests, LookUp(q) PROVE Named'
  <2>1. UNCHANGED faults
    BY <1>1 DEF LookUp, bounds
  <2>2. CASE requests' = (requests \ {q}) \union {[q EXCEPT !.seen = "clear"]} /\ UNCHANGED proc
    <3> DEFINE c == [q EXCEPT !.seen = "clear"]
    <3>1. c.n = q.n /\ c.order = q.order
      BY DEF TypeOK, Request
    <3> HIDE DEF c
    <3>2. requests' = (requests \ {q}) \union {c}
      BY <2>2 DEF c
    <3>3. \A r, s \in requests' : r.n = s.n => r = s
      BY <3>1, <3>2 DEF Named
    <3>4. \A r \in requests' : \E s \in requests : s.n = r.n /\ s.order = r.order
      BY <3>1, <3>2
    <3> QED BY <1>0, <2>1, <2>2, <3>3, <3>4, NamedStep
  <2>3. ASSUME NEW a \in Answers, Finish(q, a) PROVE Named'
    BY <1>0, <2>1, <2>3, NamedFinish
  <2> QED BY <1>1, <2>2, <2>3 DEF LookUp, Answers
<1>2. ASSUME NEW q \in requests, Create(q) PROVE Named'
  <2>1. UNCHANGED faults /\ Finish(q, "ok") /\ "ok" \in Answers
    BY <1>2 DEF Create, bounds, Answers
  <2> QED BY <1>0, <2>1, NamedFinish
<1>3. ASSUME NEW q \in requests, Refuse(q) PROVE Named'
  <2>1. faults' = faults + 1
    BY <1>3 DEF Refuse, Fault
  <2>2. PICK a \in {"terminal", "transient"} : Finish(q, a)
    BY <1>3 DEF Refuse
  <2> QED BY <1>0, <2>1, <2>2, NamedFinish DEF Answers
<1> QED BY <1>1, <1>2, <1>3 DEF Server

LEMMA NamedNext ==
  ASSUME TypeOK, Named, [Next]_vars PROVE Named'
<1>0. TypeOK' /\ RowsKept /\ Loop \in Procs /\ faults \in Nat
  BY TypeNext DEF Procs, TypeOK
<1>1. ASSUME NEW c \in Conns, NEW r \in Receipts, PrintReceipt(c, r) PROVE Named'
  <2>1. c \in Procs /\ proc[c].at # "posting" /\ UNCHANGED <<requests, faults>>
        /\ proc' = [proc EXCEPT ![c] = Reading(r)]
    BY <1>1, ShapesAt DEF PrintReceipt, Procs
  <2>2. Reading(r).at # "posting" /\ faults <= faults'
    BY <1>0, <2>1, ShapesAt
  <2> QED BY <1>0, <2>1, <2>2, NamedMove
<1>2. ASSUME Clock \/ Staff \/ UNCHANGED vars PROVE Named'
  <2>1. UNCHANGED <<proc, requests, faults>>
    BY <1>2 DEF Clock, Staff, BackoffEnds, ClaimExpires, RetryOrderNow, DismissWaitingOrder,
                EnterByHand, vars, bounds
  <2> QED BY <1>0, <2>1, NamedSame
<1>3. ASSUME Restart PROVE Named'
  <2>1. UNCHANGED requests /\ faults' = faults + 1 /\ \A p \in Procs : proc'[p] = Idle
    BY <1>3 DEF Restart, Fault
  <2>2. \A q, r \in requests : q.n = r.n => q = r
    BY DEF Named
  <2> QED BY <1>0, <2>1, <2>2, NamedStep, ShapesAt
<1> QED BY <1>0, <1>1, <1>2, <1>3, NamedAgent, NamedServer DEF Next

-----------------------------------------------------------------------------
(* What is marked SENT is on the POS.                                      *)

\* No two orders of the day share both their last digits and their dishes.
DistinctOrders ==
  \A a, b \in Orders : ShortRef[a] = ShortRef[b] /\ Items[a] = Items[b] => a = b

OnPos(o) == \E k \in DOMAIN pos : pos[k].order = o
SentInv ==
  /\ \A k \in DOMAIN pos : /\ pos[k].order \in Orders
                           /\ pos[k].items \in {Items[pos[k].order], "other"}
  /\ \A p \in Procs : proc[p].at = "answered" /\ proc[p].answer = "ok"
                        => OnPos(OrderOf[rows[proc[p].id].bytes])
  /\ SentMeansOnPos

\* A step keeps it when it makes a row sent, or a coroutine answered, for an order
\* on the POS only.
LEMMA SentStep ==
  ASSUME TypeOK, TypeOK', RowsKept, PosGrows, SentInv,
         \A i \in DOMAIN rows' : rows'[i].status = "SENT" =>
            i \in DOMAIN rows /\ (rows[i].status = "SENT" \/ OnPos(OrderOf[rows[i].bytes])),
         \A p \in Procs : proc'[p].at = "answered" /\ proc'[p].answer = "ok" =>
            \/ proc'[p] = proc[p]
            \/ /\ proc'[p].id \in DOMAIN rows
               /\ \E k \in DOMAIN pos' : pos'[k].order = OrderOf[rows[proc'[p].id].bytes]
  PROVE  SentInv'
<1>1. ASSUME NEW o, OnPos(o) PROVE \E k \in DOMAIN pos' : pos'[k].order = o
  BY <1>1 DEF OnPos, PosGrows
<1>2. \A k \in DOMAIN pos' : /\ pos'[k].order \in Orders
                             /\ pos'[k].items \in {Items[pos'[k].order], "other"}
  BY DEF PosGrows, SentInv
<1>3. ASSUME NEW p \in Procs, proc'[p].at = "answered", proc'[p].answer = "ok"
      PROVE  \E k \in DOMAIN pos' : pos'[k].order = OrderOf[rows'[proc'[p].id].bytes]
  <2>1. CASE proc'[p] = proc[p]
    <3>1. proc[p].id \in DOMAIN rows
      BY <1>3, <2>1, ProcShape DEF TypeOK
    <3>2. OnPos(OrderOf[rows[proc[p].id].bytes])
      BY <1>3, <2>1 DEF SentInv
    <3> QED BY <1>1, <2>1, <3>1, <3>2 DEF RowsKept
  <2>2. CASE proc'[p] # proc[p]
    BY <1>3, <2>2 DEF RowsKept
  <2> QED BY <2>1, <2>2
<1>4. ASSUME NEW i \in DOMAIN rows', rows'[i].status = "SENT"
      PROVE  \E k \in DOMAIN pos' : pos'[k].order = OrderOf[rows'[i].bytes]
  <2>1. i \in DOMAIN rows /\ OnPos(OrderOf[rows[i].bytes])
    BY <1>4 DEF SentInv, SentMeansOnPos, OnPos
  <2> QED BY <1>1, <2>1 DEF RowsKept
<1> QED BY <1>2, <1>3, <1>4 DEF SentInv, SentMeansOnPos, OnPos

\* Which steps make a row sent, and which answer ok.
LEMMA SentAgent ==
  ASSUME TypeOK, SentInv, Agent
  PROVE  /\ \A i \in DOMAIN rows' : rows'[i].status = "SENT" =>
              i \in DOMAIN rows /\ (rows[i].status = "SENT" \/ OnPos(OrderOf[rows[i].bytes]))
         /\ \A p \in Procs : proc'[p].at = "answered" /\ proc'[p].answer = "ok" => proc'[p] = proc[p]
<1> DEFINE SentRows == \A i \in DOMAIN rows' : rows'[i].status = "SENT" =>
              i \in DOMAIN rows /\ (rows[i].status = "SENT" \/ OnPos(OrderOf[rows[i].bytes]))
           Answer(p) == proc'[p].at = "answered" /\ proc'[p].answer = "ok" => proc'[p] = proc[p]
           SentProcs == \A p \in Procs : Answer(p)
<1>0. Loop \in Procs /\ Conns \subseteq Procs
  BY DEF Procs
<1>1. ASSUME NEW p \in Procs, NEW i \in DOMAIN rows, Claim(p, i) PROVE SentRows /\ SentProcs
  <2>1. SentRows
    BY <1>1, ClaimRows, RowTyped DEF RowRecord
  <2>2. proc' = [proc EXCEPT ![p] = Posting(i, <<p, faults>>)]
    BY <1>1 DEF Claim, Post
  <2>3. proc'[p].at = "posting" /\ \A s \in Procs \ {p} : proc'[s] = proc[s]
    BY <2>2, ShapesAt DEF TypeOK
  <2> QED BY <2>1, <2>3
<1>2. ASSUME NEW c \in Conns, StoreReceipt(c) PROVE SentRows /\ SentProcs
  <2>1. SentRows
    BY <1>2, StoreRows
  <2>2. \A s \in Procs \ {c} : proc'[s] = proc[s]
    BY <1>2, StoreRows DEF TypeOK
  <2>3. proc'[c].at # "answered"
    BY <1>2, StoreRows, ShapesAt
  <2> QED BY <2>1, <2>2, <2>3
<1>3. ASSUME NEW c \in Conns, DispatchNew(c) PROVE SentRows /\ SentProcs
  <2>1. c \in Procs /\ proc[c].id \in DOMAIN rows
    BY <1>3, ProcShape DEF Procs, TypeOK, DispatchNew
  <2>2. CASE UNCHANGED rows /\ proc' = [proc EXCEPT ![c] = Idle]
    <3>1. Idle.at # "answered" /\ \A s \in Procs : proc'[s] = proc[s] \/ proc'[s] = Idle
      BY <2>1, <2>2, ShapesAt DEF TypeOK
    <3> QED BY <2>2, <3>1
  <2> QED BY <1>1, <1>3, <2>1, <2>2 DEF DispatchNew
<1>4. ASSUME LoopRound PROVE SentRows /\ SentProcs
  BY <1>4, ReleaseRows, RowTyped DEF LoopRound, RowRecord
<1>5. ASSUME LoopNext PROVE SentRows /\ SentProcs
  <2>1. PICK i \in todo : Claim(Loop, i) \/ UNCHANGED <<rows, proc>>
    BY <1>5 DEF LoopNext
  <2> QED BY <1>0, <1>1, <2>1 DEF TypeOK
<1>6. ASSUME NEW p \in Procs, GiveUp(p) PROVE SentRows /\ SentProcs
  <2>1. UNCHANGED rows /\ proc' = [proc EXCEPT ![p] = Answered(proc[p].id, "transient")]
    BY <1>6 DEF GiveUp
  <2>2. proc'[p].answer # "ok" /\ \A s \in Procs \ {p} : proc'[s] = proc[s]
    BY <2>1, ShapesAt DEF TypeOK
  <2> QED BY <2>1, <2>2
<1>7. ASSUME NEW p \in Procs, MarkOrder(p) PROVE SentRows /\ SentProcs
  <2>1. SentRows
    <3> DEFINE i == proc[p].id
    <3>1. /\ DOMAIN rows' = DOMAIN rows /\ i \in DOMAIN rows /\ proc[p].answer \in Answers
          /\ rows'[i] = MarkRow(rows[i], proc[p].answer)
          /\ \A j \in DOMAIN rows \ {i} : rows'[j] = rows[j]
      BY <1>7, MarkRows
    <3>2. rows'[i].status = "SENT" => proc[p].answer = "ok"
      BY <3>1, MarkedRow, RowTyped
    <3>3. rows'[i].status = "SENT" => OnPos(OrderOf[rows[i].bytes])
      BY <1>7, <3>2 DEF SentInv, MarkOrder
    <3> QED BY <3>1, <3>3
  <2>2. proc' = [proc EXCEPT ![p] = Idle]
    BY <1>7 DEF MarkOrder
  <2>3. Idle.at # "answered" /\ \A s \in Procs : proc'[s] = proc[s] \/ proc'[s] = Idle
    BY <2>2, ShapesAt DEF TypeOK
  <2> QED BY <2>1, <2>3
<1>8. ASSUME NEW i \in recovery, Recover(i) PROVE SentRows /\ SentProcs
  <2>1. i \in DOMAIN rows /\ UNCHANGED proc
    BY <1>8 DEF TypeOK, Recover
  <2> QED BY <1>8, <2>1, OneRowRows
<1> QED BY <1>2, <1>3, <1>4, <1>5, <1>6, <1>7, <1>8 DEF Agent

\* The server answers ok for an order on the POS only.
LEMMA SentServer ==
  ASSUME DistinctOrders, TypeOK, Named, SentInv, Server
  PROVE  /\ UNCHANGED rows
         /\ \A p \in Procs : proc'[p].at = "answered" /\ proc'[p].answer = "ok" =>
              \/ proc'[p] = proc[p]
              \/ /\ proc'[p].id \in DOMAIN rows
                 /\ \E k \in DOMAIN pos' : pos'[k].order = OrderOf[rows[proc'[p].id].bytes]
<1> DEFINE Goal == \A p \in Procs : proc'[p].at = "answered" /\ proc'[p].answer = "ok" =>
              \/ proc'[p] = proc[p]
              \/ /\ proc'[p].id \in DOMAIN rows
                 /\ \E k \in DOMAIN pos' : pos'[k].order = OrderOf[rows[proc'[p].id].bytes]
<1>1. UNCHANGED rows
  BY DEF Server, LookUp, Create, Refuse
<1>2. ASSUME NEW q \in requests, Finish(q, "ok"), \E k \in DOMAIN pos' : pos'[k].order = q.order
      PROVE  Goal
  <2> SUFFICES ASSUME NEW p \in Procs, proc'[p] # proc[p]
               PROVE  /\ proc'[p].id \in DOMAIN rows
                      /\ \E k \in DOMAIN pos' : pos'[k].order = OrderOf[rows[proc'[p].id].bytes]
    OBVIOUS
  <2>1. proc[p].at = "posting" /\ proc[p].n = q.n /\ proc'[p] = Answered(proc[p].id, "ok")
    BY <1>2 DEF Finish
  <2>2. proc'[p].id = proc[p].id /\ proc[p].id \in DOMAIN rows
    BY <2>1, ShapesAt, ProcShape DEF TypeOK
  <2>3. q.order = OrderOf[rows[proc[p].id].bytes]
    BY <2>1 DEF Named
  <2> QED BY <1>2, <2>2, <2>3
<1>3. ASSUME NEW q \in requests, NEW a \in {"terminal", "transient"}, Finish(q, a) PROVE Goal
  <2> SUFFICES ASSUME NEW p \in Procs, proc'[p] # proc[p] PROVE proc'[p].answer # "ok"
    OBVIOUS
  <2>1. proc'[p] = Answered(proc[p].id, a)
    BY <1>3 DEF Finish
  <2> QED BY <2>1, ShapesAt
<1>4. ASSUME NEW q \in requests, LookUp(q) PROVE Goal
  <2>1. CASE UNCHANGED proc
    BY <2>1
  <2>2. ASSUME NEW k \in Candidates(q.order), SameItems(k, q.order), Finish(q, "ok") PROVE Goal
    <3>1. k \in DOMAIN pos /\ ShortRef[pos[k].order] = ShortRef[q.order]
          /\ pos[k].items = Items[q.order]
      BY <2>2 DEF Candidates, SameItems
    <3>2. q.order \in Orders /\ pos[k].order \in Orders
      BY <3>1 DEF TypeOK, Request, SentInv
    <3>3. Items[q.order] # "other"
      BY <3>2, NamesAssumption
    <3>4. pos[k].items = Items[pos[k].order]
      BY <3>1, <3>3 DEF SentInv
    <3>5. pos[k].order = q.order
      BY <3>1, <3>2, <3>4 DEF DistinctOrders
    <3>6. UNCHANGED pos
      BY <1>4 DEF LookUp
    <3> QED BY <1>2, <2>2, <3>1, <3>5, <3>6
  <2>3. CASE Finish(q, "terminal")
    BY <1>3, <2>3
  <2> QED BY <1>4, <2>1, <2>2, <2>3 DEF LookUp
<1>5. ASSUME NEW q \in requests, Create(q) PROVE Goal
  <2>1. \E k \in DOMAIN pos' : pos'[k].order = q.order
    BY <1>5, CreatePos DEF Create, TypeOK, Request
  <2> QED BY <1>2, <1>5, <2>1 DEF Create
<1>6. ASSUME NEW q \in requests, Refuse(q) PROVE Goal
  BY <1>3, <1>6 DEF Refuse
<1> QED BY <1>1, <1>4, <1>5, <1>6 DEF Server

LEMMA SentNext ==
  ASSUME DistinctOrders, TypeOK, Named, SentInv, [Next]_vars PROVE SentInv'
<1>0. TypeOK' /\ RowsKept /\ PosGrows
  BY TypeNext, PosNext
<1>1. ASSUME NEW c \in Conns, NEW r \in Receipts, PrintReceipt(c, r) PROVE SentInv'
  <2>1. UNCHANGED rows /\ proc' = [proc EXCEPT ![c] = Reading(r)]
    BY <1>1 DEF PrintReceipt
  <2>2. Reading(r).at # "answered" /\ \A s \in Procs : proc'[s] = proc[s] \/ proc'[s] = Reading(r)
    BY <2>1, ShapesAt DEF TypeOK
  <2> QED BY <1>0, <2>1, <2>2, SentStep
<1>2. CASE Agent
  BY <1>0, <1>2, SentAgent, SentStep
<1>3. CASE Server
  BY <1>0, <1>3, SentServer, SentStep
<1>4. ASSUME NEW i \in DOMAIN rows,
             BackoffEnds(i) \/ ClaimExpires(i) \/ RetryOrderNow(i) \/ DismissWaitingOrder(i)
      PROVE  SentInv'
  <2>1. UNCHANGED proc
    BY <1>4 DEF BackoffEnds, ClaimExpires, RetryOrderNow, DismissWaitingOrder
  <2> QED BY <1>0, <1>4, <2>1, OneRowRows, SentStep
<1>5. ASSUME (\E o \in Orders : EnterByHand(o)) \/ UNCHANGED vars PROVE SentInv'
  <2>1. UNCHANGED <<rows, proc>>
    BY <1>5 DEF EnterByHand, vars
  <2> QED BY <1>0, <2>1, SentStep
<1>6. CASE Restart
  <2>1. UNCHANGED rows /\ Idle.at # "answered" /\ \A p \in Procs : proc'[p] = Idle
    BY <1>6, ShapesAt DEF Restart
  <2> QED BY <1>0, <2>1, SentStep
<1> QED BY <1>1, <1>2, <1>3, <1>4, <1>5, <1>6 DEF Next, Clock, Staff

\* A row is marked SENT only when the POS has its order, as long as no two orders
\* share both their last digits and their dishes: the lookup by four digits then
\* never takes another customer's order, nor an answer that comes late, for it.
THEOREM SentMeansOnPosHolds ==
  ASSUME DistinctOrders PROVE Spec => []SentMeansOnPos
<1>1. Init => TypeOK /\ Named /\ SentInv
  <2> SUFFICES ASSUME Init PROVE Named /\ SentInv
    BY TypeInit
  <2>1. \A p \in Procs : proc[p].at = "idle"
    BY ShapesAt DEF Init
  <2> QED BY <2>1 DEF Init, Named, SentInv, SentMeansOnPos
<1>2. TypeOK /\ Named /\ SentInv /\ [Next]_vars => (TypeOK /\ Named /\ SentInv)'
  BY TypeNext, NamedNext, SentNext
<1>3. SentInv => SentMeansOnPos
  BY DEF SentInv
<1> QED BY <1>1, <1>2, <1>3, PTL DEF Spec

-----------------------------------------------------------------------------
(* A row belongs to its coroutine from claim to mark.                      *)

\* The claim of a coroutine at work is fresh, and no one else works on the row.
Owned ==
  \A p \in Procs : Working(p) =>
     /\ rows[proc[p].id].status = "SENDING" /\ ~rows[proc[p].id].stale
     /\ \A q \in Procs \ {p} : ~Holds(q, proc[p].id)

\* A step that lets no coroutine begin to work, and touches no row worked on.
LEMMA OwnedStep ==
  ASSUME TypeOK, Owned,
         \A p \in Procs : proc'[p].at \in {"posting", "answered"} =>
            /\ Working(p) /\ proc'[p].id = proc[p].id
            /\ rows'[proc[p].id].status = "SENDING" /\ ~rows'[proc[p].id].stale
  PROVE  Owned'
BY DEF Owned, Holds, Working

\* A coroutine that claims a row finds it waiting, hence with no one.
LEMMA OwnedClaim ==
  ASSUME TypeOK, Owned, NEW p \in Procs, NEW i \in DOMAIN rows, Claim(p, i), ~Working(p)
  PROVE  Owned'
<1>1. /\ DOMAIN rows' = DOMAIN rows /\ rows[i].status = "PENDING"
      /\ rows'[i] = [rows[i] EXCEPT !.status = "SENDING", !.stale = FALSE]
      /\ \A j \in DOMAIN rows \ {i} : rows'[j] = rows[j]
  BY ClaimRows
<1>2. rows'[i].status = "SENDING" /\ ~rows'[i].stale
  BY <1>1, RowTyped DEF RowRecord
<1>3. proc' = [proc EXCEPT ![p] = Posting(i, <<p, faults>>)]
  BY DEF Claim, Post
<1>4. /\ proc'[p].at = "posting" /\ proc'[p].id = i
      /\ \A s \in Procs \ {p} : proc'[s] = proc[s]
  BY <1>3, ShapesAt DEF TypeOK
<1>5. \A s \in Procs : ~Holds(s, i)
  BY <1>1 DEF Owned, Holds
<1>6. ASSUME NEW s \in Procs \ {p}, Working(s)
      PROVE  proc[s].id \in DOMAIN rows \ {i}
  BY <1>5, <1>6, ProcShape DEF Working, Holds, TypeOK
<1> SUFFICES ASSUME NEW s \in Procs, proc'[s].at \in {"posting", "answered"}
             PROVE  /\ rows'[proc'[s].id].status = "SENDING" /\ ~rows'[proc'[s].id].stale
                    /\ \A q \in Procs \ {s} : proc'[q].at \in {"posting", "answered"}
                                               => proc'[q].id # proc'[s].id
  BY DEF Owned, Holds, Working
<1>7. CASE s = p
  <2>1. ASSUME NEW q \in Procs \ {p}, proc'[q].at \in {"posting", "answered"} PROVE proc'[q].id # i
    BY <1>4, <1>6, <2>1 DEF Working
  <2> QED BY <1>2, <1>4, <1>7, <2>1
<1>8. CASE s # p
  <2>1. proc'[s] = proc[s] /\ Working(s) /\ proc[s].id \in DOMAIN rows \ {i}
    BY <1>4, <1>6, <1>8 DEF Working
  <2>2. rows'[proc[s].id] = rows[proc[s].id]
    BY <1>1, <2>1
  <2>3. ASSUME NEW q \in Procs \ {s}, proc'[q].at \in {"posting", "answered"}
        PROVE  proc'[q].id # proc'[s].id
    BY <1>4, <2>1, <2>3 DEF Owned, Holds, Working
  <2> QED BY <2>1, <2>2, <2>3 DEF Owned
<1> QED BY <1>7, <1>8

LEMMA OwnedNext ==
  ASSUME ~SlowPosts, TypeOK, Owned, [Next]_vars PROVE Owned'
<1>0. Loop \in Procs /\ Conns \subseteq Procs
  BY DEF Procs
<1>1. ASSUME NEW p \in Procs, Working(p)
      PROVE  proc[p].id \in DOMAIN rows
  BY <1>1, ProcShape DEF Working, TypeOK
\* A coroutine p that is not at work goes to a state without work.
<1>2. ASSUME NEW p \in Procs, NEW x, proc' = [proc EXCEPT ![p] = x],
             x.at \in {"idle", "reading", "stored"}, \A i \in DOMAIN rows \ {proc[p].id} : rows'[i] = rows[i],
             Working(p) \/ \A i \in DOMAIN rows : rows'[i] = rows[i]
      PROVE  Owned'
  <2> SUFFICES ASSUME NEW s \in Procs, proc'[s].at \in {"posting", "answered"}
               PROVE  /\ Working(s) /\ proc'[s].id = proc[s].id
                      /\ rows'[proc[s].id].status = "SENDING" /\ ~rows'[proc[s].id].stale
    BY OwnedStep
  <2>1. s # p /\ proc'[s] = proc[s]
    BY <1>2 DEF TypeOK
  <2>2. Working(s) /\ proc[s].id \in DOMAIN rows
    BY <1>1, <2>1 DEF Working
  <2>3. Working(p) => proc[s].id # proc[p].id
    BY <2>1, <2>2 DEF Owned, Holds
  <2>4. rows'[proc[s].id] = rows[proc[s].id]
    BY <1>2, <2>2, <2>3
  <2> QED BY <2>1, <2>2, <2>4 DEF Owned
<1>3. ASSUME UNCHANGED proc,
             \A i \in DOMAIN rows : (\E p \in Procs : Holds(p, i)) /\ rows[i].status = "SENDING"
                /\ ~rows[i].stale => rows'[i] = rows[i]
      PROVE  Owned'
  <2>1. ASSUME NEW s \in Procs, Working(s) PROVE rows'[proc[s].id] = rows[proc[s].id]
    BY <1>1, <1>3, <2>1 DEF Owned, Holds
  <2> QED BY <1>3, <2>1, OwnedStep DEF Owned, Working
<1>4. ASSUME NEW c \in Conns, StoreReceipt(c) PROVE Owned'
  <2>1. /\ proc' = [proc EXCEPT ![c] = proc'[c]] /\ \A i \in DOMAIN rows : rows'[i] = rows[i]
        /\ proc'[c].at \in {"idle", "stored"}
    BY <1>4, StoreRows, ShapesAt
  <2> QED BY <1>0, <1>2, <2>1
<1>5. ASSUME NEW c \in Conns, DispatchNew(c) PROVE Owned'
  <2>1. proc[c].at = "stored" /\ proc[c].id \in DOMAIN rows
    BY <1>0, <1>5, ProcShape DEF DispatchNew, TypeOK
  <2>2. ~Working(c)
    BY <2>1 DEF Working
  <2>3. CASE Claim(c, proc[c].id)
    BY <1>0, <2>1, <2>2, <2>3, OwnedClaim
  <2>4. CASE UNCHANGED rows /\ proc' = [proc EXCEPT ![c] = Idle]
    BY <1>0, <1>2, <2>4, ShapesAt
  <2> QED BY <1>5, <2>3, <2>4 DEF DispatchNew
<1>6. ASSUME LoopRound PROVE Owned'
  BY <1>3, <1>6, ReleaseRows DEF LoopRound
<1>7. ASSUME LoopNext PROVE Owned'
  <2>1. PICK i \in todo : Claim(Loop, i) \/ UNCHANGED <<rows, proc>>
    BY <1>7 DEF LoopNext
  <2>2. i \in DOMAIN rows /\ ~Working(Loop)
    BY <1>7, ShapesAt DEF LoopNext, TypeOK, Working
  <2>3. CASE Claim(Loop, i)
    BY <1>0, <2>2, <2>3, OwnedClaim
  <2> QED BY <1>3, <2>1, <2>3
<1>8. ASSUME NEW p \in Procs, NEW a, UNCHANGED rows,
             proc[p].at = "posting", proc' = [proc EXCEPT ![p] = Answered(proc[p].id, a)]
      PROVE  Owned'
  <2>1. ASSUME NEW s \in Procs, proc'[s].at \in {"posting", "answered"}
        PROVE  Working(s) /\ proc'[s].id = proc[s].id
    BY <1>8, <2>1, ShapesAt DEF Working, TypeOK
  <2> QED BY <1>8, <2>1, OwnedStep DEF Owned
<1>9. ASSUME NEW p \in Procs, GiveUp(p) PROVE Owned'
  BY <1>8, <1>9 DEF GiveUp
<1>10. ASSUME NEW p \in Procs, MarkOrder(p) PROVE Owned'
  <2>1. proc' = [proc EXCEPT ![p] = Idle] /\ Working(p)
        /\ \A i \in DOMAIN rows \ {proc[p].id} : rows'[i] = rows[i]
    BY <1>10, MarkRows DEF MarkOrder, Working
  <2> QED BY <1>2, <2>1, ShapesAt
<1>11. ASSUME NEW i \in DOMAIN rows, Recover(i) \/ BackoffEnds(i) \/ ClaimExpires(i)
                                     \/ RetryOrderNow(i) \/ DismissWaitingOrder(i)
       PROVE  Owned'
  <2>1. UNCHANGED proc
    BY <1>11 DEF Recover, BackoffEnds, ClaimExpires, RetryOrderNow, DismissWaitingOrder
  <2>2. ClaimExpires(i) => \A p \in Procs : ~Holds(p, i)
    BY DEF ClaimExpires
  <2>3. /\ \A j \in DOMAIN rows \ {i} : rows'[j] = rows[j]
        /\ rows[i].status = "SENDING" => rows'[i] = rows[i] \/ ClaimExpires(i)
    BY <1>11, OneRowRows
  <2> QED BY <1>3, <2>1, <2>2, <2>3
<1>12. ASSUME NEW q \in requests, NEW a, UNCHANGED rows, Finish(q, a) PROVE Owned'
  <2>1. ASSUME NEW s \in Procs, proc'[s].at \in {"posting", "answered"}
        PROVE  Working(s) /\ proc'[s].id = proc[s].id
    <3>1. CASE proc'[s] = proc[s]
      BY <2>1, <3>1 DEF Working
    <3>2. CASE proc[s].at = "posting" /\ proc'[s] = Answered(proc[s].id, a)
      BY <3>2, ShapesAt DEF Working
    <3> QED BY <1>12, <3>1, <3>2 DEF Finish
  <2> QED BY <1>12, <2>1, OwnedStep DEF Owned
<1>13. ASSUME Server PROVE Owned'
  <2>1. UNCHANGED rows
    BY <1>13 DEF Server, LookUp, Create, Refuse
  <2>2. PICK q \in requests : LookUp(q) \/ Create(q) \/ Refuse(q)
    BY <1>13 DEF Server
  <2>3. UNCHANGED proc \/ \E a \in Answers : Finish(q, a)
    BY <2>2 DEF LookUp, Create, Refuse, Answers
  <2> QED BY <1>3, <1>12, <2>1, <2>3
<1>14. ASSUME NEW c \in Conns, NEW r \in Receipts, PrintReceipt(c, r) PROVE Owned'
  BY <1>0, <1>2, <1>14, ShapesAt DEF PrintReceipt
<1>15. ASSUME (\E o \in Orders : EnterByHand(o)) \/ UNCHANGED vars PROVE Owned'
  <2>1. UNCHANGED <<rows, proc>>
    BY <1>15 DEF EnterByHand, vars
  <2> QED BY <1>3, <2>1
<1>16. ASSUME Restart PROVE Owned'
  <2>1. \A p \in Procs : proc'[p].at = "idle"
    BY <1>16, ShapesAt DEF Restart
  <2> QED BY <2>1, OwnedStep
<1>17. recovery \subseteq DOMAIN rows
  BY DEF TypeOK
<1> QED BY <1>4, <1>5, <1>6, <1>7, <1>9, <1>10, <1>11, <1>13, <1>14, <1>15, <1>16, <1>17
        DEF Next, Agent, Clock, Staff

\* Between its claim and its mark a coroutine owns the row, as long as no live POST
\* outlasts the 120 seconds after which its claim counts as abandoned.
THEOREM OwnedWhileSentHolds ==
  ASSUME ~SlowPosts PROVE Spec => []OwnedWhileSent
<1>1. Init => TypeOK /\ Owned
  BY TypeInit, ShapesAt DEF Init, Owned, Working
<1>2. TypeOK /\ Owned /\ [Next]_vars => (TypeOK /\ Owned)'
  BY TypeNext, OwnedNext
<1>3. Owned => OwnedWhileSent
  BY DEF Owned, OwnedWhileSent
<1> QED BY <1>1, <1>2, <1>3, PTL DEF Spec
=============================================================================
