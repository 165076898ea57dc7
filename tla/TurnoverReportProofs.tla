------------------------- MODULE TurnoverReportProofs -------------------------
(***************************************************************************)
(* Proofs about TurnoverReport, for any number of transactions, currencies *)
(* and bounds.                                                             *)
(*                                                                         *)
(* The task works on rows that were there when it read them (RowsRead);    *)
(* what it deletes without a rejected request was in a sum that was taken  *)
(* (Answered).  Ledger counts: a row that is still in the table was taken  *)
(* once for each run that trouble kept from deleting it, and once more in  *)
(* a run that goes on.                                                     *)
(***************************************************************************)
EXTENDS TurnoverReport, TLAPS, FiniteSetTheorems

Written(r) == IF r.kind = "paid" THEN paid[r.tx] ELSE refunds[r.tx]

\* Rows are numbered as they are written, and there is one for a payment.
Numbered ==
    /\ \A r \in rows : r.no <= Written(r)
    /\ \A r \in Row : taken[r] > 0 => r.no <= Written(r)
    /\ \A r, s \in rows : r.kind = "paid" /\ s.kind = "paid" /\ r.tx = s.tx => r = s

RowsRead ==
    /\ \A k \in Kinds : \A r \in ids[k] : r.kind = k /\ r.no <= Written(r)
    /\ pc = "idle" => \A k \in Kinds : ids[k] = {}
    /\ pc = "refunds" => ids["refund"] = {}
    /\ pc \in {"refunds", "settle"} => \A k \in Kinds : ids[k] \subseteq rows
    /\ pc = "delete" => ids["refund"] \subseteq rows

Answered ==
    /\ pc \in {"idle", "refunds"} => \A k \in Kinds, c \in Currencies : answer[k][c] = "none"
    /\ pc \in {"settle", "delete"} =>
          \A k \in Kinds, c \in Currencies : Group(k, c) # {} => answer[k][c] # "none"
    /\ pc = "delete" => \A k \in Kinds, c \in Currencies : answer[k][c] # "pending"
    /\ \A k \in Kinds, c \in Currencies :
          /\ answer[k][c] = "rejected" => rejected > 0
          /\ answer[k][c] = "fulfilled" => \A r \in Group(k, c) : taken[r] > 0
    \* The rows that were deleted first are gone unless they were kept.
    /\ pc = "delete" => \A r \in rows \cap ids["paid"] : CurrencyOf[r.tx] \in Kept("paid")

\* The run that goes on has taken the row, or met with a rejection.
TakenNow(r) == r \in ids[r.kind] /\ answer[r.kind][CurrencyOf[r.tx]] = "fulfilled"
Hit == \E k \in Kinds, c \in Currencies : answer[k][c] = "rejected"

Ledger ==
    /\ \A r \in Row : taken[r] <= 1 + rejected + crashes
    /\ \A r \in rows :
          taken[r] + (IF Hit THEN 1 ELSE 0) <= rejected + crashes + (IF TakenNow(r) THEN 1 ELSE 0)

Types ==
    /\ handler \in {"old", "new"}
    /\ testMode \in BOOLEAN
    /\ paid \in [Txs -> 0..MaxPaid]
    /\ refunds \in [Txs -> 0..MaxRefunds]
    /\ rows \subseteq Row
    /\ pc \in {"idle", "refunds", "settle", "delete"}
    /\ ids \in [Kinds -> SUBSET Row]
    /\ answer \in [Kinds -> [Currencies -> {"none", "pending", "fulfilled", "rejected"}]]
    /\ taken \in [Row -> 0..TakenCap]
    /\ lost \subseteq Row
    /\ rejected \in 0..MaxRejected
    /\ crashes \in 0..MaxCrashes

IInv == Types /\ Numbered /\ RowsRead /\ Answered /\ Ledger /\ (lost # {} => rejected > 0)
-----------------------------------------------------------------------------
LEMMA InitHolds == Init => IInv
<1> SUFFICES ASSUME Init PROVE IInv
  OBVIOUS
<1> USE BoundsAssumption DEF Init
<1>1. Types
  <2>1. taken \in [Row -> 0..TakenCap]
    BY DEF TakenCap
  <2>2. paid \in [Txs -> 0..MaxPaid] /\ refunds \in [Txs -> 0..MaxRefunds]
    OBVIOUS
  <2>3. /\ ids \in [Kinds -> SUBSET Row]
        /\ answer \in [Kinds -> [Currencies -> {"none", "pending", "fulfilled", "rejected"}]]
    OBVIOUS
  <2>4. rejected \in 0..MaxRejected /\ crashes \in 0..MaxCrashes
    OBVIOUS
  <2>5. /\ handler \in {"old", "new"} /\ testMode \in BOOLEAN /\ rows \subseteq Row
        /\ pc \in {"idle", "refunds", "settle", "delete"} /\ lost \subseteq Row
    OBVIOUS
  <2>. QED
    BY <2>1, <2>2, <2>3, <2>4, <2>5 DEF Types
<1>2. Numbered /\ RowsRead /\ Answered
  BY DEF Numbered, RowsRead, Answered, Group
<1>3. Ledger
  BY DEF Ledger
<1>. QED
  BY <1>1, <1>2, <1>3 DEF IInv

LEMMA CapIsNat == TakenCap \in Nat /\ TakenCap >= 1
BY BoundsAssumption DEF TakenCap

LEMMA TypesKeep ==
    ASSUME Types, Next
    PROVE  Types'
<1> USE BoundsAssumption DEF Types, task, ledger
<1>1. CASE UpdateHandlers \/ SwitchMode
  BY <1>1 DEF UpdateHandlers, SwitchMode
<1>2. ASSUME NEW t \in Txs, Pay(t) PROVE Types'
  <2>1. [tx |-> t, kind |-> "paid", no |-> paid[t] + 1] \in Row
    BY <1>2 DEF Pay, Row, Kinds
  <2>2. paid' \in [Txs -> 0..MaxPaid]
    BY <1>2 DEF Pay
  <2>. QED
    BY <1>2, <2>1, <2>2 DEF Pay
<1>3. ASSUME NEW t \in Txs, Refund(t) PROVE Types'
  <2>1. [tx |-> t, kind |-> "refund", no |-> refunds[t] + 1] \in Row
    BY <1>3 DEF Refund, Row, Kinds
  <2>2. refunds' \in [Txs -> 0..MaxRefunds]
    BY <1>3 DEF Refund
  <2>. QED
    BY <1>3, <2>1, <2>2 DEF Refund
<1>4. CASE StartRun
  BY <1>4 DEF StartRun
<1>5. CASE Post
  BY <1>5 DEF Post
<1>6. ASSUME NEW k \in Kinds, NEW c \in Currencies, Accept(k, c) PROVE Types'
  <2>1. taken' \in [Row -> 0..TakenCap]
    BY <1>6, CapIsNat DEF Accept
  <2>2. answer' \in [Kinds -> [Currencies -> {"none", "pending", "fulfilled", "rejected"}]]
    BY <1>6 DEF Accept
  <2>. QED
    BY <1>6, <2>1, <2>2 DEF Accept
<1>7. ASSUME NEW k \in Kinds, NEW c \in Currencies, Reject(k, c) PROVE Types'
  <2>1. answer' \in [Kinds -> [Currencies -> {"none", "pending", "fulfilled", "rejected"}]]
    BY <1>7 DEF Reject
  <2>2. rejected' \in 0..MaxRejected
    BY <1>7 DEF Reject
  <2>. QED
    BY <1>7, <2>1, <2>2 DEF Reject
<1>8. CASE DeletePaid
  BY <1>8 DEF DeletePaid, Delete, ToDelete
<1>9. CASE DeleteRefunds
  BY <1>9 DEF DeleteRefunds, Delete, ToDelete, Forget
<1>10. CASE Crash
  BY <1>10 DEF Crash, Forget
<1>. QED
  BY <1>1, <1>2, <1>3, <1>4, <1>5, <1>6, <1>7, <1>8, <1>9, <1>10 DEF Next, Run
\* A row is written with the next number: it was not there before, and nothing
\* was taken of it.
LEMMA NewRow ==
    ASSUME Types, Numbered, NEW t \in Txs, Pay(t) \/ Refund(t)
    PROVE  /\ \A r \in Row : Written(r) <= Written(r)'
           /\ \A r \in rows' \ rows : r \in Row /\ r.no = Written(r)' /\ taken[r] = 0
           /\ rows \subseteq rows' /\ UNCHANGED <<task, ledger>>
<1>0. \A r \in Row : taken[r] \in Nat
  BY CapIsNat DEF Types
<1> USE BoundsAssumption DEF Types, Written, Kinds, Row, task, ledger
<1>1. \A r \in Row : Written(r) <= Written(r)'
  BY DEF Pay, Refund
<1>2. ASSUME Pay(t), NEW r \in rows' \ rows PROVE r \in Row /\ r.no = Written(r)' /\ taken[r] = 0
  <2>1. r = [tx |-> t, kind |-> "paid", no |-> paid[t] + 1]
    BY <1>2 DEF Pay
  <2>2. r \in Row
    BY <1>2, <2>1 DEF Pay
  <2>3. Written(r) = paid[t] /\ Written(r)' = paid[t] + 1
    BY <1>2, <2>1 DEF Pay
  <2>4. paid[t] \in Nat /\ r.no = paid[t] + 1
    BY <2>1
  <2>6. taken[r] \in Nat
    BY <1>0, <2>2
  <2>5. taken[r] = 0
    BY <2>2, <2>3, <2>4, <2>6 DEF Numbered
  <2>. QED
    BY <2>2, <2>3, <2>4, <2>5
<1>3. ASSUME Refund(t), NEW r \in rows' \ rows PROVE r \in Row /\ r.no = Written(r)' /\ taken[r] = 0
  <2>1. r = [tx |-> t, kind |-> "refund", no |-> refunds[t] + 1]
    BY <1>3 DEF Refund
  <2>2. r \in Row
    BY <1>3, <2>1 DEF Refund
  <2>3. Written(r) = refunds[t] /\ Written(r)' = refunds[t] + 1
    BY <1>3, <2>1 DEF Refund
  <2>4. refunds[t] \in Nat /\ r.no = refunds[t] + 1
    BY <2>1
  <2>6. taken[r] \in Nat
    BY <1>0, <2>2
  <2>5. taken[r] = 0
    BY <2>2, <2>3, <2>4, <2>6 DEF Numbered
  <2>. QED
    BY <2>2, <2>3, <2>4, <2>5
<1>. QED
  BY <1>1, <1>2, <1>3 DEF Pay, Refund

LEMMA NumberedKeeps ==
    ASSUME Types, Numbered, RowsRead, Next
    PROVE  Numbered'
<1>1. CASE rows' \subseteq rows /\ UNCHANGED <<paid, refunds, taken>>
  BY <1>1 DEF Numbered, Written
<1>2. ASSUME NEW t \in Txs, Pay(t) \/ Refund(t) PROVE Numbered'
  <2>1. /\ \A r \in rows' : r.no <= Written(r)'
        /\ \A r \in Row : taken'[r] > 0 => r.no <= Written(r)'
    <3> USE BoundsAssumption DEF Row, Types, Numbered
    <3>1. \A r \in Row : r.no \in Nat /\ Written(r) \in Nat /\ Written(r)' \in Nat
      BY <1>2, TypesKeep DEF Written, Kinds
    <3>. QED
      BY <1>2, <3>1, NewRow DEF ledger
  <2>2. \A r, s \in rows' : r.kind = "paid" /\ s.kind = "paid" /\ r.tx = s.tx => r = s
    BY <1>2 DEF Numbered, Pay, Refund, PaidRows
  <2>. QED
    BY <2>1, <2>2 DEF Numbered
<1>3. ASSUME NEW k \in Kinds, NEW c \in Currencies, Accept(k, c) PROVE Numbered'
  <2>1. \A r \in Group(k, c) : r.no <= Written(r)
    BY DEF RowsRead, Group
  <2>. QED
    BY <1>3, <2>1 DEF Numbered, Written, Accept
<1>. QED
  BY <1>1, <1>2, <1>3 DEF Next, Run, UpdateHandlers, SwitchMode, StartRun, Post, Reject, DeletePaid,
     DeleteRefunds, Delete, Crash, ledger

LEMMA RowsReadKeeps ==
    ASSUME Types, Numbered, RowsRead, Next
    PROVE  RowsRead'
<1>1. CASE UpdateHandlers \/ SwitchMode
  BY <1>1 DEF RowsRead, Written, UpdateHandlers, SwitchMode, task
<1>2. ASSUME NEW t \in Txs, Pay(t) \/ Refund(t) PROVE RowsRead'
  <2>1. \A k \in Kinds : \A r \in ids[k] : r.no <= Written(r)'
    <3>1. \A r \in Row : r.no \in Nat /\ Written(r) \in Nat /\ Written(r)' \in Nat
      BY <1>2, TypesKeep, BoundsAssumption DEF Types, Row, Written, Kinds
    <3>. QED
      BY <1>2, <3>1, NewRow DEF RowsRead, Types
  <2>. QED
    BY <1>2, <2>1, NewRow DEF RowsRead, task
<1>3. CASE StartRun
  BY <1>3 DEF RowsRead, Types, Numbered, StartRun, Kinds, Written, ledger
<1>4. CASE Post
  BY <1>4 DEF RowsRead, Types, Numbered, Post, Kinds, Written, ledger
<1>5. CASE \E k \in Kinds, c \in Currencies : Accept(k, c) \/ Reject(k, c)
  BY <1>5 DEF RowsRead, Written, Accept, Reject
<1>6. CASE DeletePaid
  BY <1>6 DEF RowsRead, Written, DeletePaid, Delete, ToDelete, Kinds
<1>7. CASE DeleteRefunds
  BY <1>7 DEF RowsRead, Written, DeleteRefunds, Delete, Forget
<1>8. CASE Crash
  BY <1>8 DEF RowsRead, Written, Crash, Forget
<1>. QED
  BY <1>1, <1>2, <1>3, <1>4, <1>5, <1>6, <1>7, <1>8 DEF Next, Run

LEMMA AnsweredKeeps ==
    ASSUME Types, Numbered, RowsRead, Answered, Next
    PROVE  Answered'
<1>1. CASE UpdateHandlers \/ SwitchMode
  BY <1>1 DEF Answered, Kept, Group, UpdateHandlers, SwitchMode, task, ledger
<1>2. ASSUME NEW t \in Txs, Pay(t) \/ Refund(t) PROVE Answered'
  <2>1. pc = "delete" => rows' \cap ids["paid"] = rows \cap ids["paid"]
    <3>1. \A r \in ids["paid"] : r.no <= Written(r) /\ r \in Row /\ r.kind = "paid"
      BY DEF RowsRead, Kinds, Types
    <3>2. \A r \in ids["paid"] : r \in rows' => r \in rows
      <4>1. \A r \in Row : r.no \in Nat /\ Written(r) \in Nat
        BY BoundsAssumption DEF Types, Row, Written, Kinds
      <4>2. \A r \in rows' \ rows : r.no = Written(r) + 1
        BY <1>2 DEF Pay, Refund, Written
      <4>. QED
        BY <3>1, <4>1, <4>2
    <3>. QED
      BY <1>2, <3>2, NewRow
  <2>. QED
    BY <1>2, <2>1, NewRow DEF Answered, Kept, Group, task, ledger
<1>3. CASE StartRun
  BY <1>3 DEF Answered, StartRun, Group, ledger
<1>4. CASE Post
  BY <1>4 DEF Answered, Post, Group, ledger
<1>5. ASSUME NEW k \in Kinds, NEW c \in Currencies, Accept(k, c) PROVE Answered'
  <2>1. \A r \in Row : taken[r] \in Nat /\ taken'[r] \in Nat /\ taken[r] <= taken'[r]
    BY <1>5, CapIsNat DEF Types, Accept
  <2>2. \A r \in Group(k, c) : r \in Row /\ taken'[r] > 0
    BY <1>5, CapIsNat DEF Types, Accept, Group
  <2>3. \A l \in Kinds : ids[l] \subseteq Row
    BY DEF Types
  <2>4. \A l \in Kinds, d \in Currencies : answer'[l][d] # answer[l][d] => l = k /\ d = c /\ answer'[l][d] = "fulfilled"
    BY <1>5 DEF Accept, Types
  <2>5. UNCHANGED <<pc, ids, rejected>> /\ pc = "settle"
    BY <1>5 DEF Accept
  <2>6. \A l \in Kinds, d \in Currencies : Group(l, d)' = Group(l, d) /\ Group(l, d) \subseteq Row
    BY <2>3, <2>5 DEF Group
  <2>7. ASSUME NEW l \in Kinds, NEW d \in Currencies
        PROVE  /\ Group(l, d) # {} => answer'[l][d] # "none"
               /\ answer'[l][d] = "rejected" => rejected > 0
               /\ answer'[l][d] = "fulfilled" => \A r \in Group(l, d) : taken'[r] > 0
    BY <2>1, <2>2, <2>4, <2>5, <2>6 DEF Answered
  <2>. QED
    BY <2>5, <2>6, <2>7 DEF Answered
<1>6. ASSUME NEW k \in Kinds, NEW c \in Currencies, Reject(k, c) PROVE Answered'
  <2>1. \A l \in Kinds, d \in Currencies : answer'[l][d] # answer[l][d] => answer'[l][d] = "rejected"
    BY <1>6 DEF Reject, Types
  <2>2. UNCHANGED <<pc, ids, taken>> /\ pc = "settle" /\ rejected' > 0
    BY <1>6 DEF Reject, Types
  <2>3. \A l \in Kinds, d \in Currencies : Group(l, d)' = Group(l, d)
    BY <2>2 DEF Group
  <2>. QED
    BY <2>1, <2>2, <2>3 DEF Answered
<1>7. CASE DeletePaid
  BY <1>7 DEF Answered, Group, Kept, DeletePaid, Delete, ToDelete, Kinds
<1>8. CASE DeleteRefunds
  BY <1>8 DEF Answered, Group, DeleteRefunds, Delete, Forget
<1>9. CASE Crash
  BY <1>9 DEF Answered, Group, Crash, Forget
<1>. QED
  BY <1>1, <1>2, <1>3, <1>4, <1>5, <1>6, <1>7, <1>8, <1>9 DEF Next, Run
LEMMA LedgerKeeps ==
    ASSUME Types, Numbered, RowsRead, Answered, Ledger, Next
    PROVE  Ledger'
<1>0. /\ rejected \in Nat /\ crashes \in Nat /\ rejected' \in Nat /\ crashes' \in Nat
      /\ \A r \in Row : taken[r] \in Nat /\ taken'[r] \in Nat
      /\ rows \subseteq Row /\ rows' \subseteq Row
  BY TypesKeep, CapIsNat, BoundsAssumption DEF Types
<1>1. CASE UpdateHandlers \/ SwitchMode
  BY <1>1 DEF Ledger, Hit, TakenNow, UpdateHandlers, SwitchMode, task, ledger
<1>2. ASSUME NEW t \in Txs, Pay(t) \/ Refund(t) PROVE Ledger'
  <2>1. UNCHANGED <<ids, answer, taken, rejected, crashes>>
    BY <1>2, NewRow DEF task, ledger
  <2>2. Hit' = Hit /\ (Hit => rejected > 0) /\ \A r \in Row : TakenNow(r)' = TakenNow(r)
    BY <2>1 DEF Hit, TakenNow, Answered
  <2>3. ASSUME NEW r \in rows'
        PROVE  taken[r] + (IF Hit THEN 1 ELSE 0) <= rejected + crashes + (IF TakenNow(r) THEN 1 ELSE 0)
    <3>1. CASE r \in rows
      BY <3>1 DEF Ledger
    <3>2. CASE r \notin rows
      BY <1>0, <1>2, <2>2, <3>2, NewRow
    <3>. QED
      BY <3>1, <3>2
  <2>. QED
    BY <1>0, <2>1, <2>2, <2>3 DEF Ledger
<1>3. ASSUME StartRun \/ Post PROVE Ledger'
  <2>1. /\ ~Hit /\ ~Hit' /\ \A r \in Row : ~TakenNow(r) /\ ~TakenNow(r)'
        /\ UNCHANGED <<rows, taken, rejected, crashes>>
    <3>1. \A k \in Kinds, c \in Currencies : answer[k][c] = "none" /\ answer'[k][c] \in {"none", "pending"}
      BY <1>3 DEF StartRun, Post, Answered
    <3>2. \A r \in Row : r.kind \in Kinds /\ CurrencyOf[r.tx] \in Currencies
      BY CurrencyAssumption DEF Row
    <3>. QED
      BY <1>3, <3>1, <3>2 DEF Hit, TakenNow, StartRun, Post, ledger
  <2>. QED
    BY <1>0, <2>1 DEF Ledger
<1>4. ASSUME NEW k \in Kinds, NEW c \in Currencies, Accept(k, c) PROVE Ledger'
  <2>1. UNCHANGED <<rows, ids, rejected, crashes>> /\ pc = "settle"
    BY <1>4 DEF Accept
  <2>2. \A l \in Kinds, d \in Currencies :
            answer'[l][d] = IF l = k /\ d = c THEN "fulfilled" ELSE answer[l][d]
    BY <1>4 DEF Accept, Types
  <2>3. \A r \in Row : r.kind \in Kinds /\ CurrencyOf[r.tx] \in Currencies
    BY CurrencyAssumption DEF Row
  <2>4. Hit' = Hit
    BY <1>4, <2>2 DEF Hit, Accept
  <2>5. ASSUME NEW r \in Row, r \in Group(k, c)
        PROVE  r \in rows /\ ~TakenNow(r) /\ TakenNow(r)' /\ taken'[r] <= taken[r] + 1
    <3>1. r \in ids[k] /\ CurrencyOf[r.tx] = c /\ r.kind = k /\ r \in rows
      BY <2>1, <2>5 DEF Group, RowsRead
    <3>2. taken'[r] <= taken[r] + 1
      BY <1>0, <1>4 DEF Accept
    <3>. QED
      BY <1>4, <2>1, <2>2, <2>3, <3>1, <3>2 DEF TakenNow, Accept
  <2>6. ASSUME NEW r \in Row, r \notin Group(k, c)
        PROVE  taken'[r] = taken[r] /\ TakenNow(r)' = TakenNow(r)
    <3>1. taken'[r] = taken[r]
      BY <1>4, <2>6 DEF Accept
    <3>2. TakenNow(r)' = TakenNow(r)
      BY <2>1, <2>2, <2>3, <2>6 DEF TakenNow, Group
    <3>. QED
      BY <3>1, <3>2
  <2>. QED
    BY <1>0, <2>1, <2>4, <2>5, <2>6 DEF Ledger
<1>5. ASSUME NEW k \in Kinds, NEW c \in Currencies, Reject(k, c) PROVE Ledger'
  <2>1. UNCHANGED <<rows, ids, taken, crashes>> /\ rejected' = rejected + 1
    BY <1>5 DEF Reject
  <2>2. \A l \in Kinds, d \in Currencies :
            answer'[l][d] = "fulfilled" <=> answer[l][d] = "fulfilled"
    BY <1>5 DEF Reject, Types
  <2>3. \A r \in Row : TakenNow(r)' = TakenNow(r)
    BY <2>1, <2>2, CurrencyAssumption DEF TakenNow, Row
  <2>. QED
    BY <1>0, <2>1, <2>3 DEF Ledger
<1>6. CASE DeletePaid
  BY <1>6 DEF Ledger, Hit, TakenNow, DeletePaid, Delete
<1>7. CASE DeleteRefunds
  <2>1. /\ ~Hit' /\ \A r \in Row : ~TakenNow(r)'
        /\ rows' \subseteq rows /\ UNCHANGED <<taken, rejected, crashes>>
    BY <1>7, CurrencyAssumption DEF Hit, TakenNow, DeleteRefunds, Delete, Forget, Row
  <2>2. ASSUME NEW r \in rows' PROVE Hit \/ ~TakenNow(r)
    <3>1. r \in rows /\ r \in Row /\ r.kind \in Kinds /\ CurrencyOf[r.tx] \in Currencies
      BY <1>0, <2>1, CurrencyAssumption DEF Row
    <3>2. CASE r.kind = "paid" /\ r \in ids["paid"]
      BY <1>7, <3>1, <3>2 DEF Answered, Kept, Hit, Kinds, DeleteRefunds
    <3>3. CASE r.kind = "refund" /\ r \in ids["refund"]
      BY <1>7, <3>1, <3>3 DEF DeleteRefunds, Delete, ToDelete, Kept, Hit, Kinds
    <3>. QED
      BY <3>1, <3>2, <3>3 DEF TakenNow, Kinds
  <2>. QED
    BY <1>0, <2>1, <2>2 DEF Ledger
<1>8. CASE Crash
  <2>1. /\ ~Hit' /\ \A r \in Row : ~TakenNow(r)'
        /\ UNCHANGED <<rows, taken, rejected>> /\ crashes' = crashes + 1
    BY <1>8, CurrencyAssumption DEF Hit, TakenNow, Crash, Forget, Row
  <2>. QED
    BY <1>0, <2>1 DEF Ledger
<1>. QED
  BY <1>1, <1>2, <1>3, <1>4, <1>5, <1>6, <1>7, <1>8 DEF Next, Run

\* Without a rejected request each row that is deleted was in a sum that was
\* accepted.
LEMMA DeletedWasTaken ==
    ASSUME Types, RowsRead, Answered, rejected = 0, NEW k \in Kinds,
           pc \in {"settle", "delete"}, \A l \in Kinds, c \in Currencies : answer[l][c] # "pending"
    PROVE  \A r \in ToDelete(k) : taken[r] # 0
<1> SUFFICES ASSUME NEW r \in ToDelete(k) PROVE taken[r] # 0
  OBVIOUS
<1>1. r \in ids[k] /\ r \in Row /\ CurrencyOf[r.tx] \in Currencies
  BY CurrencyAssumption DEF ToDelete, Types, Row
<1>2. r \in Group(k, CurrencyOf[r.tx])
  BY <1>1 DEF Group
<1>3. answer[k][CurrencyOf[r.tx]] \in {"none", "pending", "fulfilled", "rejected"}
  BY <1>1 DEF Types
<1>4. answer[k][CurrencyOf[r.tx]] # "none" /\ answer[k][CurrencyOf[r.tx]] # "rejected"
  BY <1>1, <1>2 DEF Answered
<1>. QED
  BY <1>1, <1>2, <1>3, <1>4 DEF Answered

LEMMA LostKeeps ==
    ASSUME IInv, Next
    PROVE  lost' # {} => rejected' > 0
<1>0. rejected \in Nat
  BY BoundsAssumption DEF IInv, Types
<1>1. ASSUME NEW k \in Kinds, NEW next, Delete(k, next), pc \in {"settle", "delete"},
             \A l \in Kinds, c \in Currencies : answer[l][c] # "pending"
      PROVE  lost' # {} => rejected' > 0
  BY <1>0, <1>1, DeletedWasTaken DEF IInv, Delete
<1>2. CASE DeletePaid
  BY <1>1, <1>2 DEF DeletePaid, Kinds
<1>3. CASE DeleteRefunds
  BY <1>1, <1>3 DEF DeleteRefunds, Kinds, IInv, Answered
<1>4. CASE lost' = lost /\ rejected' \in {rejected, rejected + 1}
  BY <1>0, <1>4 DEF IInv
<1>. QED
  BY <1>2, <1>3, <1>4 DEF Next, Run, UpdateHandlers, SwitchMode, Pay, Refund, StartRun, Post, Accept, Reject,
     Crash, ledger

LEMMA NextKeeps == IInv /\ [Next]_vars => IInv'
<1> SUFFICES ASSUME IInv, [Next]_vars PROVE IInv'
  OBVIOUS
<1>1. CASE UNCHANGED vars
  BY <1>1 DEF IInv, Types, Numbered, Written, RowsRead, Answered, Group, Kept, Ledger, TakenNow, Hit, vars,
     task, ledger
<1>2. CASE Next
  BY <1>2, TypesKeep, NumberedKeeps, RowsReadKeeps, AnsweredKeeps, LedgerKeeps, LostKeeps DEF IInv
<1>. QED
  BY <1>1, <1>2

LEMMA Invariance == Spec => []IInv
  BY InitHolds, NextKeeps, PTL DEF Spec

\* A transaction has at most one row for its payment, however often it is paid:
\* getPaidTransactionReportId finds the one there is.
THEOREM TypeCorrect == Spec => []TypeOK
<1>1. ASSUME IInv PROVE TypeOK
  <2>1. ASSUME NEW t \in Txs PROVE Cardinality({r \in rows : r.tx = t /\ r.kind = "paid"}) <= 1
    <3> DEFINE P == {r \in rows : r.tx = t /\ r.kind = "paid"}
    <3>. HIDE DEF P
    <3>1. ASSUME P = {} PROVE Cardinality(P) <= 1
      BY <3>1, FS_EmptySet
    <3>2. ASSUME NEW r \in P PROVE Cardinality(P) <= 1
      <4>1. P = {r}
        BY <1>1 DEF IInv, Numbered, P
      <4>2. Cardinality({r}) = 1
        BY FS_Singleton
      <4>. QED
        BY <4>1, <4>2
    <3>3. Cardinality(P) <= 1
      <4>1. P = {} \/ \E r : r \in P
        OBVIOUS
      <4>. QED
        BY <3>1, <3>2, <4>1
    <3>. QED
      BY <3>3 DEF P
  <2>. QED
    BY <1>1, <2>1 DEF IInv, Types, TypeOK
<1>. QED
  BY <1>1, Invariance, PTL

\* TurnoverReportingTaskHandler::run deletes, unless a request was rejected, only
\* rows it has read and reported, and it reports one more than once only after a
\* rejected request or a crash.
THEOREM ReportedOnceAlways == Spec => []ReportedOnce
<1>1. IInv => ReportedOnce
  BY DEF IInv, Ledger, ReportedOnce
<1>. QED
  BY <1>1, Invariance, PTL
=============================================================================
