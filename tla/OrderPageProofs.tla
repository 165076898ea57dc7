---------------------------- MODULE OrderPageProofs ----------------------------
(***************************************************************************)
(* Proofs about Refund and OrderPage, for any number of administrators,    *)
(* requests of the page and amounts.                                       *)
(*                                                                         *)
(* Of the server first.  The check of the amount and the index of the      *)
(* reference are both read before TWINT is called, from rows that are      *)
(* written after.  They are good for one request at a time, which Alone    *)
(* says: then the rows tell what TWINT has given back (RowsTell), but for  *)
(* what faults took away, and a reference is free unless the row of its    *)
(* last use was lost (References).  Whatever the requests do, the rows     *)
(* have all that TWINT has reversed but what is still to be written        *)
(* (Rows, Told).                                                           *)
(*                                                                         *)
(* Then of the page: a request of its own that has reversed something and  *)
(* is not yet told of is within what TWINT has made (Owes).  As long as    *)
(* nothing was entered while a sum was on its way, nor confirmed while one *)
(* was or would be, the page has one request at most, with no sum on its   *)
(* way (InForm), and the sums that arrive are between what the page was    *)
(* told and what there is (SumShown); the same for the log (LogShown).     *)
(***************************************************************************)
EXTENDS OrderPage, TLAPS, FiniteSetTheorems

Serving(a) == pc[a] \notin {"idle", "browser"}

\* TypeOK, without what the sums may not exceed.
Types ==
    /\ twint \in [count : Nat, sum : Nat]
    /\ history \in [count : Nat, sum : Nat]
    /\ refs \subseteq Nat
    /\ doubled \in Nat
    /\ pc \in [Admins -> {"idle", "check", "index", "call", "write", "next", "browser"}]
    /\ want \in [Admins -> 0..(Amount + 1)]
    /\ index \in [Admins -> Nat]
    /\ met \in BOOLEAN
    /\ faults \in 0..MaxFaults

Asking(a) == Serving(a) => want[a] > 0

\* One request at a time.
Alone == \A a, b \in Admins : Serving(a) /\ Serving(b) => a = b

NobodyWrites == \A a \in Admins : pc[a] # "write"

\* Without faults the rows hold every reversal, but for the one to be written.
RowsTell ==
    /\ history.count = 0 => history.sum = 0
    /\ NobodyWrites => twint.sum = history.sum
    /\ \A a \in Admins :
          /\ pc[a] = "write" => twint.sum = history.sum + Limited(want[a])
          /\ pc[a] \in {"index", "call"} => twint.sum + Limited(want[a]) <= Amount

\* The next index is free, or a fault has taken the row of its last use.
References ==
    /\ refs \subseteq 1..(history.count + 1)
    /\ \A a \in Admins : pc[a] = "call" => index[a] = history.count + 1
    /\ doubled <= faults
    /\ NobodyWrites /\ history.count + 1 \in refs => doubled + 1 <= faults

IInv ==
    /\ Types
    /\ \A a \in Admins : Asking(a)
    /\ ~met => Alone /\ References /\ (faults = 0 => RowsTell)

-----------------------------------------------------------------------------
LEMMA InitHolds == Init => IInv
<1> SUFFICES ASSUME Init PROVE IInv
  OBVIOUS
<1> USE AmountAssumption, FaultsAssumption DEF Init, Nothing
<1>1. Types
  <2>1. twint \in [count : Nat, sum : Nat] /\ history \in [count : Nat, sum : Nat]
    OBVIOUS
  <2>2. pc \in [Admins -> {"idle", "check", "index", "call", "write", "next", "browser"}]
    OBVIOUS
  <2>3. want \in [Admins -> 0..(Amount + 1)] /\ index \in [Admins -> Nat]
    OBVIOUS
  <2>4. refs \subseteq Nat /\ doubled \in Nat /\ faults \in 0..MaxFaults
    OBVIOUS
  <2>5. met \in BOOLEAN
    OBVIOUS
  <2>. QED
    BY <2>1, <2>2, <2>3, <2>4, <2>5 DEF Types
<1>2. \A a \in Admins : pc[a] = "idle"
  OBVIOUS
<1>3. (\A a \in Admins : Asking(a)) /\ Alone
  BY <1>2 DEF Asking, Alone, Serving
<1>4. References
  BY <1>2 DEF References
<1>5. RowsTell
  BY <1>2 DEF RowsTell
<1>. QED
  BY <1>1, <1>3, <1>4, <1>5 DEF IInv

LEMMA Limits ==
    ASSUME NEW n \in Nat
    PROVE  Limited(n) \in Nat /\ Limited(n) <= Amount /\ Limited(n) <= n
BY AmountAssumption DEF Limited

\* The end of a request, wherever it is and whatever else stays.
LEMMA DoneTypes ==
    ASSUME NEW a \in Admins, Types, Done(a)
    PROVE  /\ pc' \in [Admins -> {"idle", "check", "index", "call", "write", "next", "browser"}]
           /\ want' \in [Admins -> 0..(Amount + 1)]
           /\ index' \in [Admins -> Nat]
           /\ pc'[a] = "idle"
           /\ \A b \in Admins \ {a} : pc'[b] = pc[b] /\ want'[b] = want[b] /\ index'[b] = index[b]
BY AmountAssumption DEF Types, Done

LEMMA GotoTypes ==
    ASSUME NEW a \in Admins, Types,
           NEW label \in {"index", "write", "next"}, Goto(a, label)
    PROVE  /\ pc' \in [Admins -> {"idle", "check", "index", "call", "write", "next", "browser"}]
           /\ pc'[a] = label
           /\ \A b \in Admins \ {a} : pc'[b] = pc[b]
           /\ want' = want /\ index' = index
BY DEF Types, Goto

LEMMA RequestKeeps ==
    ASSUME IInv, NEW a \in Admins, NEW amount \in 1..(Amount + 1), Request(a, amount)
    PROVE  IInv'
<1> USE DEF Request, shop, bank
<1>1. Types'
  BY AmountAssumption DEF IInv, Types
<1>2. \A b \in Admins : Asking(b)'
  BY <1>1 DEF IInv, Types, Asking, Serving
<1>3. ASSUME ~met' PROVE Alone' /\ References' /\ (faults' = 0 => RowsTell')
  <2>1. ~met /\ \A b \in Admins : ~Serving(b)
    BY <1>3 DEF Serving
  <2>2. pc' = [pc EXCEPT ![a] = "check"] /\ pc[a] = "idle"
    OBVIOUS
  <2>3. Alone'
    BY <2>1, <2>2 DEF Alone, Serving, IInv, Types
  <2>4. NobodyWrites /\ NobodyWrites' /\ \A b \in Admins : pc'[b] \notin {"index", "call", "write"}
    BY <2>1, <2>2 DEF Serving, NobodyWrites, IInv, Types
  <2>5. References'
    BY <2>1, <2>4 DEF References, IInv
  <2>6. faults' = 0 => RowsTell'
    BY <2>1, <2>4 DEF RowsTell, IInv
  <2>. QED
    BY <2>3, <2>5, <2>6
<1>. QED
  BY <1>1, <1>2, <1>3 DEF IInv

\* What is left of IInv when a request ends, goes on or is over at the server.
LEMMA Ends ==
    ASSUME IInv, NEW a \in Admins, Done(a), Types', met' = met, faults' \in Nat, faults' >= faults,
           history' = history,
           ~met => References',
           ~met /\ faults' = 0 =>
               IF Serving(a) THEN twint'.sum = history'.sum ELSE twint' = twint
    PROVE  IInv'
<1>1. /\ pc'[a] = "idle"
      /\ \A b \in Admins \ {a} : pc'[b] = pc[b] /\ want'[b] = want[b] /\ index'[b] = index[b]
  BY DoneTypes DEF IInv
<1>2. \A b \in Admins : Serving(b)' => Serving(b) /\ b # a
  BY <1>1 DEF Serving
<1>3. \A b \in Admins : Asking(b)'
  BY <1>1, <1>2 DEF IInv, Asking, Serving
<1>4. ~met => Alone'
  BY <1>2 DEF IInv, Alone
<1>5. ASSUME ~met, faults' = 0 PROVE RowsTell'
  <2>1. faults = 0 /\ RowsTell /\ Alone
    BY <1>5 DEF IInv, Types
  <2>2. CASE Serving(a)
    <3>1. \A b \in Admins : ~Serving(b)'
      BY <2>1, <2>2, <1>2 DEF Alone
    <3>. QED
      BY <2>1, <2>2, <3>1, <1>5 DEF RowsTell, Serving, NobodyWrites
  <2>3. CASE ~Serving(a)
    <3>1. NobodyWrites' => NobodyWrites
      BY <1>1, <2>3 DEF NobodyWrites, Serving
    <3>2. NobodyWrites' => twint'.sum = history'.sum
      BY <1>5, <2>1, <3>1 DEF RowsTell
    <3>3. \A b \in Admins : pc'[b] \in {"index", "call", "write"} =>
            twint' = twint /\ pc'[b] = pc[b] /\ want'[b] = want[b]
      BY <1>1, <1>5, <2>1, <2>3 DEF Serving, RowsTell, NobodyWrites, Alone
    <3>. QED
      BY <2>1, <3>2, <3>3 DEF RowsTell
  <2>. QED
    BY <2>2, <2>3
<1>. QED
  BY <1>3, <1>4, <1>5 DEF IInv

LEMMA CheckKeeps ==
    ASSUME IInv, NEW a \in Admins, Check(a)
    PROVE  IInv'
<1> USE DEF Check, shop, bank
<1>1. Serving(a) /\ pc[a] = "check" /\ want[a] \in Nat
  BY AmountAssumption DEF Serving, IInv, Types
<1>2. ASSUME ~met PROVE NobodyWrites /\ \A b \in Admins \ {a} : ~Serving(b)
  BY <1>1, <1>2 DEF IInv, Alone, Serving, NobodyWrites
<1>3. CASE Done(a)
  <2>1. Types'
    BY <1>3, DoneTypes DEF IInv, Types
  <2>2. ~met => References'
    BY <1>1, <1>2, <1>3, DoneTypes DEF IInv, References, NobodyWrites
  <2>3. ~met /\ faults' = 0 => twint'.sum = history'.sum
    BY <1>2 DEF IInv, RowsTell
  <2>. QED
    BY <1>3, <2>1, <2>2, <2>3, Ends DEF IInv, Types
<1>4. CASE want[a] <= Refundable /\ Goto(a, "index")
  <2>1. /\ pc'[a] = "index" /\ want' = want /\ index' = index
        /\ \A b \in Admins \ {a} : pc'[b] = pc[b]
    BY <1>4, GotoTypes DEF IInv
  <2>2. Types'
    BY <1>4, GotoTypes DEF IInv, Types
  <2>3. \A b \in Admins : Serving(b)' <=> Serving(b)
    BY <1>1, <2>1 DEF Serving
  <2>4. (\A b \in Admins : Asking(b)') /\ (~met => Alone')
    BY <2>1, <2>3 DEF IInv, Asking, Alone
  <2>5. ~met => References'
    BY <1>1, <1>2, <2>1 DEF IInv, References, NobodyWrites
  <2>6. ASSUME ~met, faults = 0 PROVE RowsTell'
    <3>1. twint.sum = history.sum /\ RowsTell
      BY <1>2, <2>6 DEF IInv, RowsTell
    <3>2. twint.sum + Limited(want[a]) <= Amount
      BY <1>1, <1>4, <3>1, Limits, AmountAssumption, EmptySumAssumption
      DEF Refundable, Total, RowsTell, IInv, Types
    <3>3. \A b \in Admins : pc'[b] \in {"index", "call", "write"} => b = a
      BY <1>2, <2>1, <2>6 DEF Serving
    <3>. QED
      BY <1>1, <2>1, <3>1, <3>2, <3>3 DEF RowsTell, NobodyWrites
  <2>. QED
    BY <2>2, <2>4, <2>5, <2>6 DEF IInv
<1>5. Refundable \in Int
  BY AmountAssumption, EmptySumAssumption DEF Refundable, Total, IInv, Types
<1>6. want[a] > Refundable \/ want[a] <= Refundable
  BY <1>1, <1>5
<1>. QED
  BY <1>3, <1>4, <1>6

LEMMA ReadIndexKeeps ==
    ASSUME IInv, NEW a \in Admins, ReadIndex(a)
    PROVE  IInv'
<1> USE DEF ReadIndex, shop, bank
<1>1. /\ pc[a] = "index" /\ pc'[a] = "call"
      /\ index'[a] = history.count + 1
      /\ want' = want
      /\ \A b \in Admins \ {a} : pc'[b] = pc[b] /\ index'[b] = index[b]
  BY DEF IInv, Types
<1>2. Types'
  BY DEF IInv, Types
<1>3. \A b \in Admins : Serving(b)' <=> Serving(b)
  BY <1>1 DEF Serving
<1>4. (\A b \in Admins : Asking(b)') /\ (~met => Alone')
  BY <1>1, <1>3 DEF IInv, Asking, Alone
<1>5. NobodyWrites' <=> NobodyWrites
  BY <1>1 DEF NobodyWrites
<1>6. ~met => References'
  BY <1>1, <1>5 DEF IInv, References
<1>7. ~met /\ faults = 0 => RowsTell'
  BY <1>1, <1>5 DEF IInv, RowsTell
<1>. QED
  BY <1>2, <1>4, <1>6, <1>7 DEF IInv

\* What a reversal makes of the indexes used and of the count of doubles.
LEMMA Added ==
    ASSUME NEW n \in Nat, NEW used, used \subseteq 1..(n + 1)
    PROVE  used \cup {n + 1} \subseteq 1..(n + 1)
<1>1. n + 1 \in 1..(n + 1)
  OBVIOUS
<1>. QED
  BY <1>1

LEMMA ReversedTypes ==
    ASSUME IInv, NEW a \in Admins, Reversed(a)
    PROVE  /\ refs' = refs \cup {index[a]} /\ refs' \subseteq Nat
           /\ doubled' \in Nat
           /\ doubled' = doubled \/ (index[a] \in refs /\ doubled' = doubled + 1)
           /\ twint' \in [count : Nat, sum : Nat]
           /\ twint'.sum = twint.sum + Limited(want[a])
<1>1. /\ index[a] \in Nat /\ refs \subseteq Nat /\ doubled \in Nat
      /\ want[a] \in Nat /\ twint \in [count : Nat, sum : Nat]
  BY AmountAssumption DEF IInv, Types
<1>2. refs' = refs \cup {index[a]}
  BY DEF Reversed
<1>3. refs' \subseteq Nat
  BY <1>1, <1>2
<1>4. doubled' = IF index[a] \in refs THEN doubled + 1 ELSE doubled
  BY DEF Reversed
<1>5. doubled' = doubled \/ (index[a] \in refs /\ doubled' = doubled + 1)
  BY <1>4
<1>6. doubled' \in Nat
  BY <1>1, <1>5
<1>7. twint' = [count |-> twint.count + 1, sum |-> twint.sum + Limited(want[a])]
  BY DEF Reversed, Plus
<1>8. Limited(want[a]) \in Nat
  BY <1>1, Limits
<1>. QED
  BY <1>1, <1>2, <1>3, <1>5, <1>6, <1>7, <1>8

LEMMA CallKeeps ==
    ASSUME IInv, NEW a \in Admins, Call(a)
    PROVE  IInv'
<1> USE DEF Call, shop
<1>1. Serving(a) /\ pc[a] = "call" /\ want[a] \in Nat
  BY AmountAssumption DEF Serving, IInv, Types
<1>2. ASSUME ~met PROVE NobodyWrites /\ \A b \in Admins \ {a} : ~Serving(b)
  BY <1>1, <1>2 DEF IInv, Alone, Serving, NobodyWrites
<1>3. CASE Done(a) /\ UNCHANGED bank
  <2>0. met' = met /\ history' = history /\ faults' = faults /\ faults \in Nat
    BY FaultsAssumption DEF IInv, Types
  <2>1. Types'
    BY <1>3, DoneTypes DEF IInv, Types, bank
  <2>2. ~met => References'
    BY <1>1, <1>2, <1>3, DoneTypes DEF IInv, References, NobodyWrites, bank
  <2>3. ~met /\ faults' = 0 => twint'.sum = history'.sum
    BY <1>2, <1>3 DEF IInv, RowsTell, bank
  <2>. QED
    BY <1>1, <1>3, <2>0, <2>1, <2>2, <2>3, Ends
<1>4. CASE Reversed(a) /\ Goto(a, AfterSuccess)
  <2>1. /\ pc'[a] = "write" /\ want' = want /\ index' = index
        /\ \A b \in Admins \ {a} : pc'[b] = pc[b]
    BY <1>4, GotoTypes DEF IInv, AfterSuccess
  <2>2. Types'
    BY <1>4, ReversedTypes, GotoTypes DEF IInv, Types, AfterSuccess
  <2>5. \A b \in Admins : Serving(b)' <=> Serving(b)
    BY <1>1, <2>1 DEF Serving
  <2>6. (\A b \in Admins : Asking(b)') /\ (~met => Alone')
    BY <2>1, <2>5 DEF IInv, Asking, Alone
  <2>7. ~NobodyWrites'
    BY <2>1 DEF NobodyWrites
  <2>8. ASSUME ~met PROVE References'
    <3>1. NobodyWrites /\ References /\ index[a] = history.count + 1
      BY <1>1, <1>2, <2>8 DEF IInv, References
    <3>2. refs' \subseteq 1..(history.count + 1)
      BY <1>4, <3>1, ReversedTypes, Added DEF References, IInv, Types
    <3>3. \A b \in Admins : pc'[b] # "call"
      BY <1>2, <2>1, <2>8 DEF Serving
    <3>4. doubled' <= faults
      BY <1>4, <3>1, ReversedTypes DEF References, IInv, Types
    <3>. QED
      BY <2>7, <3>2, <3>3, <3>4 DEF References
  <2>9. ASSUME ~met, faults = 0 PROVE RowsTell'
    <3>1. \A b \in Admins : pc'[b] \in {"index", "call", "write"} => b = a
      BY <1>2, <2>1, <2>9 DEF Serving
    <3>2. twint'.sum = history.sum + Limited(want[a])
      BY <1>2, <1>4, <2>9, ReversedTypes DEF IInv, RowsTell
    <3>. QED
      BY <2>1, <2>7, <2>9, <3>1, <3>2 DEF RowsTell, IInv
  <2>. QED
    BY <2>2, <2>6, <2>8, <2>9 DEF IInv
<1>. QED
  BY <1>3, <1>4

LEMMA WriteRowKeeps ==
    ASSUME IInv, NEW a \in Admins, WriteRow(a)
    PROVE  IInv'
<1> USE DEF WriteRow, bank
<1>1. Serving(a) /\ pc[a] = "write" /\ want[a] \in Nat
  BY AmountAssumption DEF Serving, IInv, Types
<1>2. ASSUME ~met PROVE \A b \in Admins \ {a} : ~Serving(b)
  BY <1>1, <1>2 DEF IInv, Alone
<1>3. /\ pc'[a] = "next" /\ want' = want /\ index' = index
      /\ \A b \in Admins \ {a} : pc'[b] = pc[b]
  BY GotoTypes DEF IInv
<1>4. /\ history' \in [count : Nat, sum : Nat]
      /\ history'.count = history.count + 1
      /\ history'.sum = history.sum + Limited(want[a])
  BY <1>1, Limits DEF Plus, Recorded, IInv, Types
<1>5. Types'
  BY <1>4, GotoTypes DEF IInv, Types
<1>6. \A b \in Admins : Serving(b)' <=> Serving(b)
  BY <1>1, <1>3 DEF Serving
<1>7. (\A b \in Admins : Asking(b)') /\ (~met => Alone')
  BY <1>3, <1>6 DEF IInv, Asking, Alone
<1>8. ASSUME ~met PROVE \A b \in Admins : pc'[b] \notin {"index", "call", "write"}
  BY <1>2, <1>3, <1>8 DEF Serving
<1>9. ASSUME ~met PROVE References'
  <2>1. References
    BY <1>9 DEF IInv
  <2>2. refs' \subseteq 1..(history.count + 1) /\ history.count \in Nat
    BY <2>1 DEF References, IInv, Types
  <2>3. refs' \subseteq 1..(history'.count + 1) /\ history'.count + 1 \notin refs'
    BY <1>4, <2>2
  <2>. QED
    BY <1>8, <1>9, <2>1, <2>3 DEF References
<1>10. ASSUME ~met, faults = 0 PROVE RowsTell'
  <2>1. RowsTell
    BY <1>10 DEF IInv
  <2>2. twint'.sum = history'.sum
    BY <1>1, <1>4, <2>1 DEF RowsTell
  <2>3. history'.count # 0
    BY <1>4 DEF IInv, Types
  <2>. QED
    BY <1>8, <1>10, <2>2, <2>3 DEF RowsTell
<1>. QED
  BY <1>5, <1>7, <1>9, <1>10 DEF IInv

LEMMA AnswerKeeps ==
    ASSUME IInv, NEW a \in Admins, Answer(a)
    PROVE  IInv'
<1> USE DEF Answer, shop, bank
<1>1. /\ pc[a] = "next" /\ pc'[a] = "browser" /\ want' = want /\ index' = index
      /\ \A b \in Admins \ {a} : pc'[b] = pc[b]
  BY DEF IInv, Types
<1>2. Types'
  BY DEF IInv, Types
<1>3. \A b \in Admins : Serving(b)' => Serving(b)
  BY <1>1 DEF Serving
<1>4. (\A b \in Admins : Asking(b)') /\ (~met => Alone')
  BY <1>1, <1>3 DEF IInv, Asking, Alone
<1>5. NobodyWrites' <=> NobodyWrites
  BY <1>1 DEF NobodyWrites
<1>6. ~met => References'
  BY <1>1, <1>5 DEF IInv, References
<1>7. ~met /\ faults = 0 => RowsTell'
  BY <1>1, <1>5 DEF IInv, RowsTell
<1>. QED
  BY <1>2, <1>4, <1>6, <1>7 DEF IInv

LEMMA TransitionKeeps ==
    ASSUME IInv, NEW a \in Admins, Transition(a)
    PROVE  IInv'
<1> USE DEF Transition, bank
<1>1. ~Serving(a)
  BY DEF Serving
<1>2. Types'
  BY DoneTypes DEF IInv, Types
<1>3. \A b \in Admins : pc'[b] \in {"call", "write"} <=> pc[b] \in {"call", "write"}
  BY DoneTypes DEF IInv
<1>4. ~met => References'
  BY DoneTypes DEF IInv, References, NobodyWrites
<1>. QED
  BY <1>1, <1>2, <1>4, Ends DEF IInv, Types

LEMMA FaultKeeps ==
    ASSUME IInv, NEW a \in Admins, Fault(a)
    PROVE  IInv'
<1> USE DEF Fault, shop
<1>1. faults' = faults + 1 /\ faults' \in 0..MaxFaults /\ faults \in Nat
  BY FaultsAssumption DEF IInv, Types
<1>2. CASE Done(a) /\ UNCHANGED bank
  <2>1. Types'
    BY <1>1, <1>2, DoneTypes DEF IInv, Types, bank
  <2>2. ASSUME ~met PROVE References'
    <3>1. References /\ doubled \in Nat
      BY <2>2 DEF IInv, Types
    <3>2. \A b \in Admins : pc'[b] = "call" => pc[b] = "call" /\ index'[b] = index[b]
      BY <1>2, DoneTypes DEF IInv
    <3>. QED
      BY <1>1, <1>2, <3>1, <3>2 DEF References, bank
  <2>. QED
    BY <1>1, <1>2, <2>1, <2>2, Ends DEF IInv, Types
<1>3. CASE pc[a] = "call" /\ Reversed(a) /\ Done(a)
  <2>1. want[a] \in Nat /\ index[a] \in Nat /\ Serving(a)
    BY <1>3, AmountAssumption DEF IInv, Types, Serving
  <2>4. Types'
    BY <1>1, <1>3, ReversedTypes, DoneTypes DEF IInv, Types
  <2>5. ASSUME ~met PROVE References'
    <3>1. References /\ index[a] = history.count + 1 /\ doubled \in Nat /\ NobodyWrites
      BY <1>3, <2>1, <2>5 DEF IInv, References, Types, Alone, NobodyWrites, Serving
    <3>2. refs' \subseteq 1..(history.count + 1)
      BY <1>3, <3>1, ReversedTypes, Added DEF References, IInv, Types
    <3>3. \A b \in Admins : pc'[b] = "call" => pc[b] = "call" /\ index'[b] = index[b]
      BY <1>3, DoneTypes DEF IInv
    <3>4. doubled' + 1 <= faults' /\ doubled' <= faults'
      BY <1>1, <1>3, <3>1, ReversedTypes DEF References, IInv, Types
    <3>. QED
      BY <3>1, <3>2, <3>3, <3>4 DEF References
  <2>. QED
    BY <1>1, <1>3, <2>4, <2>5, Ends DEF IInv, Types
<1>4. CASE pc[a] = "write" /\ Goto(a, "next") /\ UNCHANGED bank
  <2>1. /\ pc'[a] = "next" /\ want' = want /\ index' = index
        /\ \A b \in Admins \ {a} : pc'[b] = pc[b]
    BY <1>4, GotoTypes DEF IInv
  <2>2. Types'
    BY <1>1, <1>4, GotoTypes DEF IInv, Types, bank
  <2>3. \A b \in Admins : Serving(b)' <=> Serving(b)
    BY <1>4, <2>1 DEF Serving
  <2>4. (\A b \in Admins : Asking(b)') /\ (~met => Alone')
    BY <2>1, <2>3 DEF IInv, Asking, Alone
  <2>5. ASSUME ~met PROVE References'
    <3>1. References /\ doubled \in Nat
      BY <2>5 DEF IInv, Types
    <3>2. \A b \in Admins : pc'[b] = "call" => pc[b] = "call" /\ index'[b] = index[b]
      BY <2>1
    <3>. QED
      BY <1>1, <1>4, <3>1, <3>2 DEF References, bank
  <2>. QED
    BY <1>1, <2>2, <2>4, <2>5 DEF IInv
<1>. QED
  BY <1>2, <1>3, <1>4

LEMMA NextKeeps == IInv /\ [Next]_vars => IInv'
<1> SUFFICES ASSUME IInv, [Next]_vars PROVE IInv'
  OBVIOUS
<1>1. CASE UNCHANGED vars
  BY <1>1 DEF IInv, Types, Asking, Serving, Alone, References, NobodyWrites, RowsTell,
              vars, shop, bank, local
<1>2. CASE Next
  BY <1>2, RequestKeeps, CheckKeeps, ReadIndexKeeps, CallKeeps, WriteRowKeeps,
     AnswerKeeps, TransitionKeeps, FaultKeeps
  DEF Next
<1>. QED
  BY <1>1, <1>2

LEMMA OneByOneOfInv == IInv => AskedOneByOne
<1> SUFFICES ASSUME IInv, ~met PROVE AskedWithinLimit /\ ReferencesDiffer
  BY DEF AskedOneByOne
<1>. QED
  BY DEF IInv, References, RowsTell, AskedWithinLimit, ReferencesDiffer

\* As long as one refund is over before the next one begins TWINT is asked for
\* no more than is left, and each reversal has an index of its own unless a
\* fault took the row of an earlier one: TwintController::refund reads the rows
\* first and writes its own last.
THEOREM AskedOneByOneAlways == Spec => []AskedOneByOne
  BY InitHolds, NextKeeps, OneByOneOfInv, PTL DEF Spec
-----------------------------------------------------------------------------
(***************************************************************************)
(* However many requests meet, the rows lack no more than what is about to *)
(* be written and what faults took away (Rows).  To say so of any number   *)
(* of requests takes a sum over those that write.                          *)
(***************************************************************************)
\* n is the sum of w over T: some function adds up every part of T.
IsSum(T, w, n) ==
    \E s \in [SUBSET T -> Nat] :
        /\ s[{}] = 0 /\ s[T] = n
        /\ \A U \in SUBSET T : \A x \in U : s[U] = s[U \ {x}] + w[x]

LEMMA SumEmpty ==
    ASSUME NEW w, NEW n
    PROVE  IsSum({}, w, n) <=> n = 0
<1>1. ASSUME IsSum({}, w, n) PROVE n = 0
  BY <1>1 DEF IsSum
<1>2. ASSUME n = 0 PROVE IsSum({}, w, n)
  <2> DEFINE s == [U \in SUBSET {} |-> 0]
  <2>1. s \in [SUBSET {} -> Nat] /\ s[{}] = 0
    OBVIOUS
  <2>2. \A U \in SUBSET {} : \A x \in U : s[U] = s[U \ {x}] + w[x]
    OBVIOUS
  <2>. QED
    BY <1>2, <2>1, <2>2 DEF IsSum
<1>. QED
  BY <1>1, <1>2

LEMMA SumAdd ==
    ASSUME NEW T, NEW w, NEW n, NEW x, x \notin T, IsSum(T, w, n),
           \A y \in T \cup {x} : w[y] \in Nat
    PROVE  IsSum(T \cup {x}, w, n + w[x])
<1>1. PICK s \in [SUBSET T -> Nat] :
        /\ s[{}] = 0 /\ s[T] = n
        /\ \A U \in SUBSET T : \A y \in U : s[U] = s[U \ {y}] + w[y]
  BY DEF IsSum
<1> DEFINE S == SUBSET (T \cup {x})
           f == [U \in S |-> IF x \in U THEN s[U \ {x}] + w[x] ELSE s[U]]
<1>2. ASSUME NEW U \in S PROVE (x \in U => U \ {x} \in SUBSET T) /\ (x \notin U => U \in SUBSET T)
  OBVIOUS
<1>3. f \in [S -> Nat]
  <2>1. ASSUME NEW U \in S PROVE (IF x \in U THEN s[U \ {x}] + w[x] ELSE s[U]) \in Nat
    BY <1>2
  <2>. QED
    BY <2>1
<1>4. f[{}] = 0
  BY <1>1
<1>5. f[T \cup {x}] = n + w[x]
  <2>1. (T \cup {x}) \ {x} = T
    OBVIOUS
  <2>. QED
    BY <1>1, <2>1
<1>6. ASSUME NEW U \in S, NEW y \in U PROVE f[U] = f[U \ {y}] + w[y]
  <2>1. U \ {y} \in S
    OBVIOUS
  <2>2. CASE y = x
    <3>1. f[U] = s[U \ {x}] + w[x] /\ f[U \ {x}] = s[U \ {x}]
      BY <2>1, <2>2
    <3>. QED
      BY <2>2, <3>1
  <2>3. CASE y # x /\ x \in U
    <3>1. (U \ {y}) \ {x} = (U \ {x}) \ {y} /\ U \ {x} \in SUBSET T /\ y \in U \ {x}
      BY <2>3
    <3>2. (U \ {x}) \ {y} \in SUBSET T
      BY <3>1
    <3>3. s[U \ {x}] = s[(U \ {x}) \ {y}] + w[y]
      BY <1>1, <3>1
    <3>4. f[U] = s[U \ {x}] + w[x] /\ f[U \ {y}] = s[(U \ {x}) \ {y}] + w[x]
      BY <2>1, <2>3, <3>1
    <3>5. s[(U \ {x}) \ {y}] \in Nat /\ w[x] \in Nat /\ w[y] \in Nat
      BY <3>1, <3>2
    <3>. QED
      BY <3>3, <3>4, <3>5
  <2>4. CASE x \notin U
    BY <1>1, <1>2, <2>1, <2>4
  <2>. QED
    BY <2>2, <2>3, <2>4
<1>. QED
  BY <1>3, <1>4, <1>5, <1>6 DEF IsSum
LEMMA SumRemove ==
    ASSUME NEW T, NEW w, NEW n, NEW x \in T, IsSum(T, w, n), w[x] \in Nat
    PROVE  n - w[x] \in Nat /\ IsSum(T \ {x}, w, n - w[x])
<1>1. PICK s \in [SUBSET T -> Nat] :
        /\ s[{}] = 0 /\ s[T] = n
        /\ \A U \in SUBSET T : \A y \in U : s[U] = s[U \ {y}] + w[y]
  BY DEF IsSum
<1> DEFINE f == [U \in SUBSET (T \ {x}) |-> s[U]]
<1>2. n = s[T \ {x}] + w[x] /\ s[T \ {x}] \in Nat
  BY <1>1
<1>3. f \in [SUBSET (T \ {x}) -> Nat] /\ f[{}] = 0 /\ f[T \ {x}] = n - w[x]
  BY <1>1, <1>2
<1>4. ASSUME NEW U \in SUBSET (T \ {x}), NEW y \in U PROVE f[U] = f[U \ {y}] + w[y]
  BY <1>1
<1>. QED
  BY <1>2, <1>3, <1>4 DEF IsSum

LEMMA SumSame ==
    ASSUME NEW T, NEW w, NEW v, NEW n, IsSum(T, w, n), \A x \in T : w[x] = v[x]
    PROVE  IsSum(T, v, n)
BY DEF IsSum

LEMMA SumIsNat ==
    ASSUME NEW T, NEW w, NEW n, IsSum(T, w, n)
    PROVE  n \in Nat
BY DEF IsSum
-----------------------------------------------------------------------------
Lim == [a \in Admins |-> Limited(want[a])]

TypeInv == TypeOK /\ \A a \in Admins : pc[a] = "call" => index[a] > 0

Rows ==
    /\ history.count = 0 => history.sum = 0
    /\ \E n \in Nat :
          /\ IsSum(Writing, Lim, n)
          /\ history.sum + n <= twint.sum
          /\ faults = 0 => twint.sum = history.sum + n
    /\ IsFiniteSet(Writing)
    /\ history.count + Cardinality(Writing) <= twint.count
    /\ twint.count <= history.count + Cardinality(Writing) + faults

\* What is true of the answers, and of the state of the transaction.
Told ==
    /\ tx = "refunded" => history.sum = Amount
    /\ twint.sum = 0 => tx = "paid"
    /\ \A a \in Admins :
          /\ pc[a] # "idle" => want[a] > 0
          /\ pc[a] \in {"write", "next", "browser"} => twint.sum > 0
          /\ seen[a] = "refunded" => history.sum = Amount /\ pc[a] \in {"idle", "check"}
          /\ seen[a] \in {"refunded", "refunded_partially"} => tx # "paid"
          /\ action[a] = "refund" => history.sum = Amount

\* Without faults somebody is there to tell what was given back.
Shown ==
    /\ history.sum = Amount => tx = "refunded" \/ \E a \in Admins :
          pc[a] = "next" \/ (pc[a] = "browser" /\ action[a] = "refund")
    /\ twint.sum > 0 => tx # "paid" \/ \E a \in Admins :
          pc[a] \in {"write", "next"} \/ (pc[a] = "browser" /\ action[a] # "none")

Whole == TypeInv /\ Rows /\ Told /\ (faults = 0 => Shown)

LEMMA RowsStay ==
    ASSUME TypeInv, Rows, Writing' = Writing, \A a \in Writing : want'[a] = want[a],
           history' = history, twint' = twint, faults' \in Nat, faults' >= faults
    PROVE  Rows'
<1>1. PICK n \in Nat : /\ IsSum(Writing, Lim, n)
                       /\ history.sum + n <= twint.sum
                       /\ faults = 0 => twint.sum = history.sum + n
  BY DEF Rows
<1>2. \A a \in Writing : Lim[a] = Lim'[a]
  BY DEF Lim, Limited, Writing
<1>3. IsSum(Writing', Lim', n)
  BY <1>1, <1>2, SumSame
<1>4. Cardinality(Writing) \in Nat /\ faults \in Nat
  BY FS_CardinalityType, FaultsAssumption DEF Rows, TypeInv, TypeOK
<1>5. \E m \in Nat : /\ IsSum(Writing', Lim', m)
                     /\ history'.sum + m <= twint'.sum
                     /\ faults' = 0 => twint'.sum = history'.sum + m
  BY <1>1, <1>3, <1>4
<1>6. twint.count \in Nat /\ history.count \in Nat
  BY DEF TypeInv, TypeOK, Log
<1>. QED
  BY <1>4, <1>5, <1>6 DEF Rows

\* A reversal TWINT has made: its row is to be written, or a fault has it.
LEMMA RowsReversed ==
    ASSUME TypeInv, Rows, NEW a \in Admins, a \notin Writing,
           \A b \in Writing : want'[b] = want[b],
           history' = history, twint' = Plus(twint, Limited(want[a])),
           \/ Writing' = Writing \cup {a} /\ faults' = faults /\ want'[a] = want[a]
           \/ Writing' = Writing /\ faults' = faults + 1
    PROVE  Rows'
<1>1. PICK n \in Nat : /\ IsSum(Writing, Lim, n)
                       /\ history.sum + n <= twint.sum
                       /\ faults = 0 => twint.sum = history.sum + n
  BY DEF Rows
<1>2. \A b \in Admins : Lim[b] \in Nat /\ Lim[b] = Limited(want[b])
  BY Limits, AmountAssumption DEF Lim, TypeInv, TypeOK
<1>3. \A b \in Admins : want'[b] = want[b] => Lim'[b] = Lim[b]
  BY DEF Lim, Limited
<1>4. /\ Cardinality(Writing) \in Nat /\ faults \in Nat
      /\ twint.count \in Nat /\ history.count \in Nat /\ twint.sum \in Nat /\ history.sum \in Nat
  BY FS_CardinalityType, FaultsAssumption, AmountAssumption DEF Rows, TypeInv, TypeOK, Log
<1>5. twint'.count = twint.count + 1 /\ twint'.sum = twint.sum + Lim[a]
  BY <1>2 DEF Plus
<1>6. CASE Writing' = Writing \cup {a} /\ faults' = faults /\ want'[a] = want[a]
  <2>1. IsSum(Writing', Lim', n + Lim[a])
    <3>1. \A b \in Writing \cup {a} : Lim[b] \in Nat
      BY <1>2 DEF Writing
    <3>2. IsSum(Writing \cup {a}, Lim, n + Lim[a])
      BY <1>1, <3>1, SumAdd
    <3>3. \A b \in Writing \cup {a} : Lim[b] = Lim'[b]
      BY <1>3, <1>6 DEF Writing
    <3>. QED
      BY <1>6, <3>2, <3>3, SumSame
  <2>2. \E m \in Nat : /\ IsSum(Writing', Lim', m)
                       /\ history'.sum + m <= twint'.sum
                       /\ faults' = 0 => twint'.sum = history'.sum + m
    BY <1>1, <1>2, <1>4, <1>5, <1>6, <2>1
  <2>3. IsFiniteSet(Writing') /\ Cardinality(Writing') = Cardinality(Writing) + 1
    BY <1>6, FS_AddElement DEF Rows
  <2>. QED
    BY <1>4, <1>5, <1>6, <2>2, <2>3 DEF Rows
<1>7. CASE Writing' = Writing /\ faults' = faults + 1
  <2>1. IsSum(Writing', Lim', n)
    <3>1. \A b \in Writing : Lim[b] = Lim'[b]
      BY <1>3 DEF Writing
    <3>. QED
      BY <1>1, <1>7, <3>1, SumSame
  <2>2. \E m \in Nat : /\ IsSum(Writing', Lim', m)
                       /\ history'.sum + m <= twint'.sum
                       /\ faults' = 0 => twint'.sum = history'.sum + m
    BY <1>1, <1>2, <1>4, <1>5, <1>7, <2>1
  <2>. QED
    BY <1>4, <1>5, <1>7, <2>2 DEF Rows
<1>. QED
  BY <1>6, <1>7

\* A row that is written, or was lost.
LEMMA RowsWritten ==
    ASSUME TypeInv, Rows, NEW a \in Writing, Writing' = Writing \ {a},
           \A b \in Writing \ {a} : want'[b] = want[b], twint' = twint,
           \/ history' = Plus(history, Limited(want[a])) /\ faults' = faults
           \/ history' = history /\ faults' = faults + 1
    PROVE  Rows'
<1>1. PICK n \in Nat : /\ IsSum(Writing, Lim, n)
                       /\ history.sum + n <= twint.sum
                       /\ faults = 0 => twint.sum = history.sum + n
  BY DEF Rows
<1>2. \A b \in Admins : Lim[b] \in Nat /\ Lim[b] = Limited(want[b])
  BY Limits, AmountAssumption DEF Lim, TypeInv, TypeOK
<1>3. \A b \in Writing \ {a} : Lim[b] = Lim'[b]
  BY DEF Lim, Limited, Writing
<1>4. /\ Cardinality(Writing) \in Nat /\ faults \in Nat /\ a \in Admins
      /\ twint.count \in Nat /\ history.count \in Nat /\ twint.sum \in Nat /\ history.sum \in Nat
  BY FS_CardinalityType, FaultsAssumption, AmountAssumption DEF Rows, TypeInv, TypeOK, Log, Writing
<1>5. n - Lim[a] \in Nat /\ IsSum(Writing \ {a}, Lim, n - Lim[a])
  BY <1>1, <1>2, <1>4, SumRemove
<1>6. IsSum(Writing', Lim', n - Lim[a])
  BY <1>3, <1>5, SumSame
<1>7. IsFiniteSet(Writing') /\ Cardinality(Writing') = Cardinality(Writing) - 1
  BY FS_RemoveElement DEF Rows
<1>8. CASE history' = Plus(history, Limited(want[a])) /\ faults' = faults
  <2>1. history'.count = history.count + 1 /\ history'.sum = history.sum + Lim[a]
    BY <1>2, <1>4, <1>8 DEF Plus
  <2>2. \E m \in Nat : /\ IsSum(Writing', Lim', m)
                       /\ history'.sum + m <= twint'.sum
                       /\ faults' = 0 => twint'.sum = history'.sum + m
    BY <1>1, <1>2, <1>4, <1>5, <1>6, <1>8, <2>1
  <2>. QED
    BY <1>4, <1>7, <1>8, <2>1, <2>2 DEF Rows
<1>9. CASE history' = history /\ faults' = faults + 1
  <2>2. \E m \in Nat : /\ IsSum(Writing', Lim', m)
                       /\ history'.sum + m <= twint'.sum
                       /\ faults' = 0 => twint'.sum = history'.sum + m
    BY <1>1, <1>2, <1>4, <1>5, <1>6, <1>9
  <2>. QED
    BY <1>4, <1>7, <1>9, <2>2 DEF Rows
<1>. QED
  BY <1>8, <1>9

\* What can still be written is within what TWINT has given back.
LEMMA RowsBound ==
    ASSUME TypeInv, Rows
    PROVE  /\ history.sum <= twint.sum /\ twint.sum <= Amount
           /\ \A a \in Writing : history.sum + Limited(want[a]) <= twint.sum
           /\ Writing = {} /\ faults = 0 => twint.sum = history.sum
<1>1. PICK n \in Nat : /\ IsSum(Writing, Lim, n)
                       /\ history.sum + n <= twint.sum
                       /\ faults = 0 => twint.sum = history.sum + n
  BY DEF Rows
<1>2. \A b \in Admins : Lim[b] \in Nat /\ Lim[b] = Limited(want[b])
  BY Limits, AmountAssumption DEF Lim, TypeInv, TypeOK
<1>3. twint.sum \in Nat /\ history.sum \in Nat /\ twint.sum <= Amount
  BY AmountAssumption DEF TypeInv, TypeOK, Log
<1>4. ASSUME NEW a \in Writing PROVE Lim[a] <= n
  <2>1. Lim[a] \in Nat
    BY <1>2 DEF Writing
  <2>2. n - Lim[a] \in Nat
    BY <1>1, <2>1, SumRemove
  <2>. QED
    BY <2>1, <2>2
<1>5. Writing = {} => n = 0
  BY <1>1, SumEmpty
<1>. QED
  BY <1>1, <1>2, <1>3, <1>4, <1>5 DEF Writing
LEMMA WholeInit == Init => Whole
<1> SUFFICES ASSUME Init PROVE Whole
  OBVIOUS
<1> USE AmountAssumption, FaultsAssumption DEF Init, Nothing
<1>1. TypeInv
  <2>1. /\ twint \in Log /\ history \in Log /\ faults \in 0..MaxFaults
        /\ want \in [Admins -> 0..(Amount + 1)] /\ index \in [Admins -> Nat]
    BY DEF Log
  <2>2. /\ pc \in [Admins -> {"idle", "check", "index", "call", "write", "next", "browser"}]
        /\ seen \in [Admins -> {"none", "cancelled"} \cup TxStates]
        /\ action \in [Admins -> {"none", "refund", "refund_partially"}]
    OBVIOUS
  <2>. QED
    BY <2>1, <2>2 DEF TypeInv, TypeOK, TxStates
<1>2. Writing = {}
  BY DEF Writing
<1>3. IsSum(Writing, Lim, 0)
  BY <1>2, SumEmpty
<1>4. Rows
  BY <1>2, <1>3, FS_EmptySet DEF Rows
<1>5. Told /\ Shown
  BY DEF Told, Shown
<1>. QED
  BY <1>1, <1>4, <1>5 DEF Whole

\* A reversal, as far as types go.
LEMMA ReversedInv ==
    ASSUME TypeInv, NEW a \in Admins, pc[a] = "call", Reversed(a)
    PROVE  /\ twint' \in Log /\ twint'.sum = twint.sum + Limited(want[a])
           /\ refs' \subseteq Nat \ {0} /\ doubled' \in Nat
<1>1. want[a] \in Nat /\ Limited(want[a]) \in Nat /\ index[a] \in Nat \ {0}
  BY Limits, AmountAssumption DEF TypeInv, TypeOK
<1>2. twint' \in Log /\ twint'.sum = twint.sum + Limited(want[a])
  BY <1>1, AmountAssumption DEF Reversed, Plus, Log, TypeInv, TypeOK
<1>3. refs' \subseteq Nat \ {0}
  BY <1>1 DEF Reversed, TypeInv, TypeOK
<1>4. doubled' \in Nat
  BY DEF Reversed, TypeInv, TypeOK
<1>. QED
  BY <1>2, <1>3, <1>4

LEMMA DoneInv ==
    ASSUME TypeInv, NEW a \in Admins, Done(a)
    PROVE  /\ pc' \in [Admins -> {"idle", "check", "index", "call", "write", "next", "browser"}]
           /\ want' \in [Admins -> 0..(Amount + 1)]
           /\ seen' \in [Admins -> {"none", "cancelled"} \cup TxStates]
           /\ index' \in [Admins -> Nat]
           /\ action' \in [Admins -> {"none", "refund", "refund_partially"}]
           /\ pc'[a] = "idle" /\ seen'[a] = "none" /\ action'[a] = "none"
           /\ \A b \in Admins \ {a} : /\ pc'[b] = pc[b] /\ want'[b] = want[b] /\ seen'[b] = seen[b]
                                      /\ index'[b] = index[b] /\ action'[b] = action[b]
BY AmountAssumption DEF TypeInv, TypeOK, Done

LEMMA GotoInv ==
    ASSUME TypeInv, NEW a \in Admins, NEW label \in {"index", "write", "next"}, Goto(a, label)
    PROVE  /\ pc' \in [Admins -> {"idle", "check", "index", "call", "write", "next", "browser"}]
           /\ pc'[a] = label /\ \A b \in Admins \ {a} : pc'[b] = pc[b]
           /\ UNCHANGED <<want, seen, index, action>>
BY DEF TypeInv, TypeOK, Goto

LEMMA TypeInvKeeps ==
    ASSUME TypeInv, Rows, Next
    PROVE  TypeInv'
<1>1. ASSUME NEW a \in Admins, NEW amount \in 1..(Amount + 1), Request(a, amount) PROVE TypeInv'
  BY <1>1, AmountAssumption DEF Request, shop, bank, TypeInv, TypeOK, TxStates
<1>2. ASSUME NEW a \in Admins, Check(a) PROVE TypeInv'
  <2>1. CASE Done(a)
    BY <1>2, <2>1, DoneInv DEF Check, shop, bank, TypeInv, TypeOK
  <2>2. CASE Goto(a, "index")
    BY <1>2, <2>2, GotoInv DEF Check, shop, bank, TypeInv, TypeOK
  <2>. QED
    BY <1>2, <2>1, <2>2 DEF Check
<1>3. ASSUME NEW a \in Admins, ReadIndex(a) PROVE TypeInv'
  <2>1. history.count + 1 \in Nat \ {0}
    BY DEF TypeInv, TypeOK, Log
  <2>. QED
    BY <1>3, <2>1 DEF ReadIndex, shop, bank, TypeInv, TypeOK
<1>4. ASSUME NEW a \in Admins, Call(a) PROVE TypeInv'
  <2>1. CASE Reversed(a) /\ Goto(a, "write")
    BY <1>4, <2>1, ReversedInv, GotoInv DEF Call, shop, TypeInv, TypeOK
  <2>2. CASE Done(a) /\ UNCHANGED bank
    BY <1>4, <2>2, DoneInv DEF Call, shop, bank, TypeInv, TypeOK
  <2>. QED
    BY <1>4, <2>1, <2>2 DEF Call, AfterSuccess
<1>5. ASSUME NEW a \in Admins, WriteRow(a) PROVE TypeInv'
  <2>1. a \in Writing /\ Goto(a, "next") /\ want[a] \in Nat /\ Limited(want[a]) \in Nat
    BY <1>5, Limits, AmountAssumption DEF WriteRow, Writing, TypeInv, TypeOK
  <2>2. history.sum + Limited(want[a]) <= Amount
    BY <2>1, RowsBound, AmountAssumption DEF TypeInv, TypeOK, Log
  <2>3. history' \in Log
    BY <1>5, <2>1, <2>2, AmountAssumption DEF WriteRow, Plus, Recorded, Log, TypeInv, TypeOK
  <2>. QED
    BY <1>5, <2>1, <2>3, GotoInv DEF WriteRow, bank, TypeInv, TypeOK
<1>6. ASSUME NEW a \in Admins, Answer(a) PROVE TypeInv'
  BY <1>6 DEF Answer, NextAction, shop, bank, TypeInv, TypeOK
<1>7. ASSUME NEW a \in Admins, Transition(a) PROVE TypeInv'
  BY <1>7, DoneInv DEF Transition, AfterTransition, bank, TypeInv, TypeOK, TxStates
<1>8. ASSUME NEW a \in Admins, Fault(a) PROVE TypeInv'
  <2>0. faults' \in 0..MaxFaults
    BY <1>8, FaultsAssumption DEF Fault, TypeInv, TypeOK
  <2>1. CASE Done(a) /\ UNCHANGED bank
    BY <1>8, <2>0, <2>1, DoneInv DEF Fault, shop, bank, TypeInv, TypeOK
  <2>2. CASE pc[a] = "call" /\ Reversed(a) /\ Done(a)
    BY <1>8, <2>0, <2>2, DoneInv, ReversedInv DEF Fault, shop, TypeInv, TypeOK
  <2>3. CASE Goto(a, "next") /\ UNCHANGED bank
    BY <1>8, <2>0, <2>3, GotoInv DEF Fault, shop, bank, TypeInv, TypeOK
  <2>. QED
    BY <1>8, <2>1, <2>2, <2>3 DEF Fault
<1>. QED
  BY <1>1, <1>2, <1>3, <1>4, <1>5, <1>6, <1>7, <1>8 DEF Next

LEMMA RowsKeep ==
    ASSUME TypeInv, Rows, Next
    PROVE  Rows'
<1>0. faults \in Nat /\ faults' \in Nat /\ pc \in [Admins -> {"idle", "check", "index", "call", "write", "next", "browser"}]
  BY TypeInvKeeps, FaultsAssumption DEF TypeInv, TypeOK
<1>1. ASSUME NEW a \in Admins, NEW amount \in 1..(Amount + 1), Request(a, amount) PROVE Rows'
  <2>1. Writing' = Writing /\ \A b \in Writing : want'[b] = want[b]
    BY <1>1 DEF Request, Writing, TypeInv, TypeOK
  <2>. QED
    BY <1>0, <1>1, <2>1, RowsStay DEF Request, shop, bank
\* A request that ends, or goes on from another place than the row.
<1>2. ASSUME NEW a \in Admins, pc[a] # "write", pc'[a] # "write",
             \A b \in Admins \ {a} : pc'[b] = pc[b] /\ want'[b] = want[b]
      PROVE  Writing' = Writing /\ \A b \in Writing : want'[b] = want[b]
  BY <1>2 DEF Writing
<1>3. ASSUME NEW a \in Admins, Check(a) \/ ReadIndex(a) \/ Answer(a) \/ Transition(a) PROVE Rows'
  <2>1. /\ pc[a] # "write" /\ pc'[a] # "write"
        /\ \A b \in Admins \ {a} : pc'[b] = pc[b] /\ want'[b] = want[b]
    BY <1>3, DoneInv, GotoInv DEF Check, ReadIndex, Answer, Transition, TypeInv, TypeOK
  <2>2. UNCHANGED <<history, twint, faults>>
    BY <1>3 DEF Check, ReadIndex, Answer, Transition, shop, bank
  <2>. QED
    BY <1>0, <1>2, <2>1, <2>2, RowsStay
<1>4. ASSUME NEW a \in Admins, Call(a) PROVE Rows'
  <2>1. CASE Reversed(a) /\ Goto(a, "write")
    <3>1. Writing' = Writing \cup {a} /\ a \notin Writing /\ want' = want
      BY <1>4, <2>1, GotoInv DEF Call, Writing
    <3>. QED
      BY <1>4, <2>1, <3>1, RowsReversed DEF Call, Reversed, shop
  <2>2. CASE Done(a) /\ UNCHANGED bank
    BY <1>0, <1>2, <1>4, <2>2, DoneInv, RowsStay DEF Call, shop, bank
  <2>. QED
    BY <1>4, <2>1, <2>2 DEF Call, AfterSuccess
<1>5. ASSUME NEW a \in Admins, WriteRow(a) PROVE Rows'
  <2>1. a \in Writing /\ Writing' = Writing \ {a} /\ want' = want
    BY <1>5, GotoInv DEF WriteRow, Writing
  <2>. QED
    BY <1>5, <2>1, RowsWritten DEF WriteRow, Recorded, bank
<1>6. ASSUME NEW a \in Admins, Fault(a) PROVE Rows'
  <2>0. faults' = faults + 1 /\ history' = history
    BY <1>6 DEF Fault, shop
  <2>1. CASE Done(a) /\ UNCHANGED bank /\ a \notin Writing
    BY <1>0, <1>2, <2>0, <2>1, DoneInv, RowsStay DEF bank, Writing
  <2>2. CASE (Done(a) \/ Goto(a, "next")) /\ UNCHANGED bank /\ a \in Writing
    <3>1. Writing' = Writing \ {a} /\ \A b \in Writing \ {a} : want'[b] = want[b]
      BY <2>2, DoneInv, GotoInv DEF Writing
    <3>. QED
      BY <2>0, <2>2, <3>1, RowsWritten DEF bank
  <2>3. CASE pc[a] = "call" /\ Reversed(a) /\ Done(a)
    <3>1. Writing' = Writing /\ a \notin Writing
      BY <2>3, DoneInv DEF Writing
    <3>2. \A b \in Writing : want'[b] = want[b]
      BY <2>3, DoneInv DEF Writing
    <3>. QED
      BY <2>0, <2>3, <3>1, <3>2, RowsReversed DEF Reversed
  <2>. QED
    BY <1>6, <2>1, <2>2, <2>3 DEF Fault, Writing
<1>. QED
  BY <1>1, <1>3, <1>4, <1>5, <1>6 DEF Next
LEMMA ToldKeeps ==
    ASSUME TypeInv, Rows, Told, Next
    PROVE  Told'
<1>0. /\ history.sum \in Nat /\ twint.sum \in Nat /\ history.sum <= twint.sum /\ twint.sum <= Amount
      /\ \A a \in Admins : want[a] \in Nat /\ Limited(want[a]) \in Nat /\ (want[a] > 0 => Limited(want[a]) > 0)
  <2>1. \A a \in Admins : want[a] \in Nat /\ Limited(want[a]) \in Nat /\ (want[a] > 0 => Limited(want[a]) > 0)
    BY AmountAssumption DEF TypeInv, TypeOK, Limited
  <2>. QED
    BY <2>1, RowsBound, AmountAssumption DEF TypeInv, TypeOK, Log
<1> USE AmountAssumption
<1>1. ASSUME NEW a \in Admins, NEW amount \in 1..(Amount + 1), Request(a, amount) PROVE Told'
  BY <1>1 DEF Request, shop, bank, Told, TypeInv, TypeOK
\* A request that ends tells nothing; the others are as they were.
<1>2. ASSUME NEW a \in Admins, Done(a), history' = history, twint'.sum \in Nat, twint'.sum >= twint.sum,
             tx' = tx
      PROVE  Told'
  <2>1. (tx' = "refunded" => history'.sum = Amount) /\ (twint'.sum = 0 => tx' = "paid")
    BY <1>0, <1>2 DEF Told
  <2>. QED
    BY <1>0, <1>2, <2>1, DoneInv DEF Told
<1>3. ASSUME NEW a \in Admins, Check(a) PROVE Told'
  <2>1. CASE Done(a)
    BY <1>0, <1>2, <1>3, <2>1 DEF Check, shop, bank
  <2>2. CASE want[a] <= Refundable /\ Goto(a, "index")
    <3>1. seen[a] # "refunded"
      BY <1>0, <1>3, <2>2 DEF Told, Rows, Check, Refundable, Total
    <3>. QED
      BY <1>3, <2>2, <3>1, GotoInv DEF Told, Check, shop, bank
  <2>3. want[a] > Refundable \/ want[a] <= Refundable
    BY <1>0, EmptySumAssumption DEF Refundable, Total
  <2>. QED
    BY <1>3, <2>1, <2>2, <2>3 DEF Check
<1>4. ASSUME NEW a \in Admins, ReadIndex(a) PROVE Told'
  BY <1>4 DEF ReadIndex, shop, bank, Told, TypeInv, TypeOK
<1>5. ASSUME NEW a \in Admins, Call(a) PROVE Told'
  <2>1. CASE Reversed(a) /\ Goto(a, "write")
    <3>1. twint'.sum = twint.sum + Limited(want[a]) /\ Limited(want[a]) > 0
      BY <1>0, <1>5, <2>1, ReversedInv DEF Call, Told
    <3>2. twint'.sum \in Nat /\ twint'.sum > 0 /\ history.sum # Amount
      BY <1>0, <1>5, <2>1, <3>1, ReversedInv DEF Call, Log
    <3>3. \A b \in Admins : twint.sum > 0 \/ pc[b] \notin {"write", "next", "browser"}
      BY DEF Told
    <3>. QED
      BY <1>0, <1>5, <2>1, <3>1, <3>2, <3>3, GotoInv DEF Told, Call, shop
  <2>2. CASE Done(a) /\ UNCHANGED bank
    BY <1>0, <1>2, <1>5, <2>2 DEF Call, shop, bank
  <2>. QED
    BY <1>5, <2>1, <2>2 DEF Call, AfterSuccess
<1>6. ASSUME NEW a \in Admins, WriteRow(a) PROVE Told'
  <2>1. Limited(want[a]) > 0 /\ history.sum + Limited(want[a]) <= twint.sum
    BY <1>0, <1>6, RowsBound DEF WriteRow, Told, Writing
  <2>2. history.sum # Amount
    BY <1>0, <2>1
  <2>. QED
    BY <1>6, <2>2, GotoInv DEF WriteRow, Told, bank
<1>7. ASSUME NEW a \in Admins, Answer(a) PROVE Told'
  <2>1. NextAction(a) = "refund" => history.sum = Amount
    BY EmptySumAssumption DEF NextAction, Total
  <2>. QED
    BY <1>7, <2>1 DEF Answer, shop, bank, Told, TypeInv, TypeOK
<1>8. ASSUME NEW a \in Admins, Transition(a) PROVE Told'
  <2>1. action[a] = "refund" => history.sum = Amount
    BY DEF Told
  <2>2. tx' = "refunded" => history.sum = Amount
    BY <1>8, <2>1 DEF Transition, AfterTransition, Told
  <2>3. twint.sum > 0 /\ (tx # "paid" => tx' # "paid")
    BY <1>8 DEF Transition, AfterTransition, Told
  <2>. QED
    BY <1>0, <1>8, <2>2, <2>3, DoneInv DEF Transition, bank, Told
<1>9. ASSUME NEW a \in Admins, Fault(a) PROVE Told'
  <2>1. CASE Done(a) /\ UNCHANGED bank
    BY <1>0, <1>2, <1>9, <2>1 DEF Fault, shop, bank
  <2>2. CASE pc[a] = "call" /\ Reversed(a) /\ Done(a)
    <3>1. twint'.sum \in Nat /\ twint'.sum >= twint.sum
      BY <1>0, <2>2, ReversedInv
    <3>. QED
      BY <1>2, <1>9, <2>2, <3>1 DEF Fault, shop
  <2>3. CASE pc[a] = "write" /\ Goto(a, "next") /\ UNCHANGED bank
    BY <1>9, <2>3, GotoInv DEF Fault, Told, shop, bank
  <2>. QED
    BY <1>9, <2>1, <2>2, <2>3 DEF Fault
<1>. QED
  BY <1>1, <1>3, <1>4, <1>5, <1>6, <1>7, <1>8, <1>9 DEF Next

LEMMA ShownKeeps ==
    ASSUME TypeInv, Rows, Told, Shown, Next, faults' = 0
    PROVE  Shown'
<1>0. /\ history.sum \in Nat /\ twint.sum \in Nat /\ history.sum <= twint.sum /\ twint.sum <= Amount
      /\ faults \in Nat
  BY RowsBound, AmountAssumption, FaultsAssumption DEF TypeInv, TypeOK, Log
<1> USE AmountAssumption
<1>1. ASSUME NEW a \in Admins, NEW amount \in 1..(Amount + 1), Request(a, amount) PROVE Shown'
  BY <1>1 DEF Request, shop, bank, Shown, TypeInv, TypeOK
<1>2. ASSUME NEW a \in Admins, Check(a) PROVE Shown'
  BY <1>2, DoneInv, GotoInv DEF Check, shop, bank, Shown
<1>3. ASSUME NEW a \in Admins, ReadIndex(a) PROVE Shown'
  BY <1>3 DEF ReadIndex, shop, bank, Shown, TypeInv, TypeOK
<1>4. ASSUME NEW a \in Admins, Call(a) PROVE Shown'
  <2>1. CASE Reversed(a) /\ Goto(a, "write")
    BY <1>4, <2>1, GotoInv DEF Call, shop, Shown
  <2>2. CASE Done(a) /\ UNCHANGED bank
    BY <1>4, <2>2, DoneInv DEF Call, shop, bank, Shown
  <2>. QED
    BY <1>4, <2>1, <2>2 DEF Call, AfterSuccess
<1>5. ASSUME NEW a \in Admins, WriteRow(a) PROVE Shown'
  BY <1>5, GotoInv DEF WriteRow, bank, Shown
<1>6. ASSUME NEW a \in Admins, Answer(a) PROVE Shown'
  <2>1. seen[a] # "refunded" /\ pc[a] = "next"
    BY <1>6 DEF Answer, Told
  <2>2. history.sum = Amount => NextAction(a) = "refund"
    BY <2>1 DEF NextAction, Total, Rows
  <2>3. NextAction(a) = "none" => tx # "paid"
    BY <2>1 DEF NextAction, Told
  <2>4. /\ pc'[a] = "browser" /\ action'[a] = NextAction(a)
        /\ \A b \in Admins \ {a} : pc'[b] = pc[b] /\ action'[b] = action[b]
    BY <1>6 DEF Answer, TypeInv, TypeOK
  <2>. QED
    BY <1>6, <2>1, <2>2, <2>3, <2>4 DEF Answer, shop, bank, Shown
<1>7. ASSUME NEW a \in Admins, Transition(a) PROVE Shown'
  <2>1. action[a] \in {"none", "refund", "refund_partially"} /\ pc[a] = "browser"
    BY <1>7 DEF Transition, TypeInv, TypeOK
  <2>2. /\ action[a] = "refund" => tx' = "refunded"
        /\ action[a] # "none" => tx' # "paid"
        /\ tx = "refunded" => tx' = "refunded"
        /\ tx # "paid" => tx' # "paid"
    BY <1>7, <2>1 DEF Transition, AfterTransition
  <2>. QED
    BY <1>7, <2>1, <2>2, DoneInv DEF Transition, bank, Shown
<1>8. ASSUME NEW a \in Admins, Fault(a) PROVE FALSE
  BY <1>0, <1>8 DEF Fault
<1>. QED
  BY <1>1, <1>2, <1>3, <1>4, <1>5, <1>6, <1>7, <1>8 DEF Next

LEMMA WholeKeeps == Whole /\ [Next]_vars => Whole'
<1> SUFFICES ASSUME Whole, [Next]_vars PROVE Whole'
  OBVIOUS
<1>1. CASE UNCHANGED vars
  <2>1. TypeInv' /\ Told' /\ (faults' = 0 => Shown')
    BY <1>1 DEF Whole, TypeInv, TypeOK, Told, Shown, vars, shop, bank, local
  <2>2. Writing' = Writing
    BY <1>1 DEF Writing, vars, local
  <2>3. Rows'
    BY <1>1, <2>2, RowsStay, FaultsAssumption DEF Whole, TypeInv, TypeOK, vars, shop, bank, local
  <2>. QED
    BY <2>1, <2>3 DEF Whole
<1>2. CASE Next
  <2>1. faults' = 0 => faults = 0
    BY <1>2, FaultsAssumption DEF Whole, TypeInv, TypeOK, Next, Request, Check, ReadIndex, Call, WriteRow,
       Answer, Transition, Fault
  <2>. QED
    BY <1>2, <2>1, TypeInvKeeps, RowsKeep, ToldKeeps, ShownKeeps DEF Whole
<1>. QED
  BY <1>1, <1>2

LEMMA WholeHolds == Spec => []Whole
  BY WholeInit, WholeKeeps, PTL DEF Spec

\* The sums stay within the amount, and the indexes are those of rows.
THEOREM TypeCorrect == Spec => []TypeOK
<1>1. Whole => TypeOK
  BY DEF Whole, TypeInv
<1>. QED
  BY <1>1, WholeHolds, PTL

LEMMA CompleteOfWhole == Whole => HistoryIsComplete
<1> SUFFICES ASSUME Whole PROVE HistoryIsComplete
  OBVIOUS
<1>1. Cardinality(Writing) \in Nat /\ history.count \in Nat /\ twint.count \in Nat
  BY FS_CardinalityType DEF Whole, Rows, TypeInv, TypeOK, Log
<1>. QED
  BY <1>1, RowsBound DEF Whole, Rows, HistoryIsComplete

\* ReversalHistoryDatabaseWriter::write adds a row for every reversal, of the
\* amount TWINT answered: no row is without its reversal, and but for the faults
\* only those about to be written are missing.
THEOREM HistoryIsCompleteAlways == Spec => []HistoryIsComplete
  BY CompleteOfWhole, WholeHolds, PTL

LEMMA StateOfWhole == Whole => StateTellsRefunds
<1> SUFFICES ASSUME Whole PROVE StateTellsRefunds
  OBVIOUS
<1>0. /\ history.sum <= twint.sum /\ twint.sum <= Amount /\ history.sum \in Nat /\ twint.sum \in Nat
      /\ tx \in TxStates
  BY RowsBound, AmountAssumption DEF Whole, TypeInv, TypeOK, Log
<1>1. tx = "refunded" => twint.sum = Amount
  BY <1>0, AmountAssumption DEF Whole, Told
<1>2. ASSUME faults = 0, \A a \in Admins : pc[a] = "idle"
      PROVE  tx = CASE twint.sum = 0 -> "paid"
                    [] twint.sum = Amount -> "refunded"
                    [] OTHER -> "refunded_partially"
  <2>1. Writing = {}
    BY <1>2 DEF Writing
  <2>2. twint.sum = history.sum
    BY <1>2, <2>1, RowsBound DEF Whole
  <2>3. twint.sum = 0 => tx = "paid"
    BY DEF Whole, Told
  <2>4. twint.sum = Amount => tx = "refunded"
    BY <1>2, <2>2 DEF Whole, Shown
  <2>5. twint.sum > 0 => tx # "paid"
    BY <1>2 DEF Whole, Shown
  <2>6. twint.sum # Amount => tx # "refunded"
    BY <1>1
  <2>. QED
    BY <1>0, <2>3, <2>4, <2>5, <2>6, AmountAssumption DEF TxStates
<1>. QED
  BY <1>1, <1>2 DEF StateTellsRefunds

\* The transition each answer asks for (PaymentService::getNextAction) goes by
\* the rows there are and by the order as it was when the request came.  However
\* the requests met, the transaction is refunded only when all was given back,
\* and without faults its state is right when all are done.
THEOREM StateTellsRefundsAlways == Spec => []StateTellsRefunds
  BY StateOfWhole, WholeHolds, PTL

-----------------------------------------------------------------------------
\* The page.
\* Nothing is under way.
Quiet(l) == \A r \in Sums : searches[l][r] = 0

PageTypes ==
    /\ modal \in BOOLEAN /\ paired \in BOOLEAN
    /\ entered \in 0..(Amount + 1)
    /\ refundable \in Int \cup {Unknown}
    /\ total \in {OrderTotal, Amount}
    /\ at \in [Mine -> {"none", "answer", "transition", "status"}]
    /\ searches \in [Lists -> [Sums -> Nat]]
    /\ shownLog \in Sums
    /\ logged \in Nat
    /\ told \in [count : Nat, sum : Nat]
    /\ hasty \subseteq Lists

\* Where a request of this page can be while the page waits for what.
Stations ==
    \A a \in Mine :
        /\ at[a] = "none" => pc[a] = "idle"
        /\ at[a] = "transition" => pc[a] \in {"browser", "idle"}
        /\ at[a] = "status" => pc[a] = "idle"

\* The page is not told yet of these reversals.
Owing == {a \in Mine : at[a] = "answer" /\ pc[a] \in {"write", "next", "browser"}}
One == [a \in Admins |-> 1]

Owes ==
    \E n, m \in Nat :
        /\ IsSum(Owing, Lim, n) /\ IsSum(Owing, One, m)
        /\ told.sum + n <= twint.sum /\ told.count + m <= twint.count

\* Each reversal is of one cent at least, and is logged unless there was a fault.
LogKept ==
    /\ twint.count <= twint.sum
    /\ logged <= twint.count
    /\ faults = 0 => logged = twint.count

InForm ==
    /\ \A a, b \in Mine : at[a] = "answer" /\ at[b] = "answer" => a = b
    /\ \A a \in Mine : at[a] = "answer" => Quiet("history")
    /\ entered > 0 => Quiet("history") /\ (refundable = Unknown \/ entered <= refundable)
    /\ \A a \in Mine : pc[a] = "check" => refundable = Unknown \/ want[a] <= refundable

Between(sum) == told.sum <= sum /\ sum <= history.sum

SumShown ==
    /\ told.sum <= history.sum
    /\ \A a \in Mine : at[a] = "answer" /\ pc[a] \in {"next", "browser"} =>
          told.sum + Limited(want[a]) <= history.sum
    /\ \A r \in Sums \ {Unknown} : searches["history"][r] > 0 => Between(r)
    /\ Quiet("history") /\ refundable # Unknown =>
          \E of \in {Amount, OrderTotal} : Between(of - refundable)

LogAlone ==
    \A a \in Mine : at[a] = "answer" =>
        Quiet("log") /\ \A b \in Mine : at[b] \notin {"transition", "status"}

LogShown ==
    /\ \A r \in Sums : searches["log"][r] > 0 => r # Unknown /\ told.count <= r
    /\ Quiet("log") => shownLog # Unknown /\ told.count <= shownLog

PageInv ==
    /\ Whole /\ PageTypes /\ Stations /\ Owes /\ LogKept
    /\ "history" \notin hasty => InForm /\ (faults = 0 => SumShown)
    /\ hasty = {} => LogAlone /\ (faults = 0 => LogShown)

-----------------------------------------------------------------------------
(***************************************************************************)
(* The server under the page.                                              *)
(***************************************************************************)
\* A search that fails counts as a fault, and is none of the server.
LEMMA WholeFault ==
    ASSUME Whole, faults' = faults + 1, faults < MaxFaults, UNCHANGED <<shop, bank, local, met>>
    PROVE  Whole'
<1> USE DEF shop, bank, local
<1>1. faults \in Nat /\ faults' \in 0..MaxFaults
  BY FaultsAssumption DEF Whole, TypeInv, TypeOK
<1>2. TypeInv' /\ Told'
  BY <1>1 DEF Whole, TypeInv, TypeOK, Told
<1>3. Writing' = Writing
  BY DEF Writing
<1>4. Rows'
  BY <1>1, <1>3, RowsStay DEF Whole
<1>. QED
  BY <1>1, <1>2, <1>4 DEF Whole

OneMoreFault ==
    faults < MaxFaults /\ faults' = faults + 1 /\ UNCHANGED <<shop, bank, local, met>>

\* All that the page does with the server Refund allows.
LEMMA ServerSteps ==
    ASSUME PageTypes, NextPage
    PROVE  Next \/ UNCHANGED vars \/ OneMoreFault
<1>1. ASSUME NEW a \in Mine, Confirm(a) PROVE Next
  BY <1>1, MineAssumption, AmountAssumption DEF Confirm, Next, PageTypes
<1>2. ASSUME NEW a \in Mine, Answered(a) PROVE UNCHANGED vars \/ Next
  BY <1>2, MineAssumption DEF Answered, Succeeded, Failed, Moved, NotMoved, StatusKnown, Next
<1>3. ASSUME NEW a \in Admins, Serve(a) \/ Trouble(a) PROVE Next
  BY <1>3 DEF Serve, Trouble, Next
<1>4. ASSUME NEW a \in Admins \ Mine, Others(a) PROVE Next
  BY <1>4, AmountsAssumption DEF Others, Next
<1>5. ASSUME NEW l \in Lists, SearchFails(l) PROVE OneMoreFault
  BY <1>5 DEF SearchFails, OneMoreFault
<1>6. ASSUME NEW sum \in Sums, HistoryFound(sum) \/ LogFound(sum) PROVE UNCHANGED vars
  BY <1>6 DEF HistoryFound, LogFound
<1>7. ASSUME PairingFound \/ ShowModal \/ CloseModal PROVE UNCHANGED vars
  BY <1>7 DEF PairingFound, ShowModal, CloseModal
<1>8. ASSUME NEW value \in 0..(Amount + 1), Enter(value) PROVE UNCHANGED vars
  BY <1>8 DEF Enter
<1>. QED
  BY <1>1, <1>2, <1>3, <1>4, <1>5, <1>6, <1>7, <1>8 DEF NextPage

LEMMA ServerKeeps ==
    ASSUME Whole, PageTypes, NextPage
    PROVE  Whole'
  BY ServerSteps, WholeFault, WholeKeeps DEF OneMoreFault

\* Nor does it matter to what holds of one request at a time.
LEMMA OneByOneKeeps ==
    ASSUME IInv, PageTypes, NextPage
    PROVE  IInv'
<1>1. CASE OneMoreFault
  <2> USE DEF OneMoreFault, shop, bank, local
  <2>1. Types' /\ \A a \in Admins : Asking(a)'
    BY <1>1, FaultsAssumption DEF IInv, Types, Asking, Serving
  <2>2. faults \in Nat
    BY FaultsAssumption DEF IInv, Types
  <2>3. ASSUME ~met' PROVE Alone' /\ References'
    BY <1>1, <2>2, <2>3 DEF IInv, Types, Alone, Serving, References, NobodyWrites
  <2>. QED
    BY <1>1, <2>1, <2>2, <2>3 DEF IInv
<1>. QED
  BY <1>1, ServerSteps, NextKeeps

\* What a step of the server is for a request.
LEMMA ServeEffect ==
    ASSUME TypeInv, NEW a \in Admins, Serve(a)
    PROVE  /\ \A b \in Admins \ {a} : pc'[b] = pc[b] /\ want'[b] = want[b]
           /\ faults' = faults
           /\ \/ pc[a] = "check" /\ pc'[a] \in {"idle", "index"} /\ UNCHANGED <<twint, history>>
              \/ pc[a] = "index" /\ pc'[a] = "call" /\ UNCHANGED <<twint, history>>
              \/ pc[a] = "call" /\ pc'[a] = "idle" /\ UNCHANGED <<twint, history>>
              \/ /\ pc[a] = "call" /\ pc'[a] = "write" /\ UNCHANGED <<want, history>>
                 /\ twint' = Plus(twint, Limited(want[a])) /\ twint.sum + Limited(want[a]) <= Amount
              \/ /\ pc[a] = "write" /\ pc'[a] = "next" /\ UNCHANGED <<want, twint>>
                 /\ history' = Plus(history, Limited(want[a]))
              \/ pc[a] = "next" /\ pc'[a] = "browser" /\ UNCHANGED <<want, twint, history>>
<1>1. CASE Check(a)
  BY <1>1, DoneInv, GotoInv DEF Check, shop, bank
<1>2. CASE ReadIndex(a)
  BY <1>2 DEF ReadIndex, shop, bank, TypeInv, TypeOK
<1>3. CASE Call(a)
  <2>1. CASE Reversed(a) /\ Goto(a, "write")
    BY <1>3, <2>1, GotoInv DEF Call, Reversed, shop
  <2>2. CASE Done(a) /\ UNCHANGED bank
    BY <1>3, <2>2, DoneInv DEF Call, shop, bank
  <2>. QED
    BY <1>3, <2>1, <2>2 DEF Call, AfterSuccess
<1>4. CASE WriteRow(a)
  BY <1>4, GotoInv DEF WriteRow, Recorded, bank
<1>5. CASE Answer(a)
  BY <1>5 DEF Answer, shop, bank, TypeInv, TypeOK
<1>. QED
  BY <1>1, <1>2, <1>3, <1>4, <1>5 DEF Serve

LEMMA TroubleEffect ==
    ASSUME TypeInv, NEW a \in Admins, Trouble(a)
    PROVE  /\ \A b \in Admins \ {a} : pc'[b] = pc[b] /\ want'[b] = want[b]
           /\ faults' = faults + 1 /\ history' = history /\ pc[a] # "idle"
           /\ \/ pc'[a] = "idle" /\ twint' = twint
              \/ /\ pc[a] = "call" /\ pc'[a] = "idle"
                 /\ twint' = Plus(twint, Limited(want[a])) /\ twint.sum + Limited(want[a]) <= Amount
              \/ pc[a] = "write" /\ pc'[a] = "next" /\ UNCHANGED <<want, twint>>
<1>0. Fault(a)
  BY DEF Trouble
<1>1. CASE Done(a) /\ UNCHANGED bank
  BY <1>0, <1>1, DoneInv DEF Fault, shop, bank
<1>2. CASE pc[a] = "call" /\ Reversed(a) /\ Done(a)
  BY <1>0, <1>2, DoneInv DEF Fault, shop, Reversed
<1>3. CASE pc[a] = "write" /\ Goto(a, "next") /\ UNCHANGED bank
  BY <1>0, <1>3, GotoInv DEF Fault, shop, bank
<1>. QED
  BY <1>0, <1>1, <1>2, <1>3 DEF Fault

LEMMA RequestEffect ==
    ASSUME TypeInv, NEW a \in Admins, NEW amount \in 1..(Amount + 1), Request(a, amount)
    PROVE  /\ \A b \in Admins \ {a} : pc'[b] = pc[b] /\ want'[b] = want[b]
           /\ UNCHANGED <<faults, twint, history>>
           /\ pc[a] = "idle" /\ pc'[a] = "check" /\ want'[a] = amount
BY DEF Request, shop, bank, TypeInv, TypeOK

LEMMA TransitionEffect ==
    ASSUME TypeInv, NEW a \in Admins, Transition(a)
    PROVE  /\ \A b \in Admins \ {a} : pc'[b] = pc[b] /\ want'[b] = want[b]
           /\ UNCHANGED <<faults, twint, history>>
           /\ pc[a] = "browser" /\ pc'[a] = "idle"
BY DoneInv DEF Transition, bank

\* In numbers.
LEMMA Numbers ==
    ASSUME Whole
    PROVE  /\ twint.sum \in Nat /\ twint.count \in Nat /\ history.sum \in Nat /\ history.count \in Nat
           /\ history.sum <= twint.sum /\ twint.sum <= Amount /\ faults \in Nat
           /\ \A a \in Admins : want[a] \in Nat /\ Limited(want[a]) \in Nat
           /\ \A a \in Admins : pc[a] # "idle" => Limited(want[a]) >= 1
           /\ history.count = 0 => history.sum = 0
<1>1. \A a \in Admins : want[a] \in Nat /\ (pc[a] # "idle" => want[a] > 0)
  BY AmountAssumption DEF Whole, TypeInv, TypeOK, Told
<1>2. \A a \in Admins : Limited(want[a]) \in Nat /\ (pc[a] # "idle" => Limited(want[a]) >= 1)
  BY <1>1, AmountAssumption DEF Limited
<1>3. /\ twint.sum \in Nat /\ twint.count \in Nat /\ history.sum \in Nat /\ history.count \in Nat
      /\ faults \in Nat
  BY AmountAssumption, FaultsAssumption DEF Whole, TypeInv, TypeOK, Log
<1>. QED
  BY <1>1, <1>2, <1>3, RowsBound DEF Whole, Rows
\* What a search finds is one of the numbers it is counted under.
LEMMA ContentIsSum ==
    ASSUME Whole, PageTypes, LogKept
    PROVE  /\ Content("log") \in Sums /\ Content("log") = logged
           /\ Content("history") \in Sums
           /\ Content("history") = Unknown \/ Content("history") = history.sum
<1>1. logged \in 0..Amount
  BY Numbers, AmountAssumption DEF LogKept, PageTypes
<1>2. Total = -1 \/ (Total = history.sum /\ Total \in 0..Amount)
  BY Numbers, AmountAssumption, EmptySumAssumption DEF Total
<1>. QED
  BY <1>1, <1>2, Numbers, AmountAssumption DEF Content, Sums

\* Searches that begin, and one whose answer arrives.
LEMMA Begins ==
    ASSUME PageTypes, NEW ls \in SUBSET Lists, Search(ls),
           \A l \in Lists : Content(l) \in Sums
    PROVE  /\ searches' \in [Lists -> [Sums -> Nat]]
           /\ \A l \in Lists \ ls : searches'[l] = searches[l]
           /\ \A l \in ls : /\ searches'[l][Content(l)] > 0
                            /\ \A r \in Sums \ {Content(l)} : searches'[l][r] = searches[l][r]
BY DEF Search, PageTypes

LEMMA Comes ==
    ASSUME PageTypes, NEW l \in Lists, NEW r \in Sums, Arrives(l, r)
    PROVE  /\ searches' \in [Lists -> [Sums -> Nat]]
           /\ \A k \in Lists \ {l} : searches'[k] = searches[k]
           /\ ~Quiet(l)
           /\ r = Content(l) \/ searches[l][r] > 0
           /\ \A s \in Sums : searches'[l][s] > 0 => searches[l][s] > 0
BY DEF Arrives, PageTypes, Quiet

LEMMA PageInit == InitPage => PageInv
<1> SUFFICES ASSUME InitPage PROVE PageInv
  OBVIOUS
<1> USE AmountAssumption, OrderTotalAssumption, MineAssumption DEF InitPage
<1>1. Whole
  BY WholeInit
<1>2. twint = Nothing /\ history = Nothing /\ faults = 0 /\ \A a \in Admins : pc[a] = "idle"
  BY DEF Init
<1>3. searches \in [Lists -> [Sums -> Nat]] /\ \A l \in Lists : searches[l][Content(l)] = 1 \/ Content(l) \notin Sums
  BY DEF Opened
<1>4. PageTypes
  <2>1. modal \in BOOLEAN /\ paired \in BOOLEAN /\ hasty \subseteq Lists
    OBVIOUS
  <2>4. entered \in 0..(Amount + 1) /\ refundable \in Int \cup {Unknown} /\ logged \in Nat
    OBVIOUS
  <2>5. total \in {OrderTotal, Amount} /\ shownLog \in Sums
    BY DEF Sums
  <2>2. told \in [count : Nat, sum : Nat]
    BY DEF Nothing
  <2>3. at \in [Mine -> {"none", "answer", "transition", "status"}]
    OBVIOUS
  <2>. QED
    BY <1>3, <2>1, <2>2, <2>3, <2>4, <2>5 DEF PageTypes
<1>5. LogKept /\ Stations
  BY <1>2 DEF LogKept, Stations, Nothing
<1>6. ~Quiet("history") /\ ~Quiet("log")
  BY <1>1, <1>3, <1>4, <1>5, ContentIsSum DEF Quiet, Lists
<1>7. Owes
  <2>1. Owing = {}
    BY DEF Owing
  <2>2. IsSum(Owing, Lim, 0) /\ IsSum(Owing, One, 0)
    BY <2>1, SumEmpty
  <2>. QED
    BY <1>2, <2>2 DEF Owes, Nothing
<1>8. InForm
  BY <1>2 DEF InForm
<1>9. \A r \in Sums : (searches["history"][r] > 0 => r = Content("history")) /\ (searches["log"][r] > 0 => r = Content("log"))
  BY DEF Opened, Lists
<1>10. SumShown
  BY <1>1, <1>2, <1>4, <1>5, <1>6, <1>9, ContentIsSum DEF SumShown, Between, Nothing
<1>11. LogAlone /\ LogShown
  BY <1>1, <1>2, <1>4, <1>5, <1>6, <1>9, ContentIsSum DEF LogAlone, LogShown, Nothing
<1>. QED
  BY <1>1, <1>4, <1>5, <1>7, <1>8, <1>10, <1>11 DEF PageInv

LEMMA PageTypesKeep ==
    ASSUME Whole, PageTypes, LogKept, NextPage
    PROVE  PageTypes'
<1>0. \A l \in Lists : Content(l) \in Sums
  BY ContentIsSum DEF Lists
<1> USE AmountAssumption DEF PageTypes, form, display, history_, page
<1>1. ASSUME NEW a \in Mine, Confirm(a) PROVE PageTypes'
  <2>1. at' \in [Mine -> {"none", "answer", "transition", "status"}] /\ hasty' \subseteq Lists
    BY <1>1 DEF Confirm, Pending, Searching, Lists
  <2>. QED
    BY <1>1, <2>1 DEF Confirm
<1>2. ASSUME NEW a \in Mine, Succeeded(a) PROVE PageTypes'
  <2>1. Limited(want[a]) \in Nat
    BY MineAssumption, Numbers
  <2>2. searches' \in [Lists -> [Sums -> Nat]]
    BY <1>0, <1>2, Begins DEF Succeeded, Refreshed, RefundFinish, Lists
  <2>3. told' \in [count : Nat, sum : Nat]
    BY <1>2, <2>1 DEF Succeeded, Plus
  <2>4. at' \in [Mine -> {"none", "answer", "transition", "status"}]
    BY <1>2 DEF Succeeded
  <2>5. modal' \in BOOLEAN /\ UNCHANGED <<paired, hasty>>
    BY <1>2 DEF Succeeded
  <2>6. entered' = 0 /\ UNCHANGED <<refundable, total, shownLog, logged>>
    BY <1>2 DEF Succeeded
  <2>. QED
    BY <2>2, <2>3, <2>4, <2>5, <2>6
<1>3. ASSUME NEW a \in Mine, Failed(a) \/ Moved(a) \/ NotMoved(a) PROVE PageTypes'
  <2>1. at' \in [Mine -> {"none", "answer", "transition", "status"}]
    BY <1>3 DEF Failed, Moved, NotMoved
  <2>2. modal' \in BOOLEAN /\ UNCHANGED <<paired, hasty>>
    BY <1>3 DEF Failed, Moved, NotMoved
  <2>3. entered' \in {0, entered} /\ UNCHANGED <<refundable, total, shownLog, logged, told, searches>>
    BY <1>3 DEF Failed, Moved, NotMoved
  <2>. QED
    BY <2>1, <2>2, <2>3
<1>4. ASSUME NEW a \in Mine, StatusKnown(a) PROVE PageTypes'
  <2>1. searches' \in [Lists -> [Sums -> Nat]]
    BY <1>0, <1>4, Begins DEF StatusKnown, RefundFinish, Lists
  <2>. QED
    BY <1>4, <2>1 DEF StatusKnown
<1>5. ASSUME NEW a \in Admins, Serve(a) \/ Trouble(a) PROVE PageTypes'
  <2>1. logged' \in Nat
    BY <1>5 DEF Serve, Trouble, Logged
  <2>. QED
    BY <1>5, <2>1 DEF Serve, Trouble
<1>6. ASSUME NEW a \in Admins \ Mine, Others(a) PROVE PageTypes'
  BY <1>6 DEF Others
<1>7. ASSUME NEW l \in Lists, SearchFails(l) PROVE PageTypes'
  <2>1. searches' \in [Lists -> [Sums -> Nat]]
    BY <1>7, Comes DEF SearchFails
  <2>2. 0 \in Sums
    BY DEF Sums
  <2>3. shownLog' \in Sums
    BY <1>7, <2>2 DEF SearchFails
  <2>. QED
    BY <1>7, <2>1, <2>3 DEF SearchFails
<1>8. ASSUME NEW sum \in Sums, HistoryFound(sum) PROVE PageTypes'
  <2>1. searches' \in [Lists -> [Sums -> Nat]]
    BY <1>8, Comes DEF HistoryFound, Lists
  <2>2. refundable' \in Int \cup {Unknown}
    BY <1>8, OrderTotalAssumption DEF HistoryFound, Left, Sums
  <2>. QED
    BY <1>8, <2>1, <2>2 DEF HistoryFound
<1>9. ASSUME NEW sum \in Sums, LogFound(sum) PROVE PageTypes'
  <2>1. searches' \in [Lists -> [Sums -> Nat]]
    BY <1>9, Comes DEF LogFound, Lists
  <2>. QED
    BY <1>9, <2>1 DEF LogFound
<1>10. ASSUME PairingFound \/ ShowModal \/ CloseModal PROVE PageTypes'
  <2>1. CASE PairingFound
    BY <2>1 DEF PairingFound
  <2>2. CASE ShowModal
    BY <2>2 DEF ShowModal
  <2>3. CASE CloseModal
    <3>1. modal' \in BOOLEAN /\ paired' \in BOOLEAN
      BY <2>3 DEF CloseModal
    <3>2. entered' \in 0..(Amount + 1) /\ UNCHANGED hasty
      BY <2>3 DEF CloseModal
    <3>3. UNCHANGED <<refundable, total, shownLog, logged, told, searches, at>>
      BY <2>3 DEF CloseModal
    <3>. QED
      BY <3>1, <3>2, <3>3
  <2>. QED
    BY <1>10, <2>1, <2>2, <2>3
<1>11. ASSUME NEW value \in 0..(Amount + 1), Enter(value) PROVE PageTypes'
  <2>1. entered' \in 0..(Amount + 1)
    BY <1>11 DEF Enter
  <2>2. hasty' \subseteq Lists
    BY <1>11 DEF Enter, Searching, Lists
  <2>. QED
    BY <1>11, <2>1, <2>2 DEF Enter
<1>. QED
  BY <1>1, <1>2, <1>3, <1>4, <1>5, <1>6, <1>7, <1>8, <1>9, <1>10, <1>11 DEF NextPage, Answered

LEMMA StationsKeep ==
    ASSUME Whole, PageTypes, Stations, NextPage
    PROVE  Stations'
<1>0. TypeInv /\ Mine \subseteq Admins
  BY MineAssumption DEF Whole
<1>1. ASSUME NEW a \in Mine, Confirm(a) PROVE Stations'
  BY <1>0, <1>1, RequestEffect, AmountAssumption DEF Confirm, Stations, PageTypes
<1>2. ASSUME NEW a \in Mine, Succeeded(a) \/ Failed(a) \/ NotMoved(a) \/ StatusKnown(a) PROVE Stations'
  BY <1>2 DEF Succeeded, Failed, NotMoved, StatusKnown, Stations, PageTypes, vars, local
<1>3. ASSUME NEW a \in Mine, Moved(a) PROVE Stations'
  BY <1>0, <1>3, TransitionEffect DEF Moved, Stations, PageTypes
<1>4. ASSUME NEW a \in Admins, Serve(a) PROVE Stations'
  BY <1>0, <1>4, ServeEffect DEF Serve, Stations
<1>5. ASSUME NEW a \in Admins, Trouble(a) PROVE Stations'
  BY <1>0, <1>5, TroubleEffect DEF Trouble, Stations
<1>6. ASSUME NEW a \in Admins \ Mine, Others(a) PROVE Stations'
  <2>1. \A b \in Mine : pc'[b] = pc[b]
    BY <1>0, <1>6, AmountsAssumption, RequestEffect, TransitionEffect DEF Others
  <2>. QED
    BY <1>6, <2>1 DEF Others, Stations, page
<1>7. ASSUME UNCHANGED <<pc, at>> PROVE Stations'
  BY <1>7 DEF Stations
<1>8. ASSUME NEW l \in Lists, SearchFails(l) PROVE UNCHANGED <<pc, at>>
  BY <1>8 DEF SearchFails, local
<1>9. ASSUME NEW sum \in Sums, HistoryFound(sum) \/ LogFound(sum) PROVE UNCHANGED <<pc, at>>
  BY <1>9 DEF HistoryFound, LogFound, vars, local
<1>10. ASSUME PairingFound \/ ShowModal \/ CloseModal PROVE UNCHANGED <<pc, at>>
  BY <1>10 DEF PairingFound, ShowModal, CloseModal, vars, local
<1>11. ASSUME NEW value \in 0..(Amount + 1), Enter(value) PROVE UNCHANGED <<pc, at>>
  BY <1>11 DEF Enter, vars, local
<1>. QED
  BY <1>1, <1>2, <1>3, <1>4, <1>5, <1>6, <1>7, <1>8, <1>9, <1>10, <1>11 DEF NextPage, Answered
-----------------------------------------------------------------------------
(***************************************************************************)
(* What the page is not told yet.                                          *)
(***************************************************************************)
LEMMA OwesStay ==
    ASSUME Whole, PageTypes, Owes, Owing' = Owing, \A a \in Owing : want'[a] = want[a],
           told' = told, twint'.sum \in Nat, twint'.count \in Nat,
           twint'.sum >= twint.sum, twint'.count >= twint.count
    PROVE  Owes'
<1>1. PICK n \in Nat, m \in Nat : /\ IsSum(Owing, Lim, n) /\ IsSum(Owing, One, m)
                                  /\ told.sum + n <= twint.sum /\ told.count + m <= twint.count
  BY DEF Owes
<1>2. Owing \subseteq Admins /\ One' = One
  BY MineAssumption DEF Owing, One
<1>3. \A a \in Owing : Lim[a] = Lim'[a]
  BY <1>2 DEF Lim, Limited
<1>4. IsSum(Owing', Lim', n) /\ IsSum(Owing', One', m)
  BY <1>1, <1>2, <1>3, SumSame
<1>5. told'.sum + n <= twint'.sum /\ told'.count + m <= twint'.count
  BY <1>1, Numbers DEF PageTypes
<1>. QED
  BY <1>4, <1>5 DEF Owes

\* A request of the page ends with a reversal it is, or is not, told of.
LEMMA OwesLess ==
    ASSUME Whole, PageTypes, Owes, NEW a \in Owing, Owing' = Owing \ {a},
           \A b \in Owing \ {a} : want'[b] = want[b], twint' = twint,
           told' \in {told, Plus(told, Limited(want[a]))}
    PROVE  Owes'
<1>1. PICK n \in Nat, m \in Nat : /\ IsSum(Owing, Lim, n) /\ IsSum(Owing, One, m)
                                  /\ told.sum + n <= twint.sum /\ told.count + m <= twint.count
  BY DEF Owes
<1>2. Owing \subseteq Admins /\ One' = One /\ One[a] = 1
  BY MineAssumption DEF Owing, One
<1>3. \A b \in Owing \ {a} : Lim[b] = Lim'[b]
  BY <1>2 DEF Lim, Limited
<1>4. Lim[a] \in Nat /\ Lim[a] = Limited(want[a])
  BY <1>2, Numbers DEF Lim
<1>5. n - Lim[a] \in Nat /\ IsSum(Owing \ {a}, Lim, n - Lim[a])
  BY <1>1, <1>4, SumRemove
<1>6. m - 1 \in Nat /\ IsSum(Owing \ {a}, One, m - 1)
  BY <1>1, <1>2, SumRemove
<1>7. IsSum(Owing', Lim', n - Lim[a]) /\ IsSum(Owing', One', m - 1)
  BY <1>2, <1>3, <1>5, <1>6, SumSame
<1>8. told'.sum \in {told.sum, told.sum + Lim[a]} /\ told'.count \in {told.count, told.count + 1}
  BY <1>4 DEF Plus
<1>9. told'.sum + (n - Lim[a]) <= twint'.sum /\ told'.count + (m - 1) <= twint'.count
  BY <1>1, <1>4, <1>8, Numbers DEF PageTypes
<1>. QED
  BY <1>5, <1>6, <1>7, <1>9 DEF Owes

LEMMA OwesMore ==
    ASSUME Whole, PageTypes, Owes, NEW a \in Mine, a \notin Owing, Owing' = Owing \cup {a}, want' = want,
           twint' = Plus(twint, Limited(want[a])), told' = told
    PROVE  Owes'
<1>1. PICK n \in Nat, m \in Nat : /\ IsSum(Owing, Lim, n) /\ IsSum(Owing, One, m)
                                  /\ told.sum + n <= twint.sum /\ told.count + m <= twint.count
  BY DEF Owes
<1>2. Owing \cup {a} \subseteq Admins /\ One' = One /\ Lim' = Lim
  BY MineAssumption DEF Owing, One, Lim, Limited
<1>3. \A b \in Owing \cup {a} : Lim[b] \in Nat /\ One[b] \in Nat
  BY <1>2, Numbers DEF Lim, One
<1>4. Lim[a] \in Nat /\ Lim[a] = Limited(want[a]) /\ One[a] = 1
  BY <1>2, <1>3 DEF Lim, One
<1>5. IsSum(Owing', Lim', n + Lim[a])
  BY <1>1, <1>2, <1>3, SumAdd
<1>6. IsSum(Owing', One', m + 1)
  BY <1>1, <1>2, <1>3, <1>4, SumAdd
<1>7. told'.sum + (n + Lim[a]) <= twint'.sum /\ told'.count + (m + 1) <= twint'.count
  BY <1>1, <1>4, Numbers DEF PageTypes, Plus
<1>8. n + Lim[a] \in Nat /\ m + 1 \in Nat
  BY <1>4
<1>. QED
  BY <1>5, <1>6, <1>7, <1>8 DEF Owes

LEMMA OwesKeep ==
    ASSUME Whole, PageTypes, Stations, Owes, NextPage
    PROVE  Owes'
<1>0. TypeInv /\ Mine \subseteq Admins
  BY MineAssumption DEF Whole
\* A step of a request that has nothing to tell, before or after.
<1>1. ASSUME NEW a \in Admins, a \notin Owing, a \notin Owing', told' = told,
             \A b \in Admins \ {a} : pc'[b] = pc[b] /\ want'[b] = want[b],
             \A b \in Mine \ {a} : at'[b] = at[b],
             twint' = twint \/ twint' = Plus(twint, Limited(want[a]))
      PROVE  Owes'
  <2>1. Owing' = Owing
    BY <1>0, <1>1 DEF Owing
  <2>2. \A b \in Owing : want'[b] = want[b]
    BY <1>0, <1>1 DEF Owing
  <2>3. /\ twint'.sum \in Nat /\ twint'.count \in Nat
        /\ twint'.sum >= twint.sum /\ twint'.count >= twint.count
    BY <1>1, Numbers DEF Plus
  <2>. QED
    BY <1>1, <2>1, <2>2, <2>3, OwesStay
\* A step without a reversal that leaves the station of each request.
<1>2. ASSUME Owing' = Owing, want' = want, told' = told, twint' = twint PROVE Owes'
  BY <1>2, OwesStay, Numbers
<1>3. ASSUME NEW a \in Mine, Confirm(a) PROVE Owes'
  <2>1. entered \in 1..(Amount + 1) /\ Request(a, entered)
    BY <1>3, AmountAssumption DEF Confirm, PageTypes
  <2>2. a \notin Owing /\ a \notin Owing'
    BY <1>0, <1>3, <2>1, RequestEffect DEF Confirm, Owing
  <2>. QED
    BY <1>0, <1>1, <1>3, <2>1, <2>2, RequestEffect DEF Confirm, PageTypes
<1>4. ASSUME NEW a \in Mine, Succeeded(a) PROVE Owes'
  <2>1. a \in Owing /\ Owing' = Owing \ {a}
    BY <1>4 DEF Succeeded, Owing, PageTypes, vars, local
  <2>. QED
    BY <1>4, <2>1, OwesLess DEF Succeeded, vars, local, bank
<1>5. ASSUME NEW a \in Mine, Failed(a) \/ NotMoved(a) \/ StatusKnown(a) PROVE Owes'
  <2>1. Owing' = Owing
    BY <1>5 DEF Failed, NotMoved, StatusKnown, Owing, PageTypes, vars, local
  <2>. QED
    BY <1>2, <1>5, <2>1 DEF Failed, NotMoved, StatusKnown, history_, vars, local, bank
<1>6. ASSUME NEW a \in Mine, Moved(a) PROVE Owes'
  <2>1. a \notin Owing /\ a \notin Owing'
    BY <1>0, <1>6, TransitionEffect DEF Moved, Owing
  <2>. QED
    BY <1>0, <1>1, <1>6, <2>1, TransitionEffect DEF Moved, PageTypes, history_
<1>7. ASSUME NEW a \in Admins, Serve(a) PROVE Owes'
  <2>1. at' = at /\ told' = told
    BY <1>7 DEF Serve, history_
  <2>2. CASE a \in Mine /\ pc[a] = "call" /\ pc'[a] = "write"
    <3>1. at[a] = "answer"
      BY <2>2 DEF Stations, PageTypes
    <3>2. a \notin Owing /\ Owing' = Owing \cup {a}
      BY <1>0, <1>7, <2>1, <2>2, <3>1, ServeEffect DEF Owing
    <3>. QED
      BY <1>0, <1>7, <2>1, <2>2, <3>2, ServeEffect, OwesMore
  <2>3. CASE pc[a] \in {"write", "next"}
    <3>1. Owing' = Owing
      BY <1>0, <1>7, <2>1, <2>3, ServeEffect DEF Owing
    <3>. QED
      BY <1>0, <1>2, <1>7, <2>1, <2>3, <3>1, ServeEffect
  <2>4. CASE pc[a] \notin {"write", "next"} /\ ~(a \in Mine /\ pc[a] = "call" /\ pc'[a] = "write")
    <3>1. a \notin Owing /\ a \notin Owing'
      BY <1>0, <1>7, <2>1, <2>4, ServeEffect DEF Owing
    <3>. QED
      BY <1>0, <1>1, <1>7, <2>1, <3>1, ServeEffect
  <2>. QED
    BY <2>2, <2>3, <2>4
<1>8. ASSUME NEW a \in Admins, Trouble(a) PROVE Owes'
  <2>1. at' = at /\ told' = told
    BY <1>8 DEF Trouble, history_
  <2>2. CASE pc'[a] = "idle" /\ a \in Owing
    <3>1. Owing' = Owing \ {a} /\ \A b \in Owing \ {a} : want'[b] = want[b]
      BY <1>0, <1>8, <2>1, <2>2, TroubleEffect DEF Owing
    <3>2. twint' = twint
      BY <1>0, <1>8, <2>2, TroubleEffect DEF Owing
    <3>. QED
      BY <2>1, <2>2, <3>1, <3>2, OwesLess
  <2>3. CASE pc'[a] = "idle" /\ a \notin Owing
    <3>1. a \notin Owing'
      BY <2>3 DEF Owing
    <3>. QED
      BY <1>0, <1>1, <1>8, <2>1, <2>3, <3>1, TroubleEffect
  <2>4. CASE pc[a] = "write" /\ pc'[a] = "next"
    <3>1. Owing' = Owing
      BY <1>0, <1>8, <2>1, <2>4, TroubleEffect DEF Owing
    <3>. QED
      BY <1>0, <1>2, <1>8, <2>1, <2>4, <3>1, TroubleEffect
  <2>. QED
    BY <1>0, <1>8, <2>2, <2>3, <2>4, TroubleEffect
<1>9. ASSUME NEW a \in Admins \ Mine, Others(a) PROVE Owes'
  <2>1. a \notin Owing /\ a \notin Owing'
    BY <1>9 DEF Owing
  <2>. QED
    BY <1>0, <1>1, <1>9, <2>1, AmountsAssumption, RequestEffect, TransitionEffect DEF Others, page, history_
<1>10. ASSUME UNCHANGED <<pc, want, twint, at, told>> PROVE Owes'
  <2>1. Owing' = Owing
    BY <1>10 DEF Owing
  <2>. QED
    BY <1>2, <1>10, <2>1
<1>11. ASSUME NEW l \in Lists, SearchFails(l) PROVE UNCHANGED <<pc, want, twint, at, told>>
  BY <1>11 DEF SearchFails, local, bank, history_
<1>12. ASSUME NEW sum \in Sums, HistoryFound(sum) \/ LogFound(sum) PROVE UNCHANGED <<pc, want, twint, at, told>>
  BY <1>12 DEF HistoryFound, LogFound, vars, local, bank, history_
<1>13. ASSUME PairingFound \/ ShowModal \/ CloseModal PROVE UNCHANGED <<pc, want, twint, at, told>>
  BY <1>13 DEF PairingFound, ShowModal, CloseModal, vars, local, bank, history_
<1>14. ASSUME NEW value \in 0..(Amount + 1), Enter(value) PROVE UNCHANGED <<pc, want, twint, at, told>>
  BY <1>14 DEF Enter, vars, local, bank
<1>. QED
  BY <1>3, <1>4, <1>5, <1>6, <1>7, <1>8, <1>9, <1>10, <1>11, <1>12, <1>13, <1>14 DEF NextPage, Answered

LEMMA LogKeptKeeps ==
    ASSUME Whole, PageTypes, LogKept, NextPage
    PROVE  LogKept'
<1>0. TypeInv
  BY DEF Whole
<1>1. ASSUME UNCHANGED <<twint, logged>>, faults' = faults \/ faults' = faults + 1 PROVE LogKept'
  BY <1>1, Numbers DEF LogKept
<1>2. ASSUME NEW a \in Mine, Confirm(a) PROVE UNCHANGED <<twint, logged, faults>>
  BY <1>2 DEF Confirm, Request, bank
<1>3. ASSUME NEW a \in Mine, Answered(a) PROVE UNCHANGED <<twint, logged, faults>>
  BY <1>3 DEF Answered, Succeeded, Failed, Moved, NotMoved, StatusKnown, Transition, vars, bank
<1>4. ASSUME NEW a \in Admins, Serve(a) \/ Trouble(a) PROVE LogKept'
  <2>1. CASE twint' = twint
    <3>1. logged' = logged
      BY <1>4, <2>1 DEF Serve, Trouble, Logged
    <3>. QED
      BY <1>0, <1>1, <1>4, <2>1, <3>1, ServeEffect, TroubleEffect
  <2>2. CASE twint' # twint
    <3>1. /\ twint'.count = twint.count + 1 /\ twint'.sum = twint.sum + Limited(want[a])
          /\ Limited(want[a]) \in Nat /\ Limited(want[a]) >= 1
      <4>1. pc[a] = "call" /\ twint' = Plus(twint, Limited(want[a]))
        BY <1>0, <1>4, <2>2, ServeEffect, TroubleEffect
      <4>. QED
        BY <4>1, Numbers DEF Plus
    <3>2. logged' \in {logged, logged + 1} /\ (Serve(a) => logged' = logged + 1)
      BY <1>4, <2>2 DEF Serve, Trouble, Logged
    <3>3. (Serve(a) /\ faults' = faults) \/ faults' = faults + 1
      BY <1>0, <1>4, ServeEffect, TroubleEffect
    <3>. QED
      BY <3>1, <3>2, <3>3, Numbers DEF LogKept, PageTypes
  <2>. QED
    BY <2>1, <2>2
<1>5. ASSUME NEW a \in Admins \ Mine, Others(a) PROVE UNCHANGED <<twint, logged, faults>>
  BY <1>5 DEF Others, Request, Transition, bank, page
<1>6. ASSUME NEW l \in Lists, SearchFails(l) PROVE UNCHANGED <<twint, logged>> /\ faults' = faults + 1
  BY <1>6 DEF SearchFails, bank
<1>7. ASSUME NEW sum \in Sums, HistoryFound(sum) \/ LogFound(sum) PROVE UNCHANGED <<twint, logged, faults>>
  BY <1>7 DEF HistoryFound, LogFound, vars, bank
<1>8. ASSUME PairingFound \/ ShowModal \/ CloseModal PROVE UNCHANGED <<twint, logged, faults>>
  BY <1>8 DEF PairingFound, ShowModal, CloseModal, vars, bank
<1>9. ASSUME NEW value \in 0..(Amount + 1), Enter(value) PROVE UNCHANGED <<twint, logged, faults>>
  BY <1>9 DEF Enter, vars, bank
<1>. QED
  BY <1>1, <1>2, <1>3, <1>4, <1>5, <1>6, <1>7, <1>8, <1>9 DEF NextPage
-----------------------------------------------------------------------------
(***************************************************************************)
(* The form, with no sum on its way when it is used.                       *)
(***************************************************************************)
LEMMA HastyGrows ==
    ASSUME NextPage
    PROVE  hasty \subseteq hasty'
BY DEF NextPage, Answered, Confirm, Succeeded, Failed, Moved, NotMoved, StatusKnown, Serve, Trouble, Others,
   SearchFails, HistoryFound, LogFound, PairingFound, ShowModal, CloseModal, Enter, history_, page

LEMMA NotSearching ==
    ASSUME PageTypes, NEW l \in Lists, l \notin Searching
    PROVE  Quiet(l)
BY DEF Searching, Quiet, PageTypes

LEMMA NotPending ==
    ASSUME PageTypes, NEW l \in Lists, l \notin Pending
    PROVE  /\ Quiet(l)
           /\ \A a \in Mine : at[a] # "answer"
           /\ l = "log" => \A a \in Mine : at[a] \notin {"transition", "status"}
<1>1. l \notin Searching
  BY DEF Pending
<1>. QED
  BY <1>1, NotSearching DEF Pending, Waiting

LEMMA InFormKeeps ==
    ASSUME Whole, PageTypes, Stations, LogKept, InForm, NextPage, "history" \notin hasty'
    PROVE  InForm'
<1>0. /\ TypeInv /\ Mine \subseteq Admins /\ "history" \in Lists
      /\ \A l \in Lists : Content(l) \in Sums
  BY MineAssumption, ContentIsSum DEF Whole, Lists
<1>1. ASSUME NEW a \in Mine, Confirm(a) PROVE InForm'
  <2>1. entered \in 1..(Amount + 1) /\ Request(a, entered)
    BY <1>1, AmountAssumption DEF Confirm, PageTypes
  <2>2. Quiet("history") /\ Quiet("history")'
    BY <1>0, <1>1, NotPending DEF Confirm, Quiet
  <2>3. \A b \in Mine : at[b] # "answer"
    BY <1>0, <1>1, NotPending DEF Confirm
  <2>4. (\A b \in Mine \ {a} : at'[b] = at[b]) /\ at'[a] = "answer"
    BY <1>1 DEF Confirm, PageTypes
  <2>5. UNCHANGED <<entered, refundable>>
    BY <1>1 DEF Confirm, form, display
  <2>6. \A b \in Mine : pc'[b] = "check" => refundable = Unknown \/ want'[b] <= refundable
    BY <1>0, <2>1, RequestEffect DEF InForm
  <2>. QED
    BY <2>2, <2>3, <2>4, <2>5, <2>6 DEF InForm
<1>2. ASSUME NEW a \in Mine, Succeeded(a) PROVE InForm'
  <2>1. \A b \in Mine : at'[b] # "answer"
    BY <1>2 DEF InForm, Succeeded, PageTypes
  <2>. QED
    BY <1>2, <2>1 DEF InForm, Succeeded, vars, local, display
<1>3. ASSUME NEW a \in Mine, Failed(a) PROVE InForm'
  <2>1. \A b \in Mine : at'[b] # "answer"
    BY <1>3 DEF InForm, Failed, PageTypes
  <2>. QED
    BY <1>3, <2>1 DEF InForm, Failed, vars, local, display
<1>4. ASSUME NEW a \in Mine, Moved(a) PROVE InForm'
  <2>1. \A b \in Mine : at'[b] = "answer" => at[b] = "answer"
    BY <1>4 DEF Moved, PageTypes
  <2>2. \A b \in Mine : pc'[b] = "check" => pc[b] = "check" /\ want'[b] = want[b]
    BY <1>0, <1>4, TransitionEffect DEF Moved
  <2>3. UNCHANGED <<entered, refundable, searches>>
    BY <1>4 DEF Moved, form, display
  <2>. QED
    BY <2>1, <2>2, <2>3 DEF InForm, Quiet
<1>5. ASSUME NEW a \in Mine, NotMoved(a) PROVE InForm'
  BY <1>5 DEF InForm, NotMoved, Quiet, PageTypes, vars, local, form, display
<1>6. ASSUME NEW a \in Mine, StatusKnown(a) PROVE InForm'
  <2>1. \A b \in Mine : at'[b] = "answer" => at[b] = "answer"
    BY <1>6 DEF StatusKnown, PageTypes
  <2>2. searches'["history"] = searches["history"]
    BY <1>0, <1>6, Begins DEF StatusKnown, RefundFinish, Lists
  <2>. QED
    BY <1>6, <2>1, <2>2 DEF InForm, StatusKnown, Quiet, vars, local, form, display
<1>7. ASSUME NEW a \in Admins, Serve(a) \/ Trouble(a) \/ (a \notin Mine /\ Others(a)) PROVE InForm'
  <2>1. UNCHANGED <<at, entered, refundable, searches>>
    BY <1>7 DEF Serve, Trouble, Others, form, display, page
  <2>2. \A b \in Mine : pc'[b] = "check" => pc[b] = "check" /\ want'[b] = want[b]
    <3>1. CASE Serve(a)
      BY <1>0, <3>1, ServeEffect
    <3>2. CASE Trouble(a)
      BY <1>0, <3>2, TroubleEffect
    <3>3. CASE a \notin Mine /\ Others(a)
      BY <1>0, <3>3, AmountsAssumption, RequestEffect, TransitionEffect DEF Others
    <3>. QED
      BY <1>7, <3>1, <3>2, <3>3
  <2>. QED
    BY <2>1, <2>2 DEF InForm, Quiet
<1>8. ASSUME NEW l \in Lists, SearchFails(l) PROVE InForm'
  <2>1. UNCHANGED <<at, entered, refundable, pc, want>>
    BY <1>8 DEF SearchFails, form, local
  <2>2. CASE l = "log"
    <3>1. searches'["history"] = searches["history"]
      BY <1>0, <1>8, <2>2, Comes DEF SearchFails
    <3>. QED
      BY <2>1, <3>1 DEF InForm, Quiet
  <2>3. CASE l = "history"
    <3>1. ~Quiet("history")
      BY <1>8, <2>3, Comes DEF SearchFails
    <3>. QED
      BY <2>1, <3>1 DEF InForm
  <2>. QED
    BY <2>2, <2>3 DEF Lists
<1>9. ASSUME NEW sum \in Sums, HistoryFound(sum) PROVE InForm'
  <2>1. ~Quiet("history")
    BY <1>0, <1>9, Comes DEF HistoryFound
  <2>2. (\A a \in Mine : at[a] # "answer") /\ ~(entered > 0)
    BY <2>1 DEF InForm
  <2>3. \A a \in Mine : pc[a] # "check"
    BY <2>2 DEF Stations, PageTypes
  <2>. QED
    BY <1>9, <2>2, <2>3 DEF InForm, HistoryFound, vars, local, form
<1>10. ASSUME NEW sum \in Sums, LogFound(sum) PROVE InForm'
  <2>1. searches'["history"] = searches["history"]
    BY <1>0, <1>10, Comes DEF LogFound, Lists
  <2>. QED
    BY <1>10, <2>1 DEF InForm, LogFound, Quiet, vars, local, form
<1>11. ASSUME PairingFound \/ ShowModal \/ CloseModal PROVE InForm'
  BY <1>11 DEF InForm, Quiet, PairingFound, ShowModal, CloseModal, vars, local, form, display
<1>12. ASSUME NEW value \in 0..(Amount + 1), Enter(value) PROVE InForm'
  <2>1. Quiet("history") /\ Quiet("history")'
    BY <1>0, <1>12, NotSearching DEF Enter, Quiet
  <2>2. refundable # Unknown => refundable \in Int
    BY DEF PageTypes
  <2>3. entered' > 0 => refundable = Unknown \/ entered' <= refundable
    BY <1>12, <2>2 DEF Enter, Exceeds
  <2>. QED
    BY <1>12, <2>1, <2>3 DEF InForm, Enter, vars, local, display
<1>. QED
  BY <1>1, <1>2, <1>3, <1>4, <1>5, <1>6, <1>7, <1>8, <1>9, <1>10, <1>11, <1>12 DEF NextPage, Answered

-----------------------------------------------------------------------------
(***************************************************************************)
(* What the page shows.                                                    *)
(***************************************************************************)
\* A search for the sum that begins or arrives has one that is good.
LEMMA SumFound ==
    ASSUME Whole, PageTypes, LogKept, SumShown
    PROVE  Content("history") # Unknown => Between(Content("history"))
BY ContentIsSum, Numbers DEF SumShown, Between

LEMMA SumShownKeeps ==
    ASSUME Whole, PageTypes, Stations, LogKept, InForm, SumShown, NextPage, "history" \notin hasty',
           faults' = faults
    PROVE  SumShown'
<1>0. /\ TypeInv /\ Mine \subseteq Admins /\ "history" \in Lists
      /\ \A l \in Lists : Content(l) \in Sums
  BY MineAssumption, ContentIsSum DEF Whole, Lists
\* Whatever is written, what was between stays so.
<1>1. ASSUME history'.sum \in Nat, history'.sum >= history.sum,
             UNCHANGED <<told, refundable>>, searches'["history"] = searches["history"],
             \A a \in Mine : at'[a] = "answer" /\ pc'[a] \in {"next", "browser"} =>
                 told.sum + Limited(want'[a]) <= history'.sum
      PROVE  SumShown'
  <2>1. told.sum \in Nat /\ history.sum \in Nat
    BY Numbers DEF PageTypes
  <2>2. told'.sum <= history'.sum
    BY <1>1, <2>1 DEF SumShown
  <2>3. \A r \in Sums \ {Unknown} : searches'["history"][r] > 0 => Between(r)'
    BY <1>1, <2>1 DEF SumShown, Between, Sums
  <2>4. refundable # Unknown => refundable \in Int
    BY DEF PageTypes
  <2>5. Quiet("history")' /\ refundable' # Unknown =>
          \E of \in {Amount, OrderTotal} : Between(of - refundable)'
    BY <1>1, <2>1, <2>4, AmountAssumption, OrderTotalAssumption DEF SumShown, Between, Quiet
  <2>6. \A a \in Mine : at'[a] = "answer" /\ pc'[a] \in {"next", "browser"} =>
                 told'.sum + Limited(want'[a]) <= history'.sum
    BY <1>1
  <2>. QED
    BY <1>1, <2>2, <2>3, <2>5, <2>6 DEF SumShown, Limited
<1>2. ASSUME NEW a \in Mine, Confirm(a) PROVE SumShown'
  <2>1. entered \in 1..(Amount + 1) /\ Request(a, entered)
    BY <1>2, AmountAssumption DEF Confirm, PageTypes
  <2>2. \A b \in Mine : pc'[b] \in {"next", "browser"} => b # a /\ pc'[b] = pc[b] /\ want'[b] = want[b]
    BY <1>0, <2>1, RequestEffect
  <2>3. \A b \in Mine \ {a} : at'[b] = at[b]
    BY <1>2 DEF Confirm, PageTypes
  <2>4. \A b \in Mine : at'[b] = "answer" /\ pc'[b] \in {"next", "browser"} =>
                 told.sum + Limited(want'[b]) <= history.sum
    BY <2>2, <2>3 DEF SumShown
  <2>. QED
    BY <1>0, <1>1, <1>2, <2>1, <2>4, RequestEffect, Numbers DEF Confirm, display
<1>3. ASSUME NEW a \in Mine, Succeeded(a) PROVE SumShown'
  <2>1. at[a] = "answer" /\ pc[a] = "browser" /\ UNCHANGED <<pc, want, history>>
    BY <1>3 DEF Succeeded, vars, local, shop
  <2>2. \A b \in Mine : at'[b] # "answer"
    BY <1>3, <2>1 DEF InForm, Succeeded, PageTypes
  <2>3. told'.sum = told.sum + Limited(want[a]) /\ told'.sum <= history.sum
    BY <1>3, <2>1 DEF Succeeded, Plus, SumShown
  <2>4. Quiet("history")
    BY <2>1 DEF InForm
  <2>5. /\ searches'["history"][Content("history")] > 0
        /\ \A r \in Sums \ {Content("history")} : searches'["history"][r] = searches["history"][r]
    BY <1>0, <1>3, Begins DEF Succeeded, Refreshed, RefundFinish, Lists
  <2>6. ~Quiet("history")'
    BY <1>0, <2>5 DEF Quiet
  <2>7. \A r \in Sums \ {Unknown} : searches'["history"][r] > 0 => r = history.sum
    BY <2>4, <2>5, ContentIsSum DEF Quiet
  <2>8. \A r \in Sums \ {Unknown} : searches'["history"][r] > 0 => Between(r)'
    BY <2>1, <2>3, <2>7, Numbers DEF Between
  <2>. QED
    BY <2>1, <2>2, <2>3, <2>6, <2>8 DEF SumShown
<1>4. ASSUME NEW a \in Mine, Failed(a) \/ NotMoved(a) PROVE SumShown'
  <2>1. UNCHANGED <<pc, want, history, told, refundable, searches>>
    BY <1>4 DEF Failed, NotMoved, vars, local, shop, display, history_
  <2>2. \A b \in Mine : at'[b] = "answer" => at[b] = "answer"
    BY <1>4 DEF Failed, NotMoved, PageTypes
  <2>. QED
    BY <1>1, <2>1, <2>2, Numbers DEF SumShown
<1>5. ASSUME NEW a \in Mine, Moved(a) PROVE SumShown'
  <2>1. \A b \in Mine : at'[b] = "answer" => at[b] = "answer"
    BY <1>5 DEF Moved, PageTypes
  <2>2. \A b \in Mine : pc'[b] \in {"next", "browser"} => pc'[b] = pc[b] /\ want'[b] = want[b]
    BY <1>0, <1>5, TransitionEffect DEF Moved
  <2>3. \A b \in Mine : at'[b] = "answer" /\ pc'[b] \in {"next", "browser"} =>
                 told.sum + Limited(want'[b]) <= history.sum
    BY <2>1, <2>2 DEF SumShown
  <2>. QED
    BY <1>0, <1>1, <1>5, <2>3, TransitionEffect, Numbers DEF Moved, display, history_
<1>6. ASSUME NEW a \in Mine, StatusKnown(a) PROVE SumShown'
  <2>1. UNCHANGED <<pc, want, history, told, refundable>>
    BY <1>6 DEF StatusKnown, vars, local, shop, display, history_
  <2>2. \A b \in Mine : at'[b] = "answer" => at[b] = "answer"
    BY <1>6 DEF StatusKnown, PageTypes
  <2>3. searches'["history"] = searches["history"]
    BY <1>0, <1>6, Begins DEF StatusKnown, RefundFinish, Lists
  <2>. QED
    BY <1>1, <2>1, <2>2, <2>3, Numbers DEF SumShown
<1>7. ASSUME NEW a \in Admins, Serve(a) PROVE SumShown'
  <2>1. UNCHANGED <<at, told, refundable, searches>>
    BY <1>7 DEF Serve, display, history_
  <2>2. told.sum \in Nat /\ history.sum \in Nat /\ \A b \in Admins : Limited(want[b]) \in Nat
    BY Numbers DEF PageTypes
  <2>3. CASE pc[a] = "write" /\ pc'[a] = "next" /\ want' = want /\ history' = Plus(history, Limited(want[a]))
    <3>1. history'.sum = history.sum + Limited(want[a]) /\ history'.sum \in Nat
      BY <2>2, <2>3 DEF Plus
    <3>2. ASSUME NEW b \in Mine, at[b] = "answer", pc'[b] \in {"next", "browser"}
          PROVE  told.sum + Limited(want[b]) <= history'.sum
      <4>1. CASE b = a
        BY <2>2, <3>1, <4>1 DEF SumShown
      <4>2. CASE b # a
        BY <1>0, <1>7, <2>2, <3>1, <3>2, <4>2, ServeEffect DEF SumShown
      <4>. QED
        BY <4>1, <4>2
    <3>. QED
      BY <1>1, <2>1, <2>2, <2>3, <3>1, <3>2
  <2>4. CASE history' = history
    <3>1. ASSUME NEW b \in Mine, at[b] = "answer", pc'[b] \in {"next", "browser"}
          PROVE  pc[b] \in {"next", "browser"} /\ want'[b] = want[b]
      BY <1>0, <1>7, <2>4, <3>1, <2>2, Numbers, ServeEffect DEF Plus
    <3>. QED
      BY <1>1, <2>1, <2>2, <2>4, <3>1 DEF SumShown
  <2>. QED
    BY <1>0, <1>7, <2>3, <2>4, ServeEffect
<1>8. ASSUME NEW a \in Admins, Trouble(a) PROVE FALSE
  BY <1>0, <1>8, TroubleEffect, Numbers
<1>9. ASSUME NEW a \in Admins \ Mine, Others(a) PROVE SumShown'
  <2>1. /\ \A b \in Mine : pc'[b] = pc[b] /\ want'[b] = want[b]
        /\ history' = history
    BY <1>0, <1>9, AmountsAssumption, RequestEffect, TransitionEffect DEF Others
  <2>2. UNCHANGED <<at, told, refundable, searches>>
    BY <1>9 DEF Others, page, display, history_
  <2>. QED
    BY <1>1, <2>1, <2>2, Numbers DEF SumShown
<1>10. ASSUME NEW l \in Lists, SearchFails(l) PROVE FALSE
  BY <1>10, Numbers DEF SearchFails
<1>11. ASSUME NEW sum \in Sums, HistoryFound(sum) PROVE SumShown'
  <2>1. /\ sum = Content("history") \/ searches["history"][sum] > 0
        /\ \A s \in Sums : searches'["history"][s] > 0 => searches["history"][s] > 0
    BY <1>0, <1>11, Comes DEF HistoryFound
  <2>2. sum # Unknown => Between(sum)
    BY <2>1, SumFound DEF SumShown
  <2>3. UNCHANGED <<pc, want, history, told, at>> /\ refundable' = Left(sum)
    BY <1>11 DEF HistoryFound, vars, local, shop
  <2>4. refundable' # Unknown => sum # Unknown /\ refundable' = total - sum
    BY <2>3 DEF Left
  <2>5. sum # Unknown => total - (total - sum) = sum
    BY AmountAssumption, OrderTotalAssumption DEF PageTypes, Sums
  <2>7. refundable' # Unknown => \E of \in {Amount, OrderTotal} : Between(of - refundable)'
    <3>1. total \in {Amount, OrderTotal}
      BY DEF PageTypes
    <3>2. refundable' # Unknown => Between(total - refundable)'
      BY <1>11, <2>2, <2>3, <2>4, <2>5 DEF Between, HistoryFound
    <3>. QED
      BY <1>11, <3>1, <3>2 DEF Between, HistoryFound
  <2>8. \A r \in Sums \ {Unknown} : searches'["history"][r] > 0 => Between(r)'
    BY <2>1, <2>3 DEF SumShown, Between
  <2>. QED
    BY <2>3, <2>7, <2>8 DEF SumShown, Between, Limited
<1>12. ASSUME NEW sum \in Sums, LogFound(sum) PROVE SumShown'
  <2>1. searches'["history"] = searches["history"]
    BY <1>0, <1>12, Comes DEF LogFound, Lists
  <2>2. UNCHANGED <<pc, want, history, told, at, refundable>>
    BY <1>12 DEF LogFound, vars, local, shop, history_
  <2>. QED
    BY <1>1, <2>1, <2>2, Numbers DEF SumShown
<1>13. ASSUME UNCHANGED <<pc, want, history, told, at, refundable, searches>> PROVE SumShown'
  BY <1>1, <1>13, Numbers DEF SumShown
<1>14. ASSUME PairingFound \/ ShowModal \/ CloseModal
       PROVE  UNCHANGED <<pc, want, history, told, at, refundable, searches>>
  BY <1>14 DEF PairingFound, ShowModal, CloseModal, vars, local, shop, display, history_
<1>15. ASSUME NEW value \in 0..(Amount + 1), Enter(value)
       PROVE  UNCHANGED <<pc, want, history, told, at, refundable, searches>>
  BY <1>15 DEF Enter, vars, local, shop, display
<1>. QED
  BY <1>2, <1>3, <1>4, <1>5, <1>6, <1>7, <1>8, <1>9, <1>10, <1>11, <1>12, <1>13, <1>14, <1>15
  DEF NextPage, Answered
LEMMA LogAloneKeeps ==
    ASSUME Whole, PageTypes, LogKept, InForm, LogAlone, NextPage, hasty' = {}
    PROVE  LogAlone'
<1>0. "log" \in Lists /\ "history" \in Lists /\ \A l \in Lists : Content(l) \in Sums
  BY ContentIsSum DEF Lists
<1>1. ASSUME NEW a \in Mine, Confirm(a) PROVE LogAlone'
  <2>1. "log" \notin Pending
    BY <1>1 DEF Confirm
  <2>2. Quiet("log")' /\ \A b \in Mine : at[b] \notin {"transition", "status"}
    BY <1>0, <1>1, <2>1, NotPending DEF Confirm, Quiet
  <2>. QED
    BY <1>1, <2>2 DEF LogAlone, Confirm, PageTypes
<1>2. ASSUME NEW a \in Mine, Succeeded(a) PROVE LogAlone'
  <2>1. \A b \in Mine : at'[b] # "answer"
    BY <1>2 DEF InForm, Succeeded, PageTypes
  <2>. QED
    BY <2>1 DEF LogAlone
<1>3. ASSUME NEW a \in Mine, Failed(a) PROVE LogAlone'
  BY <1>3 DEF LogAlone, Failed, PageTypes, Quiet
<1>4. ASSUME NEW a \in Mine, Moved(a) \/ NotMoved(a) \/ StatusKnown(a) PROVE LogAlone'
  <2>1. \A b \in Mine : at'[b] # "answer"
    BY <1>4 DEF LogAlone, Moved, NotMoved, StatusKnown, PageTypes
  <2>. QED
    BY <2>1 DEF LogAlone
<1>5. ASSUME UNCHANGED <<at, searches>> PROVE LogAlone'
  BY <1>5 DEF LogAlone, Quiet
<1>6. ASSUME NEW a \in Admins, Serve(a) \/ Trouble(a) \/ Others(a) PROVE UNCHANGED <<at, searches>>
  BY <1>6 DEF Serve, Trouble, Others, page
<1>7. ASSUME NEW l \in Lists, SearchFails(l) PROVE LogAlone'
  <2>1. l = "log" => ~Quiet("log")
    BY <1>7, Comes DEF SearchFails
  <2>2. l # "log" => searches'["log"] = searches["log"]
    BY <1>0, <1>7, Comes DEF SearchFails
  <2>. QED
    BY <1>7, <2>1, <2>2 DEF LogAlone, SearchFails, Quiet
<1>8. ASSUME NEW sum \in Sums, HistoryFound(sum) PROVE LogAlone'
  <2>1. searches'["log"] = searches["log"]
    BY <1>0, <1>8, Comes DEF HistoryFound, Lists
  <2>. QED
    BY <1>8, <2>1 DEF LogAlone, HistoryFound, Quiet
<1>9. ASSUME NEW sum \in Sums, LogFound(sum) PROVE LogAlone'
  <2>1. ~Quiet("log")
    BY <1>0, <1>9, Comes DEF LogFound
  <2>. QED
    BY <1>9, <2>1 DEF LogAlone, LogFound
<1>10. ASSUME PairingFound \/ ShowModal \/ CloseModal PROVE UNCHANGED <<at, searches>>
  BY <1>10 DEF PairingFound, ShowModal, CloseModal
<1>11. ASSUME NEW value \in 0..(Amount + 1), Enter(value) PROVE UNCHANGED <<at, searches>>
  BY <1>11 DEF Enter
<1>. QED
  BY <1>1, <1>2, <1>3, <1>4, <1>5, <1>6, <1>7, <1>8, <1>9, <1>10, <1>11 DEF NextPage, Answered

\* Without faults the log has what the page was told of.
LEMMA ToldIsLogged ==
    ASSUME PageTypes, Owes, LogKept, faults = 0
    PROVE  told.count <= logged
BY DEF PageTypes, Owes, LogKept

LEMMA LogShownKeeps ==
    ASSUME Whole, PageTypes, Stations, Owes, LogKept, LogAlone, LogShown, NextPage, faults = 0, faults' = 0
    PROVE  LogShown'
<1>0. /\ "log" \in Lists /\ "history" \in Lists /\ \A l \in Lists : Content(l) \in Sums
      /\ Content("log") = logged /\ logged # Unknown
  BY ContentIsSum, OrderTotalAssumption DEF Lists, PageTypes
<1>1. ASSUME UNCHANGED <<told, shownLog>>, searches'["log"] = searches["log"] PROVE LogShown'
  BY <1>1 DEF LogShown, Quiet
\* A search that begins finds what the log has now.
<1>2. ASSUME NEW ls \in SUBSET Lists, "log" \in ls, Search(ls), told'.count <= logged,
             told' = told \/ Quiet("log")
      PROVE  LogShown'
  <2>1. /\ searches'["log"][logged] > 0
        /\ \A r \in Sums \ {logged} : searches'["log"][r] = searches["log"][r]
    BY <1>0, <1>2, Begins
  <2>2. ~Quiet("log")'
    BY <1>0, <2>1 DEF Quiet
  <2>3. \A r \in Sums : searches'["log"][r] > 0 => r # Unknown /\ told'.count <= r
    BY <1>0, <1>2, <2>1 DEF LogShown, Quiet
  <2>. QED
    BY <2>2, <2>3 DEF LogShown
<1>3. ASSUME NEW a \in Mine, Succeeded(a) PROVE LogShown'
  <2>1. told'.count <= logged
    <3>1. Owes' /\ PageTypes' /\ LogKept'
      BY OwesKeep, PageTypesKeep, LogKeptKeeps
    <3>2. faults' = 0 /\ logged' = logged
      BY <1>3 DEF Succeeded, vars
    <3>. QED
      BY <3>1, <3>2 DEF PageTypes, Owes, LogKept
  <2>. QED
    BY <1>2, <1>3, <2>1 DEF Succeeded, Refreshed, RefundFinish, Lists, LogAlone
<1>4. ASSUME NEW a \in Mine, StatusKnown(a) PROVE LogShown'
  <2>1. UNCHANGED <<told, shownLog>>
    BY <1>4 DEF StatusKnown, display, history_
  <2>2. CASE Search({"log"})
    BY <1>2, <2>1, <2>2, ToldIsLogged DEF Lists
  <2>. QED
    BY <1>1, <1>4, <2>1, <2>2 DEF StatusKnown, RefundFinish
<1>5. ASSUME NEW a \in Mine, Confirm(a) \/ Failed(a) \/ Moved(a) \/ NotMoved(a)
      PROVE  UNCHANGED <<told, shownLog, searches>>
  BY <1>5 DEF Confirm, Failed, Moved, NotMoved, display, history_
<1>6. ASSUME NEW a \in Admins, Serve(a) \/ Trouble(a) \/ Others(a)
      PROVE  UNCHANGED <<told, shownLog, searches>>
  BY <1>6 DEF Serve, Trouble, Others, page, display, history_
<1>7. ASSUME NEW l \in Lists, SearchFails(l) PROVE FALSE
  BY <1>7 DEF SearchFails
<1>8. ASSUME NEW sum \in Sums, HistoryFound(sum) PROVE LogShown'
  <2>1. searches'["log"] = searches["log"]
    BY <1>0, <1>8, Comes DEF HistoryFound, Lists
  <2>. QED
    BY <1>1, <1>8, <2>1 DEF HistoryFound
<1>9. ASSUME NEW sum \in Sums, LogFound(sum) PROVE LogShown'
  <2>1. /\ sum = logged \/ searches["log"][sum] > 0
        /\ \A s \in Sums : searches'["log"][s] > 0 => searches["log"][s] > 0
    BY <1>0, <1>9, Comes DEF LogFound
  <2>2. sum # Unknown /\ told.count <= sum
    BY <1>0, <2>1, ToldIsLogged DEF LogShown
  <2>. QED
    BY <1>9, <2>1, <2>2 DEF LogShown, LogFound, history_
<1>10. ASSUME PairingFound \/ ShowModal \/ CloseModal PROVE UNCHANGED <<told, shownLog, searches>>
  BY <1>10 DEF PairingFound, ShowModal, CloseModal, display, history_
<1>11. ASSUME NEW value \in 0..(Amount + 1), Enter(value) PROVE UNCHANGED <<told, shownLog, searches>>
  BY <1>11 DEF Enter, display
<1>. QED
  BY <1>1, <1>3, <1>4, <1>5, <1>6, <1>7, <1>8, <1>9, <1>10, <1>11 DEF NextPage, Answered

-----------------------------------------------------------------------------
LEMMA FaultsStay ==
    ASSUME Whole, NextPage, faults' = 0
    PROVE  faults = 0
<1>1. faults \in Nat
  BY Numbers
<1>2. faults' = faults \/ faults' = faults + 1
  BY DEF NextPage, Answered, Confirm, Succeeded, Failed, Moved, NotMoved, StatusKnown, Serve, Trouble, Others,
     SearchFails, HistoryFound, LogFound, PairingFound, ShowModal, CloseModal, Enter, Request, Check,
     ReadIndex, Call, WriteRow, Answer, Transition, Fault, vars
<1>. QED
  BY <1>1, <1>2

LEMMA PageKeeps == PageInv /\ [NextPage]_<<vars, page>> => PageInv'
<1> SUFFICES ASSUME PageInv, [NextPage]_<<vars, page>> PROVE PageInv'
  OBVIOUS
<1>1. CASE UNCHANGED <<vars, page>>
  <2>1. Whole'
    BY <1>1, WholeKeeps DEF PageInv
  <2>2. /\ UNCHANGED <<modal, entered, refundable, total, paired, shownLog, at, searches, logged, told, hasty>>
        /\ UNCHANGED <<pc, want, twint, history, faults>>
    BY <1>1 DEF vars, local, shop, bank, page, form, display, history_
  <2>3. PageTypes' /\ Stations' /\ LogKept'
    BY <2>2 DEF PageInv, PageTypes, Stations, LogKept
  <2>4. Owes'
    <3>1. Owing' = Owing /\ One' = One /\ Lim' = Lim
      BY <2>2 DEF Owing, One, Lim, Limited
    <3>. QED
      BY <2>2, <3>1 DEF PageInv, Owes
  <2>5. "history" \notin hasty' => InForm' /\ (faults' = 0 => SumShown')
    BY <2>2 DEF PageInv, InForm, SumShown, Between, Quiet, Limited
  <2>6. hasty' = {} => LogAlone' /\ (faults' = 0 => LogShown')
    BY <2>2 DEF PageInv, LogAlone, LogShown, Quiet
  <2>. QED
    BY <2>1, <2>3, <2>4, <2>5, <2>6 DEF PageInv
<1>2. CASE NextPage
  <2>1. Whole' /\ PageTypes' /\ Stations' /\ Owes' /\ LogKept'
    BY <1>2, ServerKeeps, PageTypesKeep, StationsKeep, OwesKeep, LogKeptKeeps DEF PageInv
  <2>2. "history" \notin hasty' => InForm' /\ (faults' = 0 => SumShown')
    BY <1>2, HastyGrows, FaultsStay, InFormKeeps, SumShownKeeps DEF PageInv
  <2>3. hasty' = {} => LogAlone' /\ (faults' = 0 => LogShown')
    <3> SUFFICES ASSUME hasty' = {} PROVE LogAlone' /\ (faults' = 0 => LogShown')
      OBVIOUS
    <3>1. hasty = {} /\ InForm
      BY <1>2, HastyGrows DEF PageInv
    <3>. QED
      BY <1>2, <3>1, FaultsStay, LogAloneKeeps, LogShownKeeps DEF PageInv
  <2>. QED
    BY <2>1, <2>2, <2>3 DEF PageInv
<1>. QED
  BY <1>1, <1>2

LEMMA PageHolds == SpecPage => []PageInv
  BY PageInit, PageKeeps, PTL DEF SpecPage

\* Whatever pages do, alone or beside each other, and whatever they are late to
\* show: all that Refund promises of the server holds.
THEOREM ServerUnderPage ==
    SpecPage => [](HistoryIsComplete /\ StateTellsRefunds /\ AskedOneByOne)
<1>1. InitPage => IInv
  BY InitHolds DEF InitPage
<1>2. PageInv /\ IInv /\ [NextPage]_<<vars, page>> => IInv'
  BY OneByOneKeeps, NextKeeps DEF PageInv
<1>3. PageInv /\ IInv => HistoryIsComplete /\ StateTellsRefunds /\ AskedOneByOne
  BY CompleteOfWhole, StateOfWhole, OneByOneOfInv DEF PageInv
<1>. QED
  BY <1>1, <1>2, <1>3, PageHolds, PTL DEF SpecPage

\* A page is told of no more than TWINT has made, whoever else makes refunds, and
\* the log has no more reversals than TWINT.
THEOREM PageTypeCorrect == SpecPage => []PageTypeOK
<1>1. ASSUME PageInv PROVE PageTypeOK
  <2>1. told.sum \in 0..Amount /\ told.count \in Nat
    BY <1>1, Numbers, AmountAssumption DEF PageInv, PageTypes, Owes
  <2>2. told \in Log
    BY <1>1, <2>1 DEF PageInv, PageTypes, Log
  <2>3. logged \in 0..twint.count
    BY <1>1, Numbers DEF PageInv, PageTypes, LogKept
  <2>. QED
    BY <1>1, <2>2, <2>3 DEF PageInv, PageTypes, PageTypeOK, Whole, TypeInv
<1>. QED
  BY <1>1, PageHolds, PTL

\* amountInputChanged compares with the sum shown: TwintController::refund finds
\* an amount of this page too high only when that sum was old.
THEOREM RefusedOnlyBehindAlways == SpecPage => []RefusedOnlyBehind
<1>1. ASSUME PageInv PROVE RefusedOnlyBehind
  <2> SUFFICES ASSUME NEW a \in Mine, pc[a] = "check", want[a] > Refundable,
                      "history" \notin hasty, refundable = Amount - history.sum
               PROVE  FALSE
    BY DEF RefusedOnlyBehind
  <2>1. history.sum \in Nat /\ (history.count = 0 => history.sum = 0) /\ want[a] \in Nat
    BY <1>1, Numbers, MineAssumption DEF PageInv
  <2>2. refundable # Unknown /\ refundable <= Refundable
    BY <2>1, AmountAssumption, EmptySumAssumption, OrderTotalAssumption DEF Refundable, Total
  <2>3. want[a] <= refundable
    BY <1>1, <2>2 DEF PageInv, InForm
  <2>. QED
    BY <2>1, <2>2, <2>3, AmountAssumption, EmptySumAssumption DEF Refundable, Total
<1>. QED
  BY <1>1, PageHolds, PTL

\* getReversalHistoryList and getTransactionLogList show, when all their answers
\* are there, at least the refunds the page itself was told of, and no more than
\* there are.
THEOREM ListsAreCurrentAlways == SpecPage => []ListsAreCurrent
<1>1. ASSUME PageInv, faults = 0, Resting PROVE RefundableIsCurrent /\ LogIsCurrent
  <2>1. Quiet("history") /\ Quiet("log")
    BY <1>1, NotPending DEF PageInv, Resting, Lists
  <2>2. history.sum \in Nat /\ told.sum \in Nat
    BY <1>1, Numbers DEF PageInv, PageTypes
  <2>3. ASSUME "history" \notin hasty, refundable # Unknown
        PROVE  \E of \in {Amount, OrderTotal} : refundable \in (of - history.sum)..(of - told.sum)
    <3>1. PICK of \in {Amount, OrderTotal} : Between(of - refundable)
      BY <1>1, <2>1, <2>3 DEF PageInv, SumShown
    <3>2. refundable \in Int /\ of \in Int
      BY <1>1, <2>3, AmountAssumption, OrderTotalAssumption DEF PageInv, PageTypes
    <3>. QED
      BY <2>2, <3>1, <3>2 DEF Between
  <2>4. ASSUME hasty = {} PROVE shownLog >= told.count
    <3>1. shownLog # Unknown /\ told.count <= shownLog
      BY <1>1, <2>1, <2>4 DEF PageInv, LogShown
    <3>2. shownLog \in Int /\ told.count \in Int
      BY <1>1, <3>1 DEF PageInv, PageTypes, Sums
    <3>. QED
      BY <3>1, <3>2
  <2>. QED
    BY <2>3, <2>4 DEF RefundableIsCurrent, LogIsCurrent
<1>2. PageInv => ListsAreCurrent
  BY <1>1 DEF ListsAreCurrent, RefundableIsCurrent, LogIsCurrent
<1>. QED
  BY <1>2, PageHolds, PTL
=============================================================================
