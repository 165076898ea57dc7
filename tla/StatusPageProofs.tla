--------------------------- MODULE StatusPageProofs ---------------------------
(***************************************************************************)
(* Proofs about StatusPage, for any number of check-ins, questions and     *)
(* errors: its types, and that an earlier check-in leaves a later one      *)
(* alone.  One modal serves all the instances, so the argument says of     *)
(* each instance that still asks why it does: its check-in is the one in   *)
(* the modal, or its modal was closed while its request was under way.     *)
(***************************************************************************)
EXTENDS StatusPage, TLAPS

\* An instance that lives has a row, and is not the one that is to begin,
\* which is the newest of all.
Begun == \A i \in CheckIns : poll[i] # "none" => row[i] # "none" /\ i # button
Newest ==
    button # 0 =>
        row[button] # "none" /\ \A i \in CheckIns : row[i] # "none" => i <= button

\* An answer is on its way to who asked, and a final one is what the row says.
Replies ==
    \A i \in CheckIns :
        /\ reply[i] # "none" => poll[i] = "asked"
        /\ reply[i] \in Finals => row[i] = reply[i]

\* The loading popup covers the buttons, so there is no modal behind it; an
\* open one has its owner.
OneModal ==
    /\ waiting => modal = Closed
    /\ modal # Closed => owner # 0

\* Who asks is the check-in in the modal, or was cut off, and is earlier.
AskersOpen ==
    modal # Closed =>
        \A i \in CheckIns : Asking(i) => i = owner \/ (i \in cut /\ i < owner)
AskersClosed == modal = Closed => \A i \in CheckIns : Asking(i) => i \in cut

Modals == Begun /\ Newest /\ Replies /\ OneModal /\ AskersOpen /\ AskersClosed
PageInv == TypeOK /\ Modals
-----------------------------------------------------------------------------
USE BoundsAssumption
USE DEF CheckIns, Finals, Closed, Asking, Finished, Everywhere, Show, Hide,
        shown, clock, instance, asked, history, Unchecked, TimerCleared, CutOff, Cancelled

LEMMA ClickKeeps ==
    ASSUME PageInv, Click
    PROVE  PageInv'
<1>. USE DEF Click
<1>1. TypeOK'
  BY DEF PageInv, Modals, TypeOK, Begun, Newest, Replies
<1>2. Begun' /\ Newest'
  BY DEF PageInv, Modals, TypeOK, Begun, Newest
<1>3. Replies'
  BY DEF PageInv, Modals, TypeOK, Begun, Replies
<1>4. OneModal'
  BY DEF PageInv, Modals, TypeOK, OneModal
<1>5. AskersOpen' /\ AskersClosed'
  BY DEF PageInv, Modals, TypeOK, Begun, Newest, Replies, OneModal, AskersOpen,
         AskersClosed
<1>. QED
  BY <1>1, <1>2, <1>3, <1>4, <1>5 DEF PageInv, Modals

LEMMA StoreKeeps ==
    ASSUME PageInv, Store
    PROVE  PageInv'
<1>. USE DEF Store
<1>1. TypeOK'
  BY DEF PageInv, Modals, TypeOK, Begun, Newest, Replies
<1>2. Begun' /\ Newest'
  BY DEF PageInv, Modals, TypeOK, Begun, Newest
<1>3. Replies'
  BY DEF PageInv, Modals, TypeOK, Begun, Replies
<1>4. OneModal'
  BY DEF PageInv, Modals, TypeOK, OneModal
<1>5. AskersOpen' /\ AskersClosed'
  BY DEF PageInv, Modals, TypeOK, Begun, Newest, Replies, OneModal, AskersOpen,
         AskersClosed
<1>. QED
  BY <1>1, <1>2, <1>3, <1>4, <1>5 DEF PageInv, Modals

LEMMA AddProductToCartKeeps ==
    ASSUME PageInv, AddProductToCart
    PROVE  PageInv'
<1>. USE DEF AddProductToCart
<1>1. TypeOK'
  BY DEF PageInv, Modals, TypeOK, Begun, Newest, Replies
<1>2. Begun' /\ Newest'
  BY DEF PageInv, Modals, TypeOK, Begun, Newest
<1>3. Replies'
  BY DEF PageInv, Modals, TypeOK, Begun, Replies
<1>4. OneModal'
  BY DEF PageInv, Modals, TypeOK, OneModal
<1>5. AskersOpen' /\ AskersClosed'
  BY DEF PageInv, Modals, TypeOK, Begun, Newest, Replies, OneModal, AskersOpen,
         AskersClosed
<1>. QED
  BY <1>1, <1>2, <1>3, <1>4, <1>5 DEF PageInv, Modals

LEMMA OpenKeeps ==
    ASSUME PageInv, Open
    PROVE  PageInv'
<1>. USE DEF Open, Begin, Registered, Started, AskOrStop
<1>1. TypeOK'
  <2>1. /\ row' \in [CheckIns -> {"none", "open"} \cup Finals]
        /\ reply' \in [CheckIns -> {"none", "open", "error"} \cup Finals]
    BY DEF PageInv, TypeOK
  <2>2. waiting' \in BOOLEAN /\ hour' \in BOOLEAN /\ (button' # 0 => waiting')
    BY DEF PageInv, TypeOK
  <2>3. /\ button' \in CheckIns \cup {0} /\ owner' \in CheckIns \cup {0}
        /\ startedAt' \in 0..MaxCheckIns /\ errors' \in 0..MaxErrors
    BY DEF PageInv, TypeOK
  <2>4. modal' \in {Closed} \cup [of : CheckIns, says : {"qr", "DONE", "FAILED", "error"}]
    BY DEF PageInv, TypeOK
  <2>5. poll' \in [CheckIns -> {"none", "timer", "asked", "over", "late"}]
    BY DEF PageInv, TypeOK
  <2>6. checking' \in [CheckIns -> BOOLEAN]
    BY DEF PageInv, TypeOK
  <2>7. count' \in [CheckIns -> 0..(PollLimit + 1)]
    BY DEF PageInv, TypeOK
  <2>8. \A j \in CheckIns : checking'[j] <=> poll'[j] = "asked"
    BY DEF PageInv, TypeOK, Modals, Begun, Replies
  <2>. QED
    BY <2>1, <2>2, <2>3, <2>4, <2>5, <2>6, <2>7, <2>8 DEF TypeOK
<1>2. Begun' /\ Newest'
  BY DEF PageInv, Modals, TypeOK, Begun, Newest
<1>3. Replies'
  BY DEF PageInv, Modals, TypeOK, Begun, Replies
<1>4. OneModal'
  BY DEF PageInv, Modals, TypeOK, OneModal
<1>5. AskersOpen' /\ AskersClosed'
  BY DEF PageInv, Modals, TypeOK, Begun, Newest, Replies, OneModal, AskersOpen,
         AskersClosed
<1>. QED
  BY <1>1, <1>2, <1>3, <1>4, <1>5 DEF PageInv, Modals

LEMMA OpenFailsKeeps ==
    ASSUME PageInv, OpenFails
    PROVE  PageInv'
<1>. USE DEF OpenFails
<1>1. TypeOK'
  <2>1. /\ row' \in [CheckIns -> {"none", "open"} \cup Finals]
        /\ reply' \in [CheckIns -> {"none", "open", "error"} \cup Finals]
    BY DEF PageInv, TypeOK
  <2>2. waiting' \in BOOLEAN /\ hour' \in BOOLEAN /\ (button' # 0 => waiting')
    BY DEF PageInv, TypeOK
  <2>3. /\ button' \in CheckIns \cup {0} /\ owner' \in CheckIns \cup {0}
        /\ startedAt' \in 0..MaxCheckIns /\ errors' \in 0..MaxErrors
    BY DEF PageInv, TypeOK
  <2>4. modal' \in {Closed} \cup [of : CheckIns, says : {"qr", "DONE", "FAILED", "error"}]
    BY DEF PageInv, TypeOK
  <2>5. poll' \in [CheckIns -> {"none", "timer", "asked", "over", "late"}]
    BY DEF PageInv, TypeOK
  <2>6. checking' \in [CheckIns -> BOOLEAN]
    BY DEF PageInv, TypeOK
  <2>7. count' \in [CheckIns -> 0..(PollLimit + 1)]
    BY DEF PageInv, TypeOK
  <2>8. \A j \in CheckIns : checking'[j] <=> poll'[j] = "asked"
    BY DEF PageInv, TypeOK, Modals, Begun, Replies
  <2>. QED
    BY <2>1, <2>2, <2>3, <2>4, <2>5, <2>6, <2>7, <2>8 DEF TypeOK
<1>2. Begun' /\ Newest'
  BY DEF PageInv, Modals, TypeOK, Begun, Newest
<1>3. Replies'
  BY DEF PageInv, Modals, TypeOK, Begun, Replies
<1>4. OneModal'
  BY DEF PageInv, Modals, TypeOK, OneModal
<1>5. AskersOpen' /\ AskersClosed'
  BY DEF PageInv, Modals, TypeOK, Begun, Newest, Replies, OneModal, AskersOpen,
         AskersClosed
<1>. QED
  BY <1>1, <1>2, <1>3, <1>4, <1>5 DEF PageInv, Modals

LEMMA FireKeeps ==
    ASSUME PageInv, NEW i \in CheckIns, Fire(i)
    PROVE  PageInv'
<1>. USE DEF Fire, AskOrStop, Begin
<1>1. TypeOK'
  <2>1. /\ row' \in [CheckIns -> {"none", "open"} \cup Finals]
        /\ reply' \in [CheckIns -> {"none", "open", "error"} \cup Finals]
    BY DEF PageInv, TypeOK
  <2>2. waiting' \in BOOLEAN /\ hour' \in BOOLEAN /\ (button' # 0 => waiting')
    BY DEF PageInv, TypeOK
  <2>3. /\ button' \in CheckIns \cup {0} /\ owner' \in CheckIns \cup {0}
        /\ startedAt' \in 0..MaxCheckIns /\ errors' \in 0..MaxErrors
    BY DEF PageInv, TypeOK
  <2>4. modal' \in {Closed} \cup [of : CheckIns, says : {"qr", "DONE", "FAILED", "error"}]
    BY DEF PageInv, TypeOK
  <2>5. poll' \in [CheckIns -> {"none", "timer", "asked", "over", "late"}]
    BY DEF PageInv, TypeOK
  <2>6. checking' \in [CheckIns -> BOOLEAN]
    BY DEF PageInv, TypeOK
  <2>7. count' \in [CheckIns -> 0..(PollLimit + 1)]
    BY DEF PageInv, TypeOK
  <2>8. \A j \in CheckIns : checking'[j] <=> poll'[j] = "asked"
    BY DEF PageInv, TypeOK, Modals, Begun, Replies
  <2>. QED
    BY <2>1, <2>2, <2>3, <2>4, <2>5, <2>6, <2>7, <2>8 DEF TypeOK
<1>2. Begun' /\ Newest'
  BY DEF PageInv, Modals, TypeOK, Begun, Newest
<1>3. Replies'
  BY DEF PageInv, Modals, TypeOK, Begun, Replies
<1>4. OneModal'
  BY DEF PageInv, Modals, TypeOK, OneModal
<1>5. AskersOpen' /\ AskersClosed'
  BY DEF PageInv, Modals, TypeOK, Begun, Newest, Replies, OneModal, AskersOpen,
         AskersClosed
<1>. QED
  BY <1>1, <1>2, <1>3, <1>4, <1>5 DEF PageInv, Modals

LEMMA AnswerKeeps ==
    ASSUME PageInv, NEW i \in CheckIns, Answer(i)
    PROVE  PageInv'
<1>. USE DEF Answer
<1>1. TypeOK'
  <2>1. /\ row' \in [CheckIns -> {"none", "open"} \cup Finals]
        /\ reply' \in [CheckIns -> {"none", "open", "error"} \cup Finals]
    BY DEF PageInv, TypeOK
  <2>2. waiting' \in BOOLEAN /\ hour' \in BOOLEAN /\ (button' # 0 => waiting')
    BY DEF PageInv, TypeOK
  <2>3. /\ button' \in CheckIns \cup {0} /\ owner' \in CheckIns \cup {0}
        /\ startedAt' \in 0..MaxCheckIns /\ errors' \in 0..MaxErrors
    BY DEF PageInv, TypeOK
  <2>4. modal' \in {Closed} \cup [of : CheckIns, says : {"qr", "DONE", "FAILED", "error"}]
    BY DEF PageInv, TypeOK
  <2>5. poll' \in [CheckIns -> {"none", "timer", "asked", "over", "late"}]
    BY DEF PageInv, TypeOK
  <2>6. checking' \in [CheckIns -> BOOLEAN]
    BY DEF PageInv, TypeOK
  <2>7. count' \in [CheckIns -> 0..(PollLimit + 1)]
    BY DEF PageInv, TypeOK
  <2>8. \A j \in CheckIns : checking'[j] <=> poll'[j] = "asked"
    BY DEF PageInv, TypeOK, Modals, Begun, Replies
  <2>. QED
    BY <2>1, <2>2, <2>3, <2>4, <2>5, <2>6, <2>7, <2>8 DEF TypeOK
<1>2. Begun' /\ Newest'
  BY DEF PageInv, Modals, TypeOK, Begun, Newest
<1>3. Replies'
  BY DEF PageInv, Modals, TypeOK, Begun, Replies
<1>4. OneModal'
  BY DEF PageInv, Modals, TypeOK, OneModal
<1>5. AskersOpen' /\ AskersClosed'
  BY DEF PageInv, Modals, TypeOK, Begun, Newest, Replies, OneModal, AskersOpen,
         AskersClosed
<1>. QED
  BY <1>1, <1>2, <1>3, <1>4, <1>5 DEF PageInv, Modals

LEMMA ReceiveOpenKeeps ==
    ASSUME PageInv, NEW i \in CheckIns, ReceiveOpen(i)
    PROVE  PageInv'
<1>. USE DEF ReceiveOpen, Received, Begin
<1>1. TypeOK'
  <2>1. /\ row' \in [CheckIns -> {"none", "open"} \cup Finals]
        /\ reply' \in [CheckIns -> {"none", "open", "error"} \cup Finals]
    BY DEF PageInv, TypeOK
  <2>2. waiting' \in BOOLEAN /\ hour' \in BOOLEAN /\ (button' # 0 => waiting')
    BY DEF PageInv, TypeOK
  <2>3. /\ button' \in CheckIns \cup {0} /\ owner' \in CheckIns \cup {0}
        /\ startedAt' \in 0..MaxCheckIns /\ errors' \in 0..MaxErrors
    BY DEF PageInv, TypeOK
  <2>4. modal' \in {Closed} \cup [of : CheckIns, says : {"qr", "DONE", "FAILED", "error"}]
    BY DEF PageInv, TypeOK
  <2>5. poll' \in [CheckIns -> {"none", "timer", "asked", "over", "late"}]
    BY DEF PageInv, TypeOK
  <2>6. checking' \in [CheckIns -> BOOLEAN]
    BY DEF PageInv, TypeOK
  <2>7. count' \in [CheckIns -> 0..(PollLimit + 1)]
    BY DEF PageInv, TypeOK
  <2>8. \A j \in CheckIns : checking'[j] <=> poll'[j] = "asked"
    BY DEF PageInv, TypeOK, Modals, Begun, Replies
  <2>. QED
    BY <2>1, <2>2, <2>3, <2>4, <2>5, <2>6, <2>7, <2>8 DEF TypeOK
<1>2. Begun' /\ Newest'
  BY DEF PageInv, Modals, TypeOK, Begun, Newest
<1>3. Replies'
  BY DEF PageInv, Modals, TypeOK, Begun, Replies
<1>4. OneModal'
  BY DEF PageInv, Modals, TypeOK, OneModal
<1>5. AskersOpen' /\ AskersClosed'
  BY DEF PageInv, Modals, TypeOK, Begun, Newest, Replies, OneModal, AskersOpen,
         AskersClosed
<1>. QED
  BY <1>1, <1>2, <1>3, <1>4, <1>5 DEF PageInv, Modals

LEMMA ReceiveResultKeeps ==
    ASSUME PageInv, NEW i \in CheckIns, ReceiveResult(i)
    PROVE  PageInv'
<1>. USE DEF ReceiveResult, Received, Reset, Tell
<1>1. TypeOK'
  <2>1. /\ row' \in [CheckIns -> {"none", "open"} \cup Finals]
        /\ reply' \in [CheckIns -> {"none", "open", "error"} \cup Finals]
    BY DEF PageInv, TypeOK
  <2>2. waiting' \in BOOLEAN /\ hour' \in BOOLEAN /\ (button' # 0 => waiting')
    BY DEF PageInv, TypeOK
  <2>3. /\ button' \in CheckIns \cup {0} /\ owner' \in CheckIns \cup {0}
        /\ startedAt' \in 0..MaxCheckIns /\ errors' \in 0..MaxErrors
    BY DEF PageInv, TypeOK
  <2>4. modal' \in {Closed} \cup [of : CheckIns, says : {"qr", "DONE", "FAILED", "error"}]
    BY DEF PageInv, TypeOK
  <2>5. poll' \in [CheckIns -> {"none", "timer", "asked", "over", "late"}]
    BY DEF PageInv, TypeOK
  <2>6. checking' \in [CheckIns -> BOOLEAN]
    BY DEF PageInv, TypeOK
  <2>7. count' \in [CheckIns -> 0..(PollLimit + 1)]
    BY DEF PageInv, TypeOK
  <2>8. \A j \in CheckIns : checking'[j] <=> poll'[j] = "asked"
    BY DEF PageInv, TypeOK, Modals, Begun, Replies
  <2>. QED
    BY <2>1, <2>2, <2>3, <2>4, <2>5, <2>6, <2>7, <2>8 DEF TypeOK
<1>2. Begun' /\ Newest'
  BY DEF PageInv, Modals, TypeOK, Begun, Newest
<1>3. Replies'
  BY DEF PageInv, Modals, TypeOK, Begun, Replies
<1>4. OneModal'
  BY DEF PageInv, Modals, TypeOK, OneModal
<1>5. AskersOpen' /\ AskersClosed'
  BY DEF PageInv, Modals, TypeOK, Begun, Newest, Replies, OneModal, AskersOpen,
         AskersClosed
<1>. QED
  BY <1>1, <1>2, <1>3, <1>4, <1>5 DEF PageInv, Modals

LEMMA ReceiveErrorKeeps ==
    ASSUME PageInv, NEW i \in CheckIns, ReceiveError(i)
    PROVE  PageInv'
<1>. USE DEF ReceiveError, Received, Reset, Tell
<1>1. TypeOK'
  <2>1. /\ row' \in [CheckIns -> {"none", "open"} \cup Finals]
        /\ reply' \in [CheckIns -> {"none", "open", "error"} \cup Finals]
    BY DEF PageInv, TypeOK
  <2>2. waiting' \in BOOLEAN /\ hour' \in BOOLEAN /\ (button' # 0 => waiting')
    BY DEF PageInv, TypeOK
  <2>3. /\ button' \in CheckIns \cup {0} /\ owner' \in CheckIns \cup {0}
        /\ startedAt' \in 0..MaxCheckIns /\ errors' \in 0..MaxErrors
    BY DEF PageInv, TypeOK
  <2>4. modal' \in {Closed} \cup [of : CheckIns, says : {"qr", "DONE", "FAILED", "error"}]
    BY DEF PageInv, TypeOK
  <2>5. poll' \in [CheckIns -> {"none", "timer", "asked", "over", "late"}]
    BY DEF PageInv, TypeOK
  <2>6. checking' \in [CheckIns -> BOOLEAN]
    BY DEF PageInv, TypeOK
  <2>7. count' \in [CheckIns -> 0..(PollLimit + 1)]
    BY DEF PageInv, TypeOK
  <2>8. \A j \in CheckIns : checking'[j] <=> poll'[j] = "asked"
    BY DEF PageInv, TypeOK, Modals, Begun, Replies
  <2>. QED
    BY <2>1, <2>2, <2>3, <2>4, <2>5, <2>6, <2>7, <2>8 DEF TypeOK
<1>2. Begun' /\ Newest'
  BY DEF PageInv, Modals, TypeOK, Begun, Newest
<1>3. Replies'
  BY DEF PageInv, Modals, TypeOK, Begun, Replies
<1>4. OneModal'
  BY DEF PageInv, Modals, TypeOK, OneModal
<1>5. AskersOpen' /\ AskersClosed'
  BY DEF PageInv, Modals, TypeOK, Begun, Newest, Replies, OneModal, AskersOpen,
         AskersClosed
<1>. QED
  BY <1>1, <1>2, <1>3, <1>4, <1>5 DEF PageInv, Modals

LEMMA ReceiveCancelledKeeps ==
    ASSUME PageInv, NEW i \in CheckIns, ReceiveCancelled(i)
    PROVE  PageInv'
<1>. USE DEF ReceiveCancelled, Received, Reset
<1>1. TypeOK'
  <2>1. /\ row' \in [CheckIns -> {"none", "open"} \cup Finals]
        /\ reply' \in [CheckIns -> {"none", "open", "error"} \cup Finals]
    BY DEF PageInv, TypeOK
  <2>2. waiting' \in BOOLEAN /\ hour' \in BOOLEAN /\ (button' # 0 => waiting')
    BY DEF PageInv, TypeOK
  <2>3. /\ button' \in CheckIns \cup {0} /\ owner' \in CheckIns \cup {0}
        /\ startedAt' \in 0..MaxCheckIns /\ errors' \in 0..MaxErrors
    BY DEF PageInv, TypeOK
  <2>4. modal' \in {Closed} \cup [of : CheckIns, says : {"qr", "DONE", "FAILED", "error"}]
    BY DEF PageInv, TypeOK
  <2>5. poll' \in [CheckIns -> {"none", "timer", "asked", "over", "late"}]
    BY DEF PageInv, TypeOK
  <2>6. checking' \in [CheckIns -> BOOLEAN]
    BY DEF PageInv, TypeOK
  <2>7. count' \in [CheckIns -> 0..(PollLimit + 1)]
    BY DEF PageInv, TypeOK
  <2>8. \A j \in CheckIns : checking'[j] <=> poll'[j] = "asked"
    BY DEF PageInv, TypeOK, Modals, Begun, Replies
  <2>. QED
    BY <2>1, <2>2, <2>3, <2>4, <2>5, <2>6, <2>7, <2>8 DEF TypeOK
<1>2. Begun' /\ Newest'
  BY DEF PageInv, Modals, TypeOK, Begun, Newest
<1>3. Replies'
  BY DEF PageInv, Modals, TypeOK, Begun, Replies
<1>4. OneModal'
  BY DEF PageInv, Modals, TypeOK, OneModal
<1>5. AskersOpen' /\ AskersClosed'
  BY DEF PageInv, Modals, TypeOK, Begun, Newest, Replies, OneModal, AskersOpen,
         AskersClosed
<1>. QED
  BY <1>1, <1>2, <1>3, <1>4, <1>5 DEF PageInv, Modals

LEMMA CloseKeeps ==
    ASSUME PageInv, Close
    PROVE  PageInv'
<1>. USE DEF Close, Reset
<1>1. TypeOK'
  <2>1. /\ row' \in [CheckIns -> {"none", "open"} \cup Finals]
        /\ reply' \in [CheckIns -> {"none", "open", "error"} \cup Finals]
    BY DEF PageInv, TypeOK
  <2>2. waiting' \in BOOLEAN /\ hour' \in BOOLEAN /\ (button' # 0 => waiting')
    BY DEF PageInv, TypeOK
  <2>3. /\ button' \in CheckIns \cup {0} /\ owner' \in CheckIns \cup {0}
        /\ startedAt' \in 0..MaxCheckIns /\ errors' \in 0..MaxErrors
    BY DEF PageInv, TypeOK
  <2>4. modal' \in {Closed} \cup [of : CheckIns, says : {"qr", "DONE", "FAILED", "error"}]
    BY DEF PageInv, TypeOK
  <2>5. poll' \in [CheckIns -> {"none", "timer", "asked", "over", "late"}]
    BY DEF PageInv, TypeOK
  <2>6. checking' \in [CheckIns -> BOOLEAN]
    BY DEF PageInv, TypeOK
  <2>7. count' \in [CheckIns -> 0..(PollLimit + 1)]
    BY DEF PageInv, TypeOK
  <2>8. \A j \in CheckIns : checking'[j] <=> poll'[j] = "asked"
    BY DEF PageInv, TypeOK, Modals, Begun, Replies
  <2>. QED
    BY <2>1, <2>2, <2>3, <2>4, <2>5, <2>6, <2>7, <2>8 DEF TypeOK
<1>2. Begun' /\ Newest'
  BY DEF PageInv, Modals, TypeOK, Begun, Newest
<1>3. Replies'
  BY DEF PageInv, Modals, TypeOK, Begun, Replies
<1>4. OneModal'
  BY DEF PageInv, Modals, TypeOK, OneModal
<1>5. AskersOpen' /\ AskersClosed'
  BY DEF PageInv, Modals, TypeOK, Begun, Newest, Replies, OneModal, AskersOpen,
         AskersClosed
<1>. QED
  BY <1>1, <1>2, <1>3, <1>4, <1>5 DEF PageInv, Modals

LEMMA LeaveKeeps ==
    ASSUME PageInv, Leave
    PROVE  PageInv'
<1>. USE DEF Leave, Reset
<1>1. TypeOK'
  <2>1. /\ row' \in [CheckIns -> {"none", "open"} \cup Finals]
        /\ reply' \in [CheckIns -> {"none", "open", "error"} \cup Finals]
    BY DEF PageInv, TypeOK
  <2>2. waiting' \in BOOLEAN /\ hour' \in BOOLEAN /\ (button' # 0 => waiting')
    BY DEF PageInv, TypeOK
  <2>3. /\ button' \in CheckIns \cup {0} /\ owner' \in CheckIns \cup {0}
        /\ startedAt' \in 0..MaxCheckIns /\ errors' \in 0..MaxErrors
    BY DEF PageInv, TypeOK
  <2>4. modal' \in {Closed} \cup [of : CheckIns, says : {"qr", "DONE", "FAILED", "error"}]
    BY DEF PageInv, TypeOK
  <2>5. poll' \in [CheckIns -> {"none", "timer", "asked", "over", "late"}]
    BY DEF PageInv, TypeOK
  <2>6. checking' \in [CheckIns -> BOOLEAN]
    BY DEF PageInv, TypeOK
  <2>7. count' \in [CheckIns -> 0..(PollLimit + 1)]
    BY DEF PageInv, TypeOK
  <2>8. \A j \in CheckIns : checking'[j] <=> poll'[j] = "asked"
    BY DEF PageInv, TypeOK, Modals, Begun, Replies
  <2>. QED
    BY <2>1, <2>2, <2>3, <2>4, <2>5, <2>6, <2>7, <2>8 DEF TypeOK
<1>2. Begun' /\ Newest'
  BY DEF PageInv, Modals, TypeOK, Begun, Newest
<1>3. Replies'
  BY DEF PageInv, Modals, TypeOK, Begun, Replies
<1>4. OneModal'
  BY DEF PageInv, Modals, TypeOK, OneModal
<1>5. AskersOpen' /\ AskersClosed'
  BY DEF PageInv, Modals, TypeOK, Begun, Newest, Replies, OneModal, AskersOpen,
         AskersClosed
<1>. QED
  BY <1>1, <1>2, <1>3, <1>4, <1>5 DEF PageInv, Modals

LEMMA FinishKeeps ==
    ASSUME PageInv, NEW i \in CheckIns, Finish(i)
    PROVE  PageInv'
<1>. USE DEF Finish
<1>1. TypeOK'
  <2>1. /\ row' \in [CheckIns -> {"none", "open"} \cup Finals]
        /\ reply' \in [CheckIns -> {"none", "open", "error"} \cup Finals]
    BY DEF PageInv, TypeOK
  <2>2. waiting' \in BOOLEAN /\ hour' \in BOOLEAN /\ (button' # 0 => waiting')
    BY DEF PageInv, TypeOK
  <2>3. /\ button' \in CheckIns \cup {0} /\ owner' \in CheckIns \cup {0}
        /\ startedAt' \in 0..MaxCheckIns /\ errors' \in 0..MaxErrors
    BY DEF PageInv, TypeOK
  <2>4. modal' \in {Closed} \cup [of : CheckIns, says : {"qr", "DONE", "FAILED", "error"}]
    BY DEF PageInv, TypeOK
  <2>5. poll' \in [CheckIns -> {"none", "timer", "asked", "over", "late"}]
    BY DEF PageInv, TypeOK
  <2>6. checking' \in [CheckIns -> BOOLEAN]
    BY DEF PageInv, TypeOK
  <2>7. count' \in [CheckIns -> 0..(PollLimit + 1)]
    BY DEF PageInv, TypeOK
  <2>8. \A j \in CheckIns : checking'[j] <=> poll'[j] = "asked"
    BY DEF PageInv, TypeOK, Modals, Begun, Replies
  <2>. QED
    BY <2>1, <2>2, <2>3, <2>4, <2>5, <2>6, <2>7, <2>8 DEF TypeOK
<1>2. Begun' /\ Newest'
  BY DEF PageInv, Modals, TypeOK, Begun, Newest
<1>3. Replies'
  BY DEF PageInv, Modals, TypeOK, Begun, Replies
<1>4. OneModal'
  BY DEF PageInv, Modals, TypeOK, OneModal
<1>5. AskersOpen' /\ AskersClosed'
  BY DEF PageInv, Modals, TypeOK, Begun, Newest, Replies, OneModal, AskersOpen,
         AskersClosed
<1>. QED
  BY <1>1, <1>2, <1>3, <1>4, <1>5 DEF PageInv, Modals

LEMMA HourPassesKeeps ==
    ASSUME PageInv, HourPasses
    PROVE  PageInv'
<1>. USE DEF HourPasses
<1>1. TypeOK'
  BY DEF PageInv, Modals, TypeOK, Begun, Newest, Replies
<1>2. Begun' /\ Newest'
  BY DEF PageInv, Modals, TypeOK, Begun, Newest
<1>3. Replies'
  BY DEF PageInv, Modals, TypeOK, Begun, Replies
<1>4. OneModal'
  BY DEF PageInv, Modals, TypeOK, OneModal
<1>5. AskersOpen' /\ AskersClosed'
  BY DEF PageInv, Modals, TypeOK, Begun, Newest, Replies, OneModal, AskersOpen,
         AskersClosed
<1>. QED
  BY <1>1, <1>2, <1>3, <1>4, <1>5 DEF PageInv, Modals

\* What is shown and cancelled in such a step is the owner's, or there is an
\* earlier check-in that was cut off.
LEMMA LeftAlone ==
    ASSUME PageInv, NEW i \in CheckIns, Receive(i)
    PROVE  /\ \A j \in sent' \ sent : j \in meant' \/ Disturbed(j)
           /\ modal' # modal /\ modal' # Closed => modal'.of = owner' \/ Disturbed(owner)
<1>1. modal # Closed => i = owner \/ Disturbed(owner)
  BY DEF PageInv, Modals, AskersOpen, Disturbed, Receive, ReceiveOpen, ReceiveResult,
         ReceiveError, ReceiveCancelled, Received
<1>2. CASE ReceiveOpen(i)
  BY <1>2 DEF ReceiveOpen
<1>3. CASE ReceiveResult(i) \/ ReceiveError(i)
  BY <1>1, <1>3 DEF ReceiveResult, ReceiveError, Received, Tell
<1>4. CASE ReceiveCancelled(i)
  <2>1. Finished(i)
    BY <1>4 DEF PageInv, Modals, Replies, ReceiveCancelled
  <2>2. \A j \in sent' \ sent : modal # Closed /\ j = owner /\ j # i
    BY <1>4, <2>1 DEF ReceiveCancelled
  <2>3. modal' = Closed
    BY <1>4 DEF ReceiveCancelled
  <2>. QED
    BY <1>1, <2>2, <2>3
<1>. QED
  BY <1>2, <1>3, <1>4 DEF Receive

-----------------------------------------------------------------------------
LEMMA InitInv == Init => PageInv
<1>. SUFFICES ASSUME Init PROVE PageInv
  OBVIOUS
<1>1. TypeOK
  <2>1. checking \in [CheckIns -> BOOLEAN]
    BY DEF Init
  <2>2. \A i \in CheckIns : ~checking[i] /\ poll[i] = "none"
    BY DEF Init
  <2>3. /\ poll \in [CheckIns -> {"none", "timer", "asked", "over", "late"}]
        /\ count \in [CheckIns -> 0..(PollLimit + 1)]
        /\ row \in [CheckIns -> {"none", "open"} \cup Finals]
        /\ reply \in [CheckIns -> {"none", "open", "error"} \cup Finals]
    BY DEF Init
  <2>4. /\ waiting \in BOOLEAN /\ hour \in BOOLEAN /\ button = 0
        /\ modal = Closed /\ owner = 0 /\ startedAt = 0 /\ errors = 0
    BY DEF Init
  <2>. QED
    BY <2>1, <2>2, <2>3, <2>4 DEF TypeOK
<1>2. Modals
  BY DEF Init, Modals, Begun, Newest, Replies, OneModal, AskersOpen, AskersClosed
<1>. QED
  BY <1>1, <1>2 DEF PageInv

LEMMA NextInv == PageInv /\ [Next]_vars => PageInv'
<1>. SUFFICES ASSUME PageInv, [Next]_vars PROVE PageInv'
  OBVIOUS
<1>1. CASE Click \/ Store \/ AddProductToCart \/ Open \/ OpenFails
  BY <1>1, ClickKeeps, StoreKeeps, AddProductToCartKeeps, OpenKeeps, OpenFailsKeeps
<1>2. CASE Close \/ Leave \/ HourPasses
  BY <1>2, CloseKeeps, LeaveKeeps, HourPassesKeeps
<1>3. ASSUME NEW i \in CheckIns, Fire(i) \/ Answer(i) \/ Receive(i) \/ Finish(i)
      PROVE  PageInv'
  BY <1>3, FireKeeps, AnswerKeeps, ReceiveOpenKeeps, ReceiveResultKeeps, ReceiveErrorKeeps,
     ReceiveCancelledKeeps, FinishKeeps DEF Receive
<1>4. CASE UNCHANGED vars
  BY <1>4 DEF vars, PageInv, TypeOK, Modals, Begun, Newest, Replies, OneModal, AskersOpen,
              AskersClosed
<1>. QED
  BY <1>1, <1>2, <1>3, <1>4 DEF Next

LEMMA NextLeavesAlone ==
    PageInv /\ [Next]_vars =>
        /\ [\A i \in sent' \ sent : i \in meant' \/ Disturbed(i)]_vars
        /\ [modal' # modal /\ modal' # Closed => modal'.of = owner' \/ Disturbed(owner)]_vars
<1>. SUFFICES ASSUME PageInv, Next
     PROVE  /\ \A j \in sent' \ sent : j \in meant' \/ Disturbed(j)
            /\ modal' # modal /\ modal' # Closed => modal'.of = owner' \/ Disturbed(owner)
  OBVIOUS
<1>1. CASE Click \/ Store \/ AddProductToCart \/ OpenFails \/ Leave \/ HourPasses
  BY <1>1 DEF Click, Store, AddProductToCart, OpenFails, Leave, HourPasses
<1>2. CASE Open
  BY <1>2 DEF Open, Started, Registered
<1>3. CASE Close
  BY <1>3 DEF Close
<1>4. ASSUME NEW i \in CheckIns, Receive(i)
      PROVE  /\ \A j \in sent' \ sent : j \in meant' \/ Disturbed(j)
             /\ modal' # modal /\ modal' # Closed => modal'.of = owner' \/ Disturbed(owner)
  BY <1>4, LeftAlone
<1>5. ASSUME NEW i \in CheckIns, Fire(i) \/ Answer(i) \/ Finish(i)
      PROVE  sent' = sent /\ modal' = modal
  BY <1>5 DEF Fire, Answer, Finish
<1>. QED
  BY <1>1, <1>2, <1>3, <1>4, <1>5 DEF Next

LEMMA AlwaysPageInv == Spec => []PageInv
BY InitInv, NextInv, PTL DEF Spec

\* The page, its modal and its instances have their types, and the flag of an
\* instance says that its request is under way.
THEOREM TypeCorrect == Spec => []TypeOK
<1>1. PageInv => TypeOK
  BY DEF PageInv
<1>. QED
  BY <1>1, AlwaysPageInv, PTL

\* Whatever was clicked, closed and answered in whatever order: a check-in that
\* still runs is cancelled only because its modal was closed, and a modal says
\* only what is true of its own check-in, except for an earlier one whose modal
\* was closed with a request under way.
THEOREM LaterIsLeftAloneAlways == Spec => LaterIsLeftAlone
<1>1. Spec => CancelIsMeant
  BY AlwaysPageInv, NextLeavesAlone, PTL DEF Spec, CancelIsMeant
<1>2. Spec => ModalTellsItsOwn
  BY AlwaysPageInv, NextLeavesAlone, PTL DEF Spec, ModalTellsItsOwn
<1>. QED
  BY <1>1, <1>2 DEF LaterIsLeftAlone
=============================================================================
