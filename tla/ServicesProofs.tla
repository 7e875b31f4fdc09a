--------------------------- MODULE ServicesProofs ---------------------------
(***************************************************************************)
(* Safety of the smaller parts, for any number of clients, builders,       *)
(* blocks and calls, and any bounds.  Each part has an inductive invariant *)
(* of its own; what the others do leaves it alone.                         *)
(***************************************************************************)
EXTENDS Services, CollectionLemmas, FiniteSetTheorems

-----------------------------------------------------------------------------
(* The check of block builders.                                            *)

\* A builder that is answered for, other than by its balance.
Sound(b) == b \in Trusted \/ (profile[b].https /\ profile[b].up /\ Health!InfoValid(profile[b]))

Statuses == {"asking", "available", "error"}

\* An answer that came, or the attempts it took so far.
AnswerInv(b) ==
    /\ check[b].status \in Statuses /\ check[b].attempt \in 1..Tries
    /\ check[b].status = "available" => Sound(b)
    /\ Sound(b) /\ check[b].status = "error" => requestFaults >= Tries
    /\ b \notin Trusted /\ profile[b].up => requestFaults >= check[b].attempt - 1
    /\ reading.pc = "idle" => check[b] = Health!NotAsked
    /\ reading.pc \in {"balances", "done", "thrown"} => check[b].status # "asking"

HealthInv ==
    /\ check \in [Candidates -> [status : Statuses, attempt : 1..Tries]]
    /\ requestFaults \in Nat
    /\ \A b \in Candidates : AnswerInv(b)
    /\ reading.pc \in {"idle", "fees", "balances", "done", "thrown"} /\ reading.attempts \in Nat
    /\ reading.pc # "done" => reading.attempts <= requestFaults
    /\ reading.pc \in {"idle", "fees"} => reading.attempts = 0
    /\ reading.pc = "balances" => reading.attempts < Tries
    /\ reading.pc = "thrown" => requestFaults >= Tries
    /\ reading.pc = "done" => available = Health!Sufficient(unread)

LEMMA HealthInit == Health!Init => HealthInv
<1> SUFFICES ASSUME Health!Init PROVE HealthInv
  OBVIOUS
<1>1. Tries \in Nat \ {0}
  BY ServicesAssumption DEF Health!HealthAssumption
<1>2. /\ check = [b \in Candidates |-> Health!NotAsked] /\ requestFaults = 0
      /\ reading = [pc |-> "idle", attempts |-> 0]
  BY DEF Health!Init
<1> QED
  BY <1>1, <1>2 DEF HealthInv, AnswerInv, Statuses, Health!NotAsked

LEMMA TriesType == Tries \in Nat \ {0} /\ Trusted \subseteq Candidates
BY ServicesAssumption DEF Health!HealthAssumption

\* The profiles are there before the first request.
LEMMA HealthBegin == ASSUME HealthInv, Health!Begin PROVE HealthInv'
<1> USE DEF Health!Begin
<1>1. /\ reading' = [reading EXCEPT !.pc = "fees"] /\ reading.pc = "idle"
      /\ UNCHANGED <<check, available, requestFaults, unread>>
  OBVIOUS
<1>2. reading'.pc = "fees" /\ reading'.attempts = reading.attempts
  BY <1>1 DEF HealthInv
<1>3. ASSUME NEW b \in Candidates PROVE AnswerInv(b)'
  <2>1. check[b] = Health!NotAsked /\ AnswerInv(b)
    BY <1>1 DEF HealthInv, AnswerInv
  <2> QED
    BY <1>1, <1>2, <2>1, TriesType DEF HealthInv, AnswerInv, Statuses, Health!NotAsked
<1> QED
  BY <1>1, <1>2, <1>3 DEF HealthInv

\* One builder's record changes; failed requests only grow.
LEMMA HealthAnswer ==
    ASSUME HealthInv, NEW b \in Candidates, NEW r \in [status : Statuses, attempt : 1..Tries],
           check' = [check EXCEPT ![b] = r], reading.pc = "fees",
           requestFaults' \in {requestFaults, requestFaults + 1},
           UNCHANGED <<profile, reading, available, unread>>,
           r.status = "available" => Sound(b),
           Sound(b) /\ r.status = "error" => requestFaults' >= Tries,
           b \notin Trusted /\ profile[b].up => requestFaults' >= r.attempt - 1
    PROVE  HealthInv'
<1>1. check' \in [Candidates -> [status : Statuses, attempt : 1..Tries]] /\ check'[b] = r
      /\ requestFaults' \in Nat /\ requestFaults <= requestFaults'
  BY DEF HealthInv
<1>2. ASSUME NEW c \in Candidates PROVE AnswerInv(c)'
  <2>1. CASE c = b
    <3>1. Sound(b)' <=> Sound(b)
      BY DEF Sound, Health!InfoValid, Health!FeesValid
    <3> QED
      BY <1>1, <2>1, <3>1, TriesType DEF AnswerInv
  <2>2. CASE c # b
    <3>1. check'[c] = check[c] /\ AnswerInv(c) /\ (Sound(c)' <=> Sound(c))
      BY <2>2 DEF HealthInv, Sound, Health!InfoValid, Health!FeesValid
    <3> QED
      BY <1>1, <3>1, TriesType DEF HealthInv, AnswerInv
  <2> QED
    BY <2>1, <2>2
<1> QED
  BY <1>1, <1>2, TriesType DEF HealthInv

LEMMA HealthAsk ==
    ASSUME HealthInv, NEW b \in Candidates,
           Health!SkipRequest(b) \/ Health!FeeInfo(b) \/ Health!FeeInfoFails(b)
    PROVE  HealthInv'
<1> USE DEF Health!Asking
<1>1. PICK old \in [status : Statuses, attempt : 1..Tries] : old = check[b]
  BY DEF HealthInv
<1>2. old.status = "asking" /\ old.attempt \in 1..Tries /\ reading.pc = "fees" /\ requestFaults \in Nat
      /\ UNCHANGED <<profile, reading, available, unread>>
      /\ (b \notin Trusted /\ profile[b].up => requestFaults >= old.attempt - 1)
  BY <1>1 DEF HealthInv, AnswerInv, Health!SkipRequest, Health!FeeInfo, Health!FeeInfoFails
<1>3. ASSUME NEW fine \in BOOLEAN, Health!Answered(b, fine), UNCHANGED requestFaults, fine <=> Sound(b)
      PROVE  HealthInv'
  <2> DEFINE r == [old EXCEPT !.status = IF fine THEN "available" ELSE "error"]
  <2>1. r \in [status : Statuses, attempt : 1..Tries] /\ r.attempt = old.attempt
        /\ r.status = IF fine THEN "available" ELSE "error"
    BY DEF Statuses
  <2>2. check' = [check EXCEPT ![b] = r]
    BY <1>1, <1>3 DEF Health!Answered, HealthInv
  <2> HIDE DEF r
  <2> QED
    BY <1>2, <1>3, <2>1, <2>2, HealthAnswer
<1>4. CASE Health!SkipRequest(b)
  <2>1. PICK fine \in BOOLEAN : fine <=> b \in Trusted
    OBVIOUS
  <2>2. (b \in Trusted) = fine /\ (fine <=> Sound(b))
    BY <1>4, <2>1 DEF Health!SkipRequest, Sound
  <2> QED
    BY <1>3, <1>4, <2>2 DEF Health!SkipRequest
<1>5. CASE Health!FeeInfo(b)
  <2>1. PICK fine \in BOOLEAN : fine = Health!InfoValid(profile[b])
    BY DEF Health!InfoValid
  <2>2. fine <=> Sound(b)
    BY <1>5, <2>1 DEF Health!FeeInfo, Sound
  <2> QED
    BY <1>3, <1>5, <2>1, <2>2 DEF Health!FeeInfo
<1>6. CASE Health!FeeInfoFails(b)
  <2> DEFINE r == IF old.attempt + 1 <= Tries THEN [old EXCEPT !.attempt = old.attempt + 1]
                  ELSE [old EXCEPT !.status = "error"]
  <2>1. check' = [check EXCEPT ![b] = r]
    <3>1. check' = [check EXCEPT ![b] = IF check[b].attempt + 1 <= Tries
                                          THEN [check[b] EXCEPT !.attempt = check[b].attempt + 1]
                                          ELSE [check[b] EXCEPT !.status = "error"]]
      BY <1>6 DEF Health!FeeInfoFails, Health!NextAttempt
    <3> QED
      BY <1>1, <3>1
  <2>2. /\ r \in [status : Statuses, attempt : 1..Tries]
        /\ old.attempt < Tries => r.status = "asking" /\ r.attempt = old.attempt + 1
        /\ old.attempt >= Tries => r.status = "error" /\ r.attempt = Tries /\ old.attempt = Tries
    BY <1>2, TriesType DEF Statuses
  <2>3. /\ b \notin Trusted /\ (Sound(b) => profile[b].up)
        /\ requestFaults' = IF profile[b].up THEN requestFaults + 1 ELSE requestFaults
    BY <1>6 DEF Health!FeeInfoFails, Health!Fault, Sound
  <2> HIDE DEF r
  <2>4. r.status # "available"
    BY <1>2, <2>2, TriesType
  <2>5. Sound(b) /\ r.status = "error" => requestFaults' >= Tries
    BY <1>2, <2>2, <2>3, TriesType
  <2>6. profile[b].up => requestFaults' >= r.attempt - 1
    BY <1>2, <2>2, <2>3, TriesType
  <2>7. requestFaults' \in {requestFaults, requestFaults + 1}
    BY <2>3
  <2> QED
    BY <1>2, <2>1, <2>2, <2>4, <2>5, <2>6, <2>7, HealthAnswer
<1> QED
  BY <1>4, <1>5, <1>6

LEMMA HealthRead ==
    ASSUME HealthInv, Health!AllAnswered \/ Health!ReadBalances \/ Health!ReadFails
    PROVE  HealthInv'
<1> USE DEF Health!Fault
<1>1. UNCHANGED <<profile, check>> /\ requestFaults' \in {requestFaults, requestFaults + 1}
  BY DEF Health!AllAnswered, Health!ReadBalances, Health!ReadFails
<1>2. requestFaults \in Nat /\ requestFaults' \in Nat /\ requestFaults <= requestFaults'
  BY <1>1 DEF HealthInv
<1>3. \A b : Sound(b)' <=> Sound(b)
  BY <1>1 DEF Sound, Health!InfoValid, Health!FeesValid
<1>4. ASSUME reading'.pc \in {"balances", "done", "thrown"},
             \A b \in Candidates : check[b].status # "asking"
      PROVE  \A b \in Candidates : AnswerInv(b)'
  <2> SUFFICES ASSUME NEW b \in Candidates PROVE AnswerInv(b)'
    OBVIOUS
  <2>1. AnswerInv(b) /\ check'[b] = check[b]
    BY <1>1 DEF HealthInv
  <2> QED
    BY <1>1, <1>2, <1>3, <1>4, <2>1, TriesType DEF AnswerInv
<1>5. CASE Health!AllAnswered
  <2>1. reading.pc = "fees" /\ reading' = [reading EXCEPT !.pc = "balances"]
        /\ (\A b \in Candidates : check[b].status # "asking") /\ UNCHANGED requestFaults
    BY <1>5 DEF Health!AllAnswered
  <2>2. reading'.pc = "balances" /\ reading'.attempts = reading.attempts /\ reading.attempts = 0
    BY <2>1 DEF HealthInv
  <2> QED
    BY <1>1, <1>2, <1>4, <2>1, <2>2, TriesType DEF HealthInv
<1>6. CASE Health!ReadBalances
  <2>1. /\ reading.pc = "balances" /\ reading' = [pc |-> "done", attempts |-> reading.attempts + 1]
        /\ available' = Health!Sufficient(unread') /\ reading.attempts \in Nat
    BY <1>6 DEF Health!ReadBalances, HealthInv
  <2>2. \A b \in Candidates : check[b].status # "asking"
    BY <2>1 DEF HealthInv, AnswerInv
  <2>3. reading'.pc = "done" /\ reading'.attempts \in Nat
    BY <2>1
  <2>4. available' = Health!Sufficient(unread)'
    BY <1>1, <2>1 DEF Health!Sufficient
  <2> QED
    BY <1>1, <1>2, <1>4, <2>2, <2>3, <2>4 DEF HealthInv
<1>7. CASE Health!ReadFails
  <2>1. /\ reading.pc = "balances" /\ requestFaults' = requestFaults + 1
        /\ reading' = [pc |-> IF reading.attempts + 1 < Tries THEN "balances" ELSE "thrown",
                       attempts |-> reading.attempts + 1]
        /\ reading.attempts \in Nat /\ reading.attempts <= requestFaults /\ reading.attempts < Tries
    BY <1>7 DEF Health!ReadFails, HealthInv
  <2>2. \A b \in Candidates : check[b].status # "asking"
    BY <2>1 DEF HealthInv, AnswerInv
  <2>3. /\ reading'.attempts = reading.attempts + 1
        /\ reading'.pc = IF reading.attempts + 1 < Tries THEN "balances" ELSE "thrown"
    BY <2>1
  <2>4. reading'.pc \in {"balances", "thrown"} /\ (reading'.pc = "balances" => reading.attempts + 1 < Tries)
        /\ (reading'.pc = "thrown" => reading.attempts + 1 >= Tries)
    BY <2>1, <2>3, TriesType
  <2> QED
    BY <1>1, <1>2, <1>4, <2>1, <2>2, <2>3, <2>4, TriesType DEF HealthInv
<1> QED
  BY <1>5, <1>6, <1>7

LEMMA HealthNext == ASSUME HealthInv, Health!Next \/ UNCHANGED checkVars PROVE HealthInv'
<1>1. CASE Health!Next
  BY <1>1, HealthBegin, HealthAsk, HealthRead DEF Health!Next
<1>2. CASE UNCHANGED checkVars
  BY <1>2 DEF checkVars, HealthInv, AnswerInv, Sound, Health!InfoValid, Health!FeesValid, Health!Sufficient
<1> QED
  BY <1>1, <1>2

-----------------------------------------------------------------------------
(* The short-lived documents.                                              *)

\* What a cleaner has listed is older than a document that has time left.
DocumentsInv ==
    /\ txMap \in [Digests -> [version : Nat, left : Nat]]
    /\ saves \in Nat
    /\ \A d \in Digests :
         /\ txMap[d].version <= saves
         /\ txMap[d].left > 0 => txMap[d].version > 0
    /\ \A c \in Cleaners : \A e \in cleaner[c] :
         /\ e \in [digest : Digests, version : 0..saves]
         /\ txMap[e.digest].left > 0 => e.version < txMap[e.digest].version

LEMMA DocumentsInit == Documents!Init => DocumentsInv
BY DEF Documents!Init, Documents!Nothing, DocumentsInv

LEMMA SaveDocument ==
    ASSUME NEW d \in Digests, Documents!Save(d)
    PROVE  \E time \in Nat : txMap' = [txMap EXCEPT ![d] = [version |-> saves + 1, left |-> time]]
<1>1. MinExpiresIn \in Nat /\ DefaultExpiresIn \in Nat
  BY ServicesAssumption DEF Documents!TxMapAssumption
<1>2. PICK time \in MinExpiresIn..DefaultExpiresIn :
           txMap' = [txMap EXCEPT ![d] = [version |-> saves + 1, left |-> time]]
  BY DEF Documents!Save, Documents!SaveTxMap, Documents!AcceptedLifetimes
<1>3. time \in Nat
  BY <1>1, <1>2
<1> WITNESS time \in Nat
<1> QED
  BY <1>2

LEMMA DocumentsNext == ASSUME DocumentsInv, Documents!Next \/ UNCHANGED docVars PROVE DocumentsInv'
<1>1. CASE UNCHANGED docVars
  BY <1>1 DEF docVars, DocumentsInv
<1>2. ASSUME NEW d \in Digests, Documents!Save(d) PROVE DocumentsInv'
  <2>1. PICK time \in Nat : txMap' = [txMap EXCEPT ![d] = [version |-> saves + 1, left |-> time]]
    BY <1>2, SaveDocument
  <2>2. saves' = saves + 1 /\ cleaner' = cleaner
    BY <1>2 DEF Documents!Save
  <2> QED
    BY <2>1, <2>2 DEF DocumentsInv
<1>3. CASE Documents!Tick
  <2>1. /\ txMap' = [d \in Digests |-> Documents!Elapse(txMap[d])]
        /\ UNCHANGED <<saves, cleaner>>
    BY <1>3 DEF Documents!Tick
  <2>2. ASSUME NEW entry \in [version : Nat, left : Nat]
        PROVE  /\ Documents!Elapse(entry) \in [version : Nat, left : Nat]
               /\ Documents!Elapse(entry).version = entry.version
               /\ Documents!Elapse(entry).left <= entry.left
    BY DEF Documents!Elapse
  <2>3. ASSUME NEW d \in Digests
        PROVE  /\ txMap'[d] \in [version : Nat, left : Nat]
               /\ txMap'[d].version = txMap[d].version
               /\ txMap'[d].left > 0 => txMap[d].left > 0
    <3>1. PICK old \in [version : Nat, left : Nat] : old = txMap[d]
      BY DEF DocumentsInv
    <3>2. txMap'[d] = Documents!Elapse(old)
      BY <2>1, <3>1
    <3> QED
      BY <2>2, <3>1, <3>2
  <2>4. txMap' \in [Digests -> [version : Nat, left : Nat]]
    BY <2>1, <2>3
  <2> QED
    BY <2>1, <2>3, <2>4 DEF DocumentsInv
<1>4. ASSUME NEW r \in Readers,
             Documents!GetTxMap(r) \/ Documents!Store(r) \/ \E d \in Digests : Documents!Miss(r, d)
      PROVE  DocumentsInv'
  <2>1. UNCHANGED <<txMap, saves, cleaner>>
    BY <1>4 DEF Documents!GetTxMap, Documents!Store, Documents!Miss
  <2> QED
    BY <2>1 DEF DocumentsInv
<1>5. ASSUME NEW c \in Cleaners, Documents!List(c) PROVE DocumentsInv'
  <2> DEFINE found == {[digest |-> d, version |-> txMap[d].version] : d \in Documents!ExpiredTxMaps}
  <2>1. cleaner' = [cleaner EXCEPT ![c] = found] /\ UNCHANGED <<txMap, saves>>
    BY <1>5 DEF Documents!List
  <2>2. \A e \in found : e \in [digest : Digests, version : 0..saves] /\ txMap[e.digest].left = 0
    BY DEF Documents!ExpiredTxMaps, DocumentsInv
  <2> HIDE DEF found
  <2>3. \A x \in Cleaners : cleaner'[x] = cleaner[x] \/ cleaner'[x] = found
    BY <2>1
  <2> QED
    BY <2>1, <2>2, <2>3 DEF DocumentsInv
<1>6. ASSUME NEW c \in Cleaners, Documents!DeleteBatch(c) PROVE DocumentsInv'
  <2>1. PICK batch : /\ txMap' = [d \in Digests |-> IF d \in {e.digest : e \in batch}
                                                    THEN Documents!Nothing ELSE txMap[d]]
                     /\ cleaner' = [cleaner EXCEPT ![c] = @ \ batch]
    BY <1>6 DEF Documents!DeleteBatch
  <2>2. UNCHANGED saves
    BY <1>6 DEF Documents!DeleteBatch
  <2>3. \A x \in Cleaners : cleaner'[x] \subseteq cleaner[x]
    BY <2>1
  <2>4. \A d \in Digests : txMap'[d] = Documents!Nothing \/ txMap'[d] = txMap[d]
    BY <2>1
  <2>5. Documents!Nothing \in [version : Nat, left : Nat] /\ Documents!Nothing.left = 0
        /\ Documents!Nothing.version = 0
    BY DEF Documents!Nothing
  <2>6. txMap' \in [Digests -> [version : Nat, left : Nat]]
    BY <2>1, <2>4, <2>5 DEF DocumentsInv
  <2> QED
    BY <2>2, <2>3, <2>4, <2>5, <2>6 DEF DocumentsInv
<1>7. ASSUME NEW c \in Cleaners, Documents!CleanerFails(c) PROVE DocumentsInv'
  <2>1. UNCHANGED <<txMap, saves>> /\ \A x \in Cleaners : cleaner'[x] \subseteq cleaner[x]
    BY <1>7 DEF Documents!CleanerFails
  <2> QED
    BY <2>1 DEF DocumentsInv
<1> QED
  BY <1>1, <1>2, <1>3, <1>4, <1>5, <1>6, <1>7 DEF Documents!Next

\* A document with time left that goes is on the list of the cleaner that
\* deletes it, in an earlier version.
LEMMA LostWhenRenewed ==
    ASSUME DocumentsInv, Documents!Next, NEW d \in Digests,
           txMap[d].left > 0, txMap'[d] = Documents!Nothing
    PROVE  \E c \in Cleaners : \E e \in cleaner[c] : e.digest = d /\ e.version < txMap[d].version
<1>1. PICK old \in [version : Nat, left : Nat] : old = txMap[d]
  BY DEF DocumentsInv
<1>2. old.left > 0 /\ old.version > 0 /\ txMap'[d].version = 0 /\ txMap'[d] # old
  BY <1>1 DEF DocumentsInv, Documents!Nothing
<1>3. ASSUME NEW c \in Cleaners, Documents!DeleteBatch(c)
      PROVE  \E x \in Cleaners : \E e \in cleaner[x] : e.digest = d /\ e.version < txMap[d].version
  <2>1. PICK batch \in SUBSET cleaner[c] :
             txMap' = [x \in Digests |-> IF x \in {e.digest : e \in batch}
                                         THEN Documents!Nothing ELSE txMap[x]]
    BY <1>3 DEF Documents!DeleteBatch, Documents!kSubset
  <2>3. PICK e \in batch : e.digest = d
    BY <1>1, <1>2, <2>1
  <2> QED
    BY <1>1, <1>2, <2>1, <2>3 DEF DocumentsInv
<1>4. ASSUME NEW x \in Digests, Documents!Save(x) PROVE FALSE
  <2>1. PICK time \in Nat : txMap' = [txMap EXCEPT ![x] = [version |-> saves + 1, left |-> time]]
    BY <1>4, SaveDocument
  <2> QED
    BY <1>1, <1>2, <2>1 DEF DocumentsInv
<1>5. ASSUME Documents!Tick PROVE FALSE
  <2>1. txMap'[d] = Documents!Elapse(old)
    BY <1>1, <1>5 DEF Documents!Tick
  <2>2. Documents!Elapse(old).version = old.version
    BY DEF Documents!Elapse
  <2> QED
    BY <1>2, <2>1, <2>2
<1>6. txMap' = txMap => FALSE
  BY <1>1, <1>2
<1> QED
  BY <1>3, <1>4, <1>5, <1>6 DEF Documents!Next, Documents!GetTxMap, Documents!Store, Documents!Miss,
     Documents!List, Documents!CleanerFails

-----------------------------------------------------------------------------
(* The sending of a transaction.                                           *)

Fees == [fee : Nat, tip : Nat]

SendingRuns == [pc : {"idle", "asking", "sending", "waiting"}, attempt : 0..MaxAttempts - 1,
                nonce : Nat, fee : Nat, tip : Nat, id : Nat, estimate : Fees, fell : BOOLEAN]

\* What waits to be mined has the one nonce that is free, and is one
\* transaction: a run asks for a nonce that is latest or older, and what it
\* sends takes the place of all that has the same.
PendingInv ==
    /\ mempool \subseteq Submission!Transactions
    /\ mined \in Seq(Submission!Transactions)
    /\ sending \in SendingRuns
    /\ sends \in Nat /\ calls \in Nat
    /\ sending.nonce <= Len(mined)
    /\ \A t \in mempool : t.nonce = Len(mined) /\ t.call <= calls
    /\ \A s, t \in mempool : s = t

\* At most the estimate by the multiplier of an attempt.
Within(fees, estimate, attempt) ==
    /\ 10 * fees.fee <= estimate.fee * Submission!GasMultiplier(attempt)
    /\ 10 * fees.tip <= estimate.tip * Submission!GasMultiplier(attempt)

\* While no estimate of the call fell, fees are those of the last one, and
\* what is pending pays no more than an attempt before would pay by it.
FeesInv ==
    sending.pc # "idle" /\ ~sending.fell =>
      /\ Within(sending, sending.estimate, sending.attempt)
      /\ sending.pc = "sending" =>
           /\ sending.fee = Submission!Scaled(sending.estimate.fee, Submission!GasMultiplier(sending.attempt))
           /\ sending.tip = Submission!Scaled(sending.estimate.tip, Submission!GasMultiplier(sending.attempt))
      /\ \A t \in mempool : t.call = calls =>
           IF sending.pc = "waiting" THEN Within(t, sending.estimate, sending.attempt)
           ELSE sending.attempt > 0 /\ Within(t, sending.estimate, sending.attempt - 1)

SubmissionInv == PendingInv /\ FeesInv

LEMMA SubmissionConstants ==
    /\ EIP1559Estimates \subseteq Fees /\ ScrollFees \subseteq [base : Nat, price : Nat, tip : Nat]
    /\ ScrollMultiplier \in Nat /\ IncrementRate \in Nat /\ MaxAttempts \in Nat \ {0}
BY ServicesAssumption DEF Submission!SubmissionAssumption, Fees

LEMMA LargerOfTwo ==
    ASSUME NEW a \in Nat, NEW b \in Nat
    PROVE  Submission!Max({a, b}) = IF a >= b THEN a ELSE b
<1>1. PICK m \in {a, b} : \A x \in {a, b} : m >= x
  <2>1. CASE a >= b
    BY <2>1
  <2>2. CASE b >= a
    BY <2>2
  <2> QED
    BY <2>1, <2>2
<1>2. Submission!Max({a, b}) \in {a, b} /\ \A x \in {a, b} : Submission!Max({a, b}) >= x
  BY <1>1 DEF Submission!Max
<1> QED
  BY <1>2

\* Scaling rounds down.
LEMMA ScaledProperties ==
    ASSUME NEW x \in Nat, NEW tenths \in Nat
    PROVE  /\ Submission!Scaled(x, tenths) \in Nat
           /\ \A k \in Nat : k <= Submission!Scaled(x, tenths) <=> 10 * k <= x * tenths
<1> DEFINE p == x * tenths
<1>1. p \in Nat
  OBVIOUS
<1> HIDE DEF p
<1>2. p \div 10 \in Nat /\ \A k \in Nat : k <= p \div 10 <=> 10 * k <= p
  BY <1>1
<1> QED
  BY <1>2 DEF Submission!Scaled, p

LEMMA MultiplierProperties ==
    ASSUME NEW a \in Nat
    PROVE  /\ Submission!GasMultiplier(a) \in Nat
           /\ Submission!GasMultiplier(a + 1) = Submission!GasMultiplier(a) + IncrementRate
BY SubmissionConstants DEF Submission!GasMultiplier

\* A later attempt and a higher estimate allow more.
LEMMA ProductGrows ==
    ASSUME NEW x \in Nat, NEW y \in Nat, NEW m \in Nat, NEW n \in Nat, x <= y, m <= n
    PROVE  x * m <= y * n
<1>1. x * m <= y * m
  OBVIOUS
<1>2. y * m <= y * n
  OBVIOUS
<1> QED
  BY <1>1, <1>2

LEMMA WithinGrows ==
    ASSUME NEW fees, fees.fee \in Nat, fees.tip \in Nat, NEW e \in Fees, NEW f \in Fees,
           NEW a \in Nat, NEW b \in {a, a + 1}, Within(fees, e, a), e.fee <= f.fee, e.tip <= f.tip
    PROVE  Within(fees, f, b)
<1>1. PICK m \in Nat : m = Submission!GasMultiplier(a)
  BY MultiplierProperties
<1>2. PICK n \in Nat : n = Submission!GasMultiplier(b)
  BY MultiplierProperties
<1>3. m <= n
  BY <1>1, <1>2, MultiplierProperties, SubmissionConstants
<1>4. e.fee \in Nat /\ f.fee \in Nat /\ e.tip \in Nat /\ f.tip \in Nat
  BY DEF Fees
<1>5. e.fee * m <= f.fee * n /\ e.tip * m <= f.tip * n
  BY <1>3, <1>4, ProductGrows
<1>6. e.fee * m \in Nat /\ f.fee * n \in Nat /\ e.tip * m \in Nat /\ f.tip * n \in Nat
  BY <1>4
<1> DEFINE p == e.fee * m
           q == f.fee * n
           u == e.tip * m
           v == f.tip * n
<1>7. 10 * fees.fee <= p /\ 10 * fees.tip <= u
  BY <1>1 DEF Within
<1> HIDE DEF p, q, u, v
<1>8. 10 * fees.fee <= q /\ 10 * fees.tip <= v
  BY <1>5, <1>6, <1>7 DEF p, q, u, v
<1> QED
  BY <1>2, <1>8 DEF Within, q, v

LEMMA SubmissionInit == Submission!Init => SubmissionInv
<1> SUFFICES ASSUME Submission!Init PROVE SubmissionInv
  OBVIOUS
<1>1. Submission!NoCall \in SendingRuns /\ Submission!NoCall.pc = "idle" /\ Submission!NoCall.nonce = 0
  BY SubmissionConstants DEF Submission!NoCall, SendingRuns, Fees
<1>2. mined \in Seq(Submission!Transactions) /\ Len(mined) = 0
  BY DEF Submission!Init
<1> QED
  BY <1>1, <1>2 DEF Submission!Init, SubmissionInv, PendingInv, FeesInv

\* The fees of an attempt, of L1 or of L2, by the estimate of that attempt.
Scale(estimate, attempt) ==
    [fee |-> Submission!Scaled(estimate.fee, Submission!GasMultiplier(attempt)),
     tip |-> Submission!Scaled(estimate.tip, Submission!GasMultiplier(attempt))]

LEMMA ScaleType == ASSUME NEW e \in Fees, NEW a \in Nat PROVE Scale(e, a) \in Fees
BY ScaledProperties, MultiplierProperties DEF Scale, Fees

LEMMA LastIsWithin ==
    ASSUME NEW run \in SendingRuns, NEW e \in Fees, Within(run, run.estimate, run.attempt),
           run.estimate.fee <= e.fee, run.estimate.tip <= e.tip
    PROVE  run.fee <= Scale(e, run.attempt).fee /\ run.tip <= Scale(e, run.attempt).tip
<1>1. run.fee \in Nat /\ run.tip \in Nat /\ run.estimate \in Fees /\ run.attempt \in Nat
  BY DEF SendingRuns
<1>2. Within(run, e, run.attempt)
  BY <1>1, WithinGrows
<1>3. PICK m \in Nat : m = Submission!GasMultiplier(run.attempt)
  BY <1>1, MultiplierProperties
<1>4. 10 * run.fee <= e.fee * m /\ 10 * run.tip <= e.tip * m
  BY <1>2, <1>3 DEF Within
<1>5. run.fee <= Submission!Scaled(e.fee, m) /\ run.tip <= Submission!Scaled(e.tip, m)
  BY <1>1, <1>4, ScaledProperties DEF Fees
<1> QED
  BY <1>3, <1>5 DEF Scale

LEMMA NextFeesProperties ==
    ASSUME NEW run \in SendingRuns, NEW e \in Fees
    PROVE  /\ Submission!NextFees(run, e) \in Fees
           /\ run.fee <= Scale(e, run.attempt).fee /\ run.tip <= Scale(e, run.attempt).tip =>
                Submission!NextFees(run, e) = Scale(e, run.attempt)
<1>1. run.fee \in Nat /\ run.tip \in Nat /\ run.attempt \in Nat
  BY DEF SendingRuns
<1>2. PICK scaled \in Fees : scaled = Scale(e, run.attempt)
  BY <1>1, ScaleType
<1>3. Submission!AdjustedGasPrices(run.attempt, e) = scaled
  BY <1>2 DEF Submission!AdjustedGasPrices, Scale
<1>4. scaled.fee \in Nat /\ scaled.tip \in Nat /\ scaled = [fee |-> scaled.fee, tip |-> scaled.tip]
  BY DEF Fees
<1>5. Submission!Max({run.tip, scaled.tip}) = IF run.tip >= scaled.tip THEN run.tip ELSE scaled.tip
  BY <1>1, <1>4, LargerOfTwo
<1>6. Submission!NextFees(run, e) =
        IF run.fee # 0 /\ run.tip # 0
        THEN [fee |-> IF run.fee > scaled.fee THEN run.fee + 1 ELSE scaled.fee,
              tip |-> Submission!Max({run.tip, scaled.tip})]
        ELSE scaled
  BY <1>3 DEF Submission!NextFees, Submission!IncreasedGasFees
<1>7. Submission!NextFees(run, e) \in Fees
  BY <1>1, <1>4, <1>5, <1>6 DEF Fees
<1>8. ASSUME run.fee <= scaled.fee, run.tip <= scaled.tip PROVE Submission!NextFees(run, e) = scaled
  <2>1. Submission!Max({run.tip, scaled.tip}) = scaled.tip
    BY <1>1, <1>4, <1>5, <1>8
  <2>2. ~ (run.fee > scaled.fee)
    BY <1>1, <1>4, <1>8
  <2> QED
    BY <1>4, <1>6, <2>1, <2>2
<1> QED
  BY <1>2, <1>7, <1>8

LEMMA NextGasPriceProperties ==
    ASSUME NEW run \in SendingRuns, NEW e \in ScrollFees
    PROVE  LET price == Submission!NextGasPrice(run, e)
               scroll == [fee |-> Submission!ScrollGasPrice(e), tip |-> Submission!ScrollGasPrice(e)]
           IN  /\ scroll \in Fees
               /\ [fee |-> price, tip |-> price] \in Fees
               /\ run.fee <= Scale(scroll, run.attempt).fee =>
                    [fee |-> price, tip |-> price] = Scale(scroll, run.attempt)
<1> DEFINE scroll == Submission!ScrollGasPrice(e)
           price == Submission!NextGasPrice(run, e)
<1>1. run.fee \in Nat /\ run.attempt \in Nat
  BY DEF SendingRuns
<1>2. e.base \in Nat /\ e.price \in Nat /\ e.tip \in Nat /\ ScrollMultiplier \in Nat
  BY SubmissionConstants
<1>3. Submission!Max({e.base, e.price}) \in Nat
  BY <1>2, LargerOfTwo
<1>4. scroll \in Nat
  <2>1. Submission!Scaled(Submission!Max({e.base, e.price}), ScrollMultiplier) \in Nat
    BY <1>2, <1>3, ScaledProperties
  <2> QED
    BY <1>2, <2>1 DEF Submission!ScrollGasPrice
<1> HIDE DEF scroll
<1>5. PICK scaled \in Nat : scaled = Submission!Scaled(scroll, Submission!GasMultiplier(run.attempt))
  BY <1>1, <1>4, ScaledProperties, MultiplierProperties
<1>6. price = IF run.fee # 0 THEN IF run.fee > scaled THEN run.fee + 1 ELSE scaled ELSE scaled
  BY <1>5 DEF Submission!NextGasPrice, Submission!ScrollAdjustedGasPrice, Submission!IncreasedGasPrice, scroll
<1> HIDE DEF price
<1>7. price \in Nat /\ (run.fee <= scaled => price = scaled)
  BY <1>1, <1>6
<1>8. [fee |-> scroll, tip |-> scroll] \in Fees /\ [fee |-> price, tip |-> price] \in Fees
  BY <1>4, <1>7 DEF Fees
<1>9. Scale([fee |-> scroll, tip |-> scroll], run.attempt) = [fee |-> scaled, tip |-> scaled]
  BY <1>5 DEF Scale
<1> QED
  BY <1>7, <1>8, <1>9 DEF scroll, price

LEMMA ScaleIsWithin == ASSUME NEW e \in Fees, NEW a \in Nat PROVE Within(Scale(e, a), e, a)
<1>1. PICK m \in Nat : m = Submission!GasMultiplier(a)
  BY MultiplierProperties
<1>2. e.fee \in Nat /\ e.tip \in Nat
  BY DEF Fees
<1>3. ASSUME NEW x \in Nat PROVE 10 * Submission!Scaled(x, m) <= x * m
  <2>1. PICK k \in Nat : k = Submission!Scaled(x, m)
    BY ScaledProperties
  <2>2. k <= Submission!Scaled(x, m)
    BY <2>1
  <2>3. 10 * k <= x * m
    BY <2>2, ScaledProperties
  <2> QED
    BY <2>1, <2>3
<1> QED
  BY <1>1, <1>2, <1>3 DEF Within, Scale

LEMMA SubmissionAsk ==
    ASSUME SubmissionInv, Submission!AskL1 \/ Submission!AskL2 PROVE SubmissionInv'
<1>1. PICK run \in SendingRuns : run = sending
  BY DEF SubmissionInv, PendingInv
<1>2. /\ run.pc = "asking" /\ UNCHANGED <<mempool, mined, sends, calls>>
      /\ run.fee \in Nat /\ run.tip \in Nat /\ run.attempt \in 0..MaxAttempts - 1 /\ run.attempt \in Nat
      /\ run.estimate \in Fees /\ run.fell \in BOOLEAN
  BY <1>1 DEF Submission!AskL1, Submission!AskL2, SendingRuns
<1>3. \E nonce \in Submission!LatestNonces, e \in Fees, fees \in Fees :
        /\ Submission!Learn(nonce, fees, e)
        /\ run.fee <= Scale(e, run.attempt).fee /\ run.tip <= Scale(e, run.attempt).tip =>
             fees = Scale(e, run.attempt)
  <2>1. CASE Submission!AskL1
    <3>1. PICK nonce \in Submission!LatestNonces, e \in EIP1559Estimates :
               Submission!Learn(nonce, Submission!NextFees(sending, e), e)
      BY <2>1 DEF Submission!AskL1
    <3>2. e \in Fees
      BY SubmissionConstants
    <3> QED
      BY <1>1, <3>1, <3>2, NextFeesProperties
  <2>2. CASE Submission!AskL2
    <3>1. PICK nonce \in Submission!LatestNonces, e \in ScrollFees :
               LET price == Submission!NextGasPrice(sending, e)
               IN  Submission!Learn(nonce, [fee |-> price, tip |-> price],
                     [fee |-> Submission!ScrollGasPrice(e), tip |-> Submission!ScrollGasPrice(e)])
      BY <2>2 DEF Submission!AskL2
    <3> QED
      BY <1>1, <3>1, NextGasPriceProperties
  <2> QED
    BY <2>1, <2>2
<1>4. PICK nonce \in Submission!LatestNonces, e \in Fees, fees \in Fees :
        /\ Submission!Learn(nonce, fees, e)
        /\ run.fee <= Scale(e, run.attempt).fee /\ run.tip <= Scale(e, run.attempt).tip =>
             fees = Scale(e, run.attempt)
  BY <1>3
<1> DEFINE fell == run.fell \/ e.fee < run.estimate.fee \/ e.tip < run.estimate.tip
           next == [run EXCEPT !.pc = "sending", !.nonce = nonce, !.fee = fees.fee, !.tip = fees.tip,
                    !.estimate = e, !.fell = fell]
<1>5. sending' = next
  BY <1>1, <1>4 DEF Submission!Learn
<1>6. nonce \in Nat /\ nonce <= Len(mined) /\ Len(mined) \in Nat
  BY DEF Submission!LatestNonces, SubmissionInv, PendingInv
<1>7. /\ next \in SendingRuns /\ next.pc = "sending" /\ next.nonce = nonce /\ next.fee = fees.fee
      /\ next.tip = fees.tip /\ next.estimate = e /\ next.fell = fell /\ next.attempt = run.attempt
  BY <1>6 DEF SendingRuns, Fees
<1> HIDE DEF next
<1>8. PendingInv'
  BY <1>2, <1>5, <1>6, <1>7 DEF SubmissionInv, PendingInv
<1>9. ASSUME ~fell
      PROVE  /\ Within(next, e, run.attempt) /\ fees = Scale(e, run.attempt)
             /\ \A t \in mempool : t.call = calls => run.attempt > 0 /\ Within(t, e, run.attempt - 1)
  <2>1. ~run.fell /\ run.estimate.fee <= e.fee /\ run.estimate.tip <= e.tip
    BY <1>2, <1>9 DEF Fees
  <2>2. /\ Within(run, run.estimate, run.attempt)
        /\ \A t \in mempool : t.call = calls =>
             run.attempt > 0 /\ Within(t, run.estimate, run.attempt - 1)
    BY <1>1, <1>2, <2>1 DEF SubmissionInv, FeesInv
  <2>3. fees = Scale(e, run.attempt)
    BY <1>4, <2>1, <2>2, LastIsWithin
  <2>4. Within(next, e, run.attempt)
    BY <1>2, <1>7, <2>3, ScaleIsWithin DEF Within
  <2>5. ASSUME NEW t \in mempool, t.call = calls PROVE run.attempt > 0 /\ Within(t, e, run.attempt - 1)
    <3>1. run.attempt > 0 /\ Within(t, run.estimate, run.attempt - 1) /\ run.attempt - 1 \in Nat
      BY <1>2, <2>2, <2>5
    <3>2. t.fee \in Nat /\ t.tip \in Nat
      BY DEF SubmissionInv, PendingInv, Submission!Transactions
    <3> QED
      BY <1>2, <2>1, <3>1, <3>2, WithinGrows
  <2> QED
    BY <2>3, <2>4, <2>5
<1> HIDE DEF fell
<1>10. ASSUME ~fell
       PROVE  /\ next.fee = Submission!Scaled(next.estimate.fee, Submission!GasMultiplier(next.attempt))
              /\ next.tip = Submission!Scaled(next.estimate.tip, Submission!GasMultiplier(next.attempt))
  BY <1>7, <1>9, <1>10 DEF Scale
<1>11. PICK new : new = next
  OBVIOUS
<1>12. FeesInv'
  <2>1. mempool' = mempool /\ calls' = calls /\ sending' = new
    BY <1>2, <1>5, <1>11
  <2> QED
    BY <1>7, <1>9, <1>10, <1>11, <2>1 DEF FeesInv
<1> QED
  BY <1>8, <1>12 DEF SubmissionInv

\* What is sent takes the place of all that is pending.
LEMMA Broadcasted ==
    ASSUME SubmissionInv, sending.pc = "sending", Submission!Accepted, Submission!Broadcast
    PROVE  \E t \in Submission!Transactions :
             /\ mempool' = {t} /\ t.nonce = Len(mined) /\ t.call = calls
             /\ t.fee = sending.fee /\ t.tip = sending.tip /\ sends' = sends + 1
<1>1. PICK run \in SendingRuns : run = sending
  BY DEF SubmissionInv, PendingInv
<1>2. run.nonce \in Nat /\ run.fee \in Nat /\ run.tip \in Nat
  BY DEF SendingRuns
<1>3. run.nonce = Len(mined)
  BY <1>1, <1>2 DEF SubmissionInv, PendingInv, Submission!Accepted
<1>4. Submission!Rivals(sending.nonce) = mempool
  BY <1>1, <1>3 DEF SubmissionInv, PendingInv, Submission!Rivals
<1> DEFINE t == Submission!Transaction
<1>5. /\ t \in Submission!Transactions /\ t.nonce = Len(mined) /\ t.call = calls
      /\ t.fee = sending.fee /\ t.tip = sending.tip
  BY <1>1, <1>2, <1>3 DEF Submission!Transaction, Submission!Transactions, SubmissionInv, PendingInv
<1> HIDE DEF t
<1>6. mempool' = {t} /\ sends' = sends + 1
  BY <1>4 DEF Submission!Broadcast, t
<1> QED
  BY <1>5, <1>6

LEMMA SubmissionSend == ASSUME SubmissionInv, Submission!Send PROVE SubmissionInv'
<1>1. PICK run \in SendingRuns : run = sending
  BY DEF SubmissionInv, PendingInv
<1>2. run.pc = "sending" /\ sends \in Nat /\ UNCHANGED <<mined, calls>>
  BY <1>1 DEF Submission!Send, SubmissionInv, PendingInv
<1>3. PICK t \in Submission!Transactions :
        /\ mempool' = {t} /\ t.nonce = Len(mined) /\ t.call = calls
        /\ t.fee = run.fee /\ t.tip = run.tip /\ sends' = sends + 1
  BY <1>1, <1>2, Broadcasted DEF Submission!Send
<1> DEFINE next == [run EXCEPT !.pc = "waiting", !.id = sends + 1]
<1>4. sending' = next
  BY <1>1 DEF Submission!Send
<1>5. /\ next \in SendingRuns /\ next.pc = "waiting" /\ next.nonce = run.nonce /\ next.fee = run.fee
      /\ next.tip = run.tip /\ next.estimate = run.estimate /\ next.fell = run.fell
      /\ next.attempt = run.attempt
  <2>1. sends + 1 \in Nat /\ "waiting" \in {"idle", "asking", "sending", "waiting"}
    BY <1>2
  <2> DEFINE n == sends + 1
  <2>2. n \in Nat /\ next = [run EXCEPT !.pc = "waiting", !.id = n]
    BY <2>1
  <2> HIDE DEF n, next
  <2> QED
    BY <2>2 DEF SendingRuns
<1> HIDE DEF next
<1>6. PendingInv'
  BY <1>1, <1>2, <1>3, <1>4, <1>5 DEF SubmissionInv, PendingInv
<1>7. PICK new : new = next
  OBVIOUS
<1>8. ~run.fell => Within(run, run.estimate, run.attempt)
  BY <1>1, <1>2 DEF SubmissionInv, FeesInv
<1>9. ~run.fell => Within(new, run.estimate, run.attempt) /\ Within(t, run.estimate, run.attempt)
  BY <1>3, <1>5, <1>7, <1>8 DEF Within
<1>10. FeesInv'
  <2>1. sending' = new /\ mempool' = {t}
    BY <1>3, <1>4, <1>7
  <2> QED
    BY <1>5, <1>7, <1>9, <2>1 DEF FeesInv
<1> QED
  BY <1>6, <1>10 DEF SubmissionInv

\* The next attempt, whether or not the transaction of this one arrived.
LEMMA SubmissionRetry ==
    ASSUME SubmissionInv, sending.pc # "idle", Submission!Retry, UNCHANGED <<mined, calls>>,
           \/ UNCHANGED <<mempool, sends>>
           \/ sending.pc = "sending" /\ Submission!Accepted /\ Submission!Broadcast
    PROVE  SubmissionInv'
<1>1. PICK run \in SendingRuns : run = sending
  BY DEF SubmissionInv, PendingInv
<1>2. /\ run.pc # "idle" /\ run.attempt \in 0..MaxAttempts - 1 /\ run.attempt \in Nat /\ sends \in Nat
      /\ MaxAttempts \in Nat \ {0} /\ run.estimate \in Fees /\ run.fee \in Nat /\ run.tip \in Nat
  BY <1>1, SubmissionConstants DEF SendingRuns, SubmissionInv, PendingInv
<1>3. /\ mempool' \subseteq Submission!Transactions /\ sends' \in Nat
      /\ \A t \in mempool' : t.nonce = Len(mined) /\ t.call <= calls
      /\ \A s, t \in mempool' : s = t
      /\ ~run.fell => \A t \in mempool' : t.call = calls => Within(t, run.estimate, run.attempt)
  <2>1. CASE UNCHANGED <<mempool, sends>>
    <3>1. ASSUME NEW t \in mempool, t.call = calls, ~run.fell PROVE Within(t, run.estimate, run.attempt)
      <4>1. IF run.pc = "waiting" THEN Within(t, run.estimate, run.attempt)
            ELSE run.attempt > 0 /\ Within(t, run.estimate, run.attempt - 1)
        BY <1>1, <1>2, <3>1 DEF SubmissionInv, FeesInv
      <4>2. t.fee \in Nat /\ t.tip \in Nat
        BY DEF SubmissionInv, PendingInv, Submission!Transactions
      <4>3. CASE run.attempt > 0 /\ Within(t, run.estimate, run.attempt - 1)
        <5>1. run.attempt - 1 \in Nat /\ run.attempt = (run.attempt - 1) + 1
              /\ run.estimate.fee <= run.estimate.fee /\ run.estimate.tip <= run.estimate.tip
          BY <1>2, <4>3 DEF Fees
        <5> QED
          BY <1>2, <4>2, <4>3, <5>1, WithinGrows
      <4> QED
        BY <4>1, <4>3
    <3> QED
      BY <2>1, <3>1 DEF SubmissionInv, PendingInv
  <2>2. CASE sending.pc = "sending" /\ Submission!Accepted /\ Submission!Broadcast
    <3>1. PICK t \in Submission!Transactions :
            /\ mempool' = {t} /\ t.nonce = Len(mined) /\ t.call = calls
            /\ t.fee = run.fee /\ t.tip = run.tip /\ sends' = sends + 1
      BY <1>1, <2>2, Broadcasted
    <3>2. ~run.fell => Within(run, run.estimate, run.attempt)
      BY <1>1, <1>2 DEF SubmissionInv, FeesInv
    <3>3. ~run.fell => Within(t, run.estimate, run.attempt)
      BY <3>1, <3>2 DEF Within
    <3>4. t.call <= calls
      BY <3>1 DEF SubmissionInv, PendingInv
    <3> QED
      BY <1>2, <3>1, <3>3, <3>4
  <2> QED
    BY <2>1, <2>2
<1>4. CASE run.attempt + 1 = MaxAttempts
  <2>1. sending' = Submission!NoCall
    BY <1>1, <1>4 DEF Submission!Retry
  <2>2. Submission!NoCall \in SendingRuns /\ Submission!NoCall.pc = "idle" /\ Submission!NoCall.nonce = 0
    BY SubmissionConstants DEF Submission!NoCall, SendingRuns, Fees
  <2>3. PICK new : new = Submission!NoCall
    OBVIOUS
  <2>4. Len(mined) \in Nat
    BY DEF SubmissionInv, PendingInv
  <2> QED
    BY <1>3, <2>1, <2>2, <2>3, <2>4 DEF SubmissionInv, PendingInv, FeesInv
<1>5. CASE run.attempt + 1 # MaxAttempts
  <2> DEFINE next == [run EXCEPT !.pc = "asking", !.attempt = run.attempt + 1]
  <2>1. sending' = next
    BY <1>1, <1>5 DEF Submission!Retry
  <2>2. run.attempt + 1 \in 0..MaxAttempts - 1
    BY <1>2, <1>5
  <2>3. /\ next \in SendingRuns /\ next.pc = "asking" /\ next.nonce = run.nonce /\ next.fee = run.fee
        /\ next.tip = run.tip /\ next.estimate = run.estimate /\ next.fell = run.fell
        /\ next.attempt = run.attempt + 1
    BY <2>2 DEF SendingRuns
  <2> HIDE DEF next
  <2>4. PICK new : new = next
    OBVIOUS
  <2>5. PendingInv'
    BY <1>1, <1>3, <2>1, <2>3 DEF SubmissionInv, PendingInv
  <2>6. ASSUME ~run.fell PROVE Within(new, run.estimate, run.attempt + 1)
    <3>1. Within(run, run.estimate, run.attempt)
      BY <1>1, <1>2, <2>6 DEF SubmissionInv, FeesInv
    <3>2. Within(run, run.estimate, run.attempt + 1)
      <4>1. run.estimate.fee <= run.estimate.fee /\ run.estimate.tip <= run.estimate.tip
        BY <1>2 DEF Fees
      <4> QED
        BY <1>2, <3>1, <4>1, WithinGrows
    <3> QED
      BY <2>3, <2>4, <3>2 DEF Within
  <2>7. new.attempt > 0 /\ new.attempt - 1 = run.attempt
    BY <1>2, <2>3, <2>4
  <2>8. FeesInv'
    <3>1. sending' = new /\ calls' = calls
      BY <2>1, <2>4
    <3> QED
      BY <1>3, <2>3, <2>4, <2>6, <2>7, <3>1 DEF FeesInv
  <2> QED
    BY <2>5, <2>8 DEF SubmissionInv
<1> QED
  BY <1>4, <1>5

\* The module's Cardinality is that of FiniteSets.
LEMMA SameCardinality == \A S : Submission!Cardinality(S) = Cardinality(S)
BY DEF Submission!Cardinality, Cardinality

LEMMA SubmissionNetwork ==
    ASSUME SubmissionInv, Submission!Mine \/ Submission!Forget PROVE SubmissionInv'
<1>1. /\ mempool' \subseteq mempool /\ UNCHANGED <<sending, sends, calls>>
      /\ mined' \in Seq(Submission!Transactions) /\ Len(mined) <= Len(mined')
      /\ mempool' = {} \/ mined' = mined
      /\ Len(mined) \in Nat
  <2>1. CASE Submission!Mine
    <3>1. PICK t \in mempool : mined' = Append(mined, t) /\ mempool' = mempool \ {t}
      BY <2>1 DEF Submission!Mine, Submission!Rivals
    <3>2. t \in Submission!Transactions /\ mined \in Seq(Submission!Transactions)
      BY DEF SubmissionInv, PendingInv
    <3>3. /\ mined' \in Seq(Submission!Transactions) /\ Len(mined') = Len(mined) + 1 /\ Len(mined) \in Nat
      BY <3>1, <3>2, AppendProperties
    <3>4. mempool' = {}
      BY <3>1 DEF SubmissionInv, PendingInv
    <3> QED
      BY <2>1, <3>3, <3>4 DEF Submission!Mine
  <2>2. CASE Submission!Forget
    BY <2>2 DEF Submission!Forget, SubmissionInv, PendingInv
  <2> QED
    BY <2>1, <2>2
<1>2. PICK run \in SendingRuns : run = sending
  BY DEF SubmissionInv, PendingInv
<1>3. run.nonce \in Nat /\ run.nonce <= Len(mined) /\ Len(mined') \in Nat
  BY <1>1, <1>2, LenProperties DEF SendingRuns, SubmissionInv, PendingInv
<1>4. PendingInv'
  BY <1>1, <1>2, <1>3 DEF SubmissionInv, PendingInv
<1>5. FeesInv'
  BY <1>1 DEF SubmissionInv, FeesInv
<1> QED
  BY <1>4, <1>5 DEF SubmissionInv

LEMMA SubmissionStart == ASSUME SubmissionInv, Submission!Start PROVE SubmissionInv'
<1> DEFINE new == [Submission!NoCall EXCEPT !.pc = "asking"]
<1>1. /\ sending' = new /\ calls' = calls + 1 /\ UNCHANGED <<mempool, mined, sends>>
      /\ calls \in Nat /\ Len(mined) \in Nat
      /\ \A t \in mempool : t.call \in Nat /\ t.call <= calls /\ t.call <= calls + 1
  BY DEF Submission!Start, SubmissionInv, PendingInv, Submission!Transactions
<1>2. /\ new \in SendingRuns /\ new.pc = "asking" /\ new.nonce = 0 /\ new.attempt = 0 /\ new.fee = 0
      /\ new.tip = 0 /\ new.estimate.fee = 0 /\ new.estimate.tip = 0
  <2>1. PICK none \in Fees : none = [fee |-> 0, tip |-> 0]
    BY DEF Fees
  <2>2. PICK idle \in SendingRuns : /\ idle = Submission!NoCall /\ idle.attempt = 0 /\ idle.nonce = 0
                                    /\ idle.fee = 0 /\ idle.tip = 0 /\ idle.estimate = none
    <3>1. Submission!NoCall \in SendingRuns
      BY SubmissionConstants DEF Submission!NoCall, SendingRuns, Fees
    <3>2. /\ Submission!NoCall.attempt = 0 /\ Submission!NoCall.nonce = 0 /\ Submission!NoCall.fee = 0
          /\ Submission!NoCall.tip = 0 /\ Submission!NoCall.estimate = none
      BY <2>1 DEF Submission!NoCall
    <3> QED
      BY <3>1, <3>2
  <2>3. new = [idle EXCEPT !.pc = "asking"]
    BY <2>2
  <2>4. none.fee = 0 /\ none.tip = 0
    BY <2>1
  <2> HIDE DEF new
  <2> QED
    BY <2>2, <2>3, <2>4 DEF SendingRuns
<1> HIDE DEF new
<1>3. PendingInv'
  BY <1>1, <1>2 DEF SubmissionInv, PendingInv
<1>4. PICK m \in Nat : m = Submission!GasMultiplier(0)
  BY MultiplierProperties
<1>5. Within(new, new.estimate, new.attempt)
  <2>1. 10 * 0 <= 0 * m
    OBVIOUS
  <2> QED
    BY <1>2, <1>4, <2>1 DEF Within
<1>6. PICK run : run = new
  OBVIOUS
<1>7. sending' = run /\ \A t \in mempool' : t.call # calls'
  BY <1>1, <1>6
<1>8. FeesInv'
  BY <1>2, <1>5, <1>6, <1>7 DEF FeesInv
<1> QED
  BY <1>3, <1>8 DEF SubmissionInv

LEMMA SubmissionEnd ==
    ASSUME SubmissionInv, Submission!NonceTooLow \/ Submission!Confirm PROVE SubmissionInv'
<1> DEFINE new == Submission!NoCall
<1>1. sending' = new /\ UNCHANGED <<mempool, mined, sends, calls>> /\ Len(mined) \in Nat
  BY DEF Submission!NonceTooLow, Submission!Confirm, SubmissionInv, PendingInv
<1>2. new \in SendingRuns /\ new.pc = "idle" /\ new.nonce = 0
  BY SubmissionConstants DEF Submission!NoCall, SendingRuns, Fees
<1> HIDE DEF new
<1> QED
  BY <1>1, <1>2 DEF SubmissionInv, PendingInv, FeesInv

LEMMA SubmissionNext ==
    ASSUME SubmissionInv, Submission!Next \/ UNCHANGED sendVars PROVE SubmissionInv'
<1>1. CASE UNCHANGED sendVars
  BY <1>1 DEF sendVars, SubmissionInv, PendingInv, FeesInv
<1>2. CASE Submission!Underpriced \/ Submission!RequestTimeout \/ Submission!WaitTimeout
  <2>1. /\ sending.pc # "idle" /\ Submission!Retry /\ UNCHANGED <<mined, calls>>
        /\ \/ UNCHANGED <<mempool, sends>>
           \/ sending.pc = "sending" /\ Submission!Accepted /\ Submission!Broadcast
    BY <1>2 DEF Submission!Underpriced, Submission!RequestTimeout, Submission!WaitTimeout
  <2> QED
    BY <2>1, SubmissionRetry
<1>3. CASE Submission!AskL1 \/ Submission!AskL2
  BY <1>3, SubmissionAsk
<1>4. CASE Submission!Mine \/ Submission!Forget
  BY <1>4, SubmissionNetwork
<1>5. CASE Submission!NonceTooLow \/ Submission!Confirm
  BY <1>5, SubmissionEnd
<1> QED
  BY <1>1, <1>2, <1>3, <1>4, <1>5, SubmissionStart, SubmissionSend DEF Submission!Next

-----------------------------------------------------------------------------
(* The reading of logs.                                                    *)

LEMMA SmallerOfTwo ==
    ASSUME NEW a \in Int, NEW b \in Int
    PROVE  Ranges!Min({a, b}) = IF a <= b THEN a ELSE b
<1>1. PICK m \in {a, b} : \A x \in {a, b} : m <= x
  <2>1. CASE a <= b
    BY <2>1
  <2>2. CASE b <= a
    BY <2>2
  <2> QED
    BY <2>1, <2>2
<1>2. Ranges!Min({a, b}) \in {a, b} /\ \A x \in {a, b} : Ranges!Min({a, b}) <= x
  BY <1>1 DEF Ranges!Min
<1> QED
  BY <1>2

\* The module's FlattenSeq is that of SequencesExt.
LEMMA SameFlattenSeq == \A s : Ranges!FlattenSeq(s) = FlattenSeq(s)
BY DEF Ranges!FlattenSeq, FlattenSeq

\* The block after the first k ranges of n blocks.
EndOf(from, to, n, k) == IF from + k * n <= to + 1 THEN from + k * n ELSE to + 1

\* Division that rounds down, of what may be negative.
LEMMA Quotient ==
    ASSUME NEW a \in Int, NEW b \in Nat \ {0}
    PROVE  a \div b \in Int /\ \A k \in Nat : k <= a \div b <=> k * b <= a
<1> DEFINE q == a \div b
<1>1. q \in Int /\ q * b <= a /\ a < (q + 1) * b
  OBVIOUS
<1> HIDE DEF q
<1>2. ASSUME NEW k \in Nat PROVE k <= q <=> k * b <= a
  <2>1. ASSUME k <= q PROVE k * b <= a
    <3>1. k * b <= q * b
      BY <1>1, <2>1
    <3> DEFINE x == k * b
               y == q * b
    <3>2. x \in Int /\ y \in Int
      BY <1>1
    <3>3. x <= y /\ y <= a
      BY <1>1, <3>1
    <3> HIDE DEF x, y
    <3>4. x <= a
      BY <3>2, <3>3
    <3> QED
      BY <3>4 DEF x
  <2>2. ASSUME q + 1 <= k PROVE ~ (k * b <= a)
    <3>1. (q + 1) * b <= k * b
      BY <1>1, <2>2
    <3> DEFINE x == k * b
               y == (q + 1) * b
    <3>2. x \in Int /\ y \in Int
      BY <1>1
    <3>3. y <= x /\ a < y
      BY <1>1, <3>1
    <3> HIDE DEF x, y
    <3>4. ~ (x <= a)
      BY <3>2, <3>3
    <3> QED
      BY <3>4 DEF x
  <2> QED
    BY <1>1, <2>1, <2>2
<1> QED
  BY <1>1, <1>2 DEF q

\* The ranges of an interval: as many as have a first block in it.
IsCutInto(ranges, from, to, n) ==
    /\ Len(ranges) \in Nat
    /\ \A k \in Nat \ {0} : k <= Len(ranges) <=> from + (k - 1) * n <= to
    /\ \A i \in 1..Len(ranges) : ranges[i] = <<from + (i - 1) * n, EndOf(from, to, n, i) - 1>>

LEMMA RangesCut ==
    ASSUME NEW from \in Nat, NEW to \in Nat, NEW size \in Nat
    PROVE  IsCutInto(Ranges!BlockRangesOf(from, to, size), from, to, size + 1)
<1> DEFINE n == size + 1
           d == to - from + size + 1
           number == d \div n
           count == IF number >= 0 THEN number ELSE 0
           s == Ranges!BlockRangesOf(from, to, size)
           first == [i \in Nat |-> from + (i - 1) * n]
           last == [i \in Nat |-> EndOf(from, to, n, i) - 1]
<1>1. n \in Nat \ {0} /\ d \in Int /\ d = to - from + n
  OBVIOUS
<1> HIDE DEF n, d
<1>2. number \in Int /\ \A k \in Nat : k <= number <=> k * n <= d
  BY <1>1, Quotient
<1>3. ASSUME NEW i \in Nat
      PROVE  /\ i * n \in Nat /\ (i - 1) * n \in Int /\ (i - 1) * n = i * n - n
             /\ first[i] \in Int /\ last[i] \in Int
             /\ from + (i - 1) * n = first[i] /\ Ranges!Min({from + i * n - 1, to}) = last[i]
  <2>1. i * n \in Nat /\ (i - 1) * n \in Int /\ (i - 1) * n = i * n - n
    BY <1>1
  <2>2. Ranges!Min({from + i * n - 1, to}) = IF from + i * n - 1 <= to THEN from + i * n - 1 ELSE to
    BY <2>1, SmallerOfTwo
  <2> DEFINE p == i * n
  <2>3. p \in Nat
    BY <2>1
  <2>4. last[i] = (IF from + p <= to + 1 THEN from + p ELSE to + 1) - 1
    BY DEF EndOf
  <2>5. Ranges!Min({from + p - 1, to}) = IF from + p - 1 <= to THEN from + p - 1 ELSE to
    BY <2>2
  <2>6. first[i] \in Int /\ from + (i - 1) * n = first[i]
    BY <2>1
  <2> HIDE DEF p, last, first
  <2>7. last[i] \in Int /\ Ranges!Min({from + p - 1, to}) = last[i]
    BY <2>3, <2>4, <2>5
  <2> QED
    BY <2>1, <2>6, <2>7 DEF p
<1> HIDE DEF number
<1>4. count \in Nat /\ 1..number = 1..count
  BY <1>2
<1>5. s = [i \in 1..number |-> <<from + (i - 1) * n, Ranges!Min({from + i * n - 1, to})>>]
  BY DEF Ranges!BlockRangesOf, number, n, d
<1> HIDE DEF count, s
<1>6. s = [i \in 1..count |-> <<first[i], last[i]>>]
  <2> HIDE DEF first, last
  <2>1. \A i \in 1..count : <<from + (i - 1) * n, Ranges!Min({from + i * n - 1, to})>> = <<first[i], last[i]>>
    <3> TAKE i \in 1..count
    <3>1. i \in Nat
      BY <1>4
    <3> QED
      BY <1>3, <3>1
  <2> QED
    BY <1>4, <1>5, <2>1
<1> HIDE DEF first, last
<1>7. Len(s) = count
  <2>1. s \in [1..count -> Int \X Int]
    <3>1. \A i \in 1..count : i \in Nat
      BY <1>4
    <3>2. \A i \in 1..count : first[i] \in Int /\ last[i] \in Int
      BY <1>3, <3>1
    <3> QED
      BY <1>6, <3>2
  <2> QED
    BY <1>4, <2>1, LenProperties
<1>8. \A i \in 1..count : s[i] = <<from + (i - 1) * n, EndOf(from, to, n, i) - 1>>
  BY <1>6 DEF first, last
<1>9. ASSUME NEW k \in Nat \ {0} PROVE k <= count <=> from + (k - 1) * n <= to
  <2> DEFINE p == k * n
  <2>1. p \in Nat /\ (k - 1) * n = p - n
    BY <1>3
  <2>2. k <= number <=> p <= d
    BY <1>2
  <2> HIDE DEF p
  <2>3. k <= number <=> k <= count
    BY <1>2 DEF count
  <2> QED
    BY <1>1, <2>1, <2>2, <2>3
<1>10. IsCutInto(s, from, to, n)
  BY <1>4, <1>7, <1>8, <1>9 DEF IsCutInto
<1> QED
  BY <1>10 DEF s, n

\* The logs of the next ranges are those of the blocks up to the end of the last.
LEMMA BatchOfLogs ==
    ASSUME NEW from \in Nat, NEW to \in Nat, NEW n \in Nat \ {0}, NEW ranges,
           IsCutInto(ranges, from, to, n), NEW k \in Nat, NEW m \in Nat, k < m, m <= Len(ranges)
    PROVE  /\ FlattenSeq([i \in 1..m - k |-> Ranges!LogsOf(ranges[k + i])])
                = Consecutive(EndOf(from, to, n, k), EndOf(from, to, n, m))
           /\ from <= EndOf(from, to, n, k) /\ EndOf(from, to, n, k) <= EndOf(from, to, n, m)
           /\ EndOf(from, to, n, k) \in Nat /\ EndOf(from, to, n, m) \in Nat
<1> DEFINE b == m - k
           cut == [i \in 0..b |-> EndOf(from, to, n, k + i)]
           logs == [i \in 1..b |-> Ranges!LogsOf(ranges[k + i])]
<1>1. b \in Nat /\ Len(ranges) \in Nat /\ \A i \in 0..b : k + i \in Nat /\ k + i <= Len(ranges)
  BY DEF IsCutInto
<1>2. ASSUME NEW i \in Nat, i <= Len(ranges)
      PROVE  /\ EndOf(from, to, n, i) \in Nat
             /\ i > 0 => /\ EndOf(from, to, n, i - 1) = from + (i - 1) * n
                         /\ EndOf(from, to, n, i - 1) <= EndOf(from, to, n, i)
                         /\ ranges[i] = <<EndOf(from, to, n, i - 1), EndOf(from, to, n, i) - 1>>
  <2> DEFINE p == i * n
             q == (i - 1) * n
  <2>1. p \in Nat /\ q \in Int /\ q = p - n
    OBVIOUS
  <2>2. EndOf(from, to, n, i) = IF from + p <= to + 1 THEN from + p ELSE to + 1
    BY DEF EndOf
  <2>3. EndOf(from, to, n, i - 1) = IF from + q <= to + 1 THEN from + q ELSE to + 1
    BY DEF EndOf
  <2>4. i > 0 => from + q <= to /\ ranges[i] = <<from + q, EndOf(from, to, n, i) - 1>>
    BY <1>1, <1>2 DEF IsCutInto
  <2> HIDE DEF p, q
  <2>5. EndOf(from, to, n, i) \in Nat
    BY <2>1, <2>2
  <2>6. ASSUME i > 0
        PROVE  EndOf(from, to, n, i - 1) = from + q /\ from + q <= EndOf(from, to, n, i)
    BY <2>1, <2>2, <2>3, <2>4, <2>6
  <2> QED
    BY <2>4, <2>5, <2>6 DEF q
<1>3. ASSUME NEW i \in 1..b
      PROVE  /\ i \in 0..b /\ i - 1 \in 0..b /\ k + i \in Nat /\ k + i <= Len(ranges) /\ k + i > 0
             /\ k + (i - 1) = (k + i) - 1
  BY <1>1
<1>4. cut \in [0..b -> Nat]
  BY <1>1, <1>2
<1>5. \A i \in 1..b : cut[i-1] <= cut[i] /\ cut[i-1] \in Nat /\ cut[i] \in Nat
  <2> TAKE i \in 1..b
  <2>1. cut[i] = EndOf(from, to, n, k + i) /\ cut[i-1] = EndOf(from, to, n, (k + i) - 1)
    BY <1>3
  <2>2. cut[i-1] \in Nat /\ cut[i] \in Nat
    BY <1>3, <1>4
  <2> QED
    BY <1>2, <1>3, <2>1, <2>2
<1>6. \A i \in 1..b : logs[i] = Consecutive(cut[i-1], cut[i])
  <2> TAKE i \in 1..b
  <2>1. PICK a \in Nat, z \in Nat : a = cut[i-1] /\ z = cut[i]
    BY <1>5
  <2>2. a = EndOf(from, to, n, (k + i) - 1) /\ z = EndOf(from, to, n, k + i)
    BY <1>3, <2>1
  <2>3. ranges[k + i] = <<a, z - 1>>
    BY <1>2, <1>3, <2>2
  <2>4. logs[i] = Ranges!LogsOf(<<a, z - 1>>)
    BY <2>3
  <2>5. Ranges!LogsOf(<<a, z - 1>>) = [j \in 1..(z - 1) - a + 1 |-> a + j - 1]
    BY DEF Ranges!LogsOf
  <2>6. (z - 1) - a + 1 = z - a
    OBVIOUS
  <2> HIDE DEF cut, logs
  <2> QED
    BY <2>1, <2>4, <2>5, <2>6 DEF Consecutive
<1>7. cut[0] = EndOf(from, to, n, k) /\ cut[b] = EndOf(from, to, n, m)
  <2>1. 0 \in 0..b /\ b \in 0..b /\ k + 0 = k /\ k + b = m
    BY <1>1
  <2> HIDE DEF b
  <2> QED
    BY <2>1
<1> HIDE DEF cut
<1>8. logs = [i \in 1..b |-> Consecutive(cut[i-1], cut[i])]
  BY <1>6
<1> HIDE DEF logs
<1>9. FlattenSeq(logs) = Consecutive(cut[0], cut[b]) /\ cut[0] <= cut[b]
  <2> HIDE DEF b
  <2> QED
    BY <1>1, <1>4, <1>5, <1>8, FlattenConsecutive
<1>10. EndOf(from, to, n, k) \in Nat /\ EndOf(from, to, n, m) \in Nat
  BY <1>2
<1>11. from <= EndOf(from, to, n, k)
  <2> DEFINE p == k * n
  <2>1. p \in Nat
    OBVIOUS
  <2>2. from + (1 - 1) * n <= to
    BY <1>1 DEF IsCutInto
  <2>3. (1 - 1) * n = 0
    OBVIOUS
  <2>4. from <= to
    BY <2>2, <2>3
  <2>5. EndOf(from, to, n, k) = IF from + p <= to + 1 THEN from + p ELSE to + 1
    BY DEF EndOf
  <2> HIDE DEF p
  <2> QED
    BY <2>1, <2>4, <2>5
<1> QED
  BY <1>7, <1>9, <1>10, <1>11 DEF logs, b

\* After the last range comes the end of the interval.
LEMMA AllRanges ==
    ASSUME NEW from \in Nat, NEW to \in Nat, NEW n \in Nat \ {0}, NEW ranges,
           IsCutInto(ranges, from, to, n), NEW k \in Nat, k >= Len(ranges)
    PROVE  EndOf(from, to, n, k) = to + 1
<1> DEFINE p == k * n
<1>1. p \in Nat /\ k + 1 \in Nat \ {0} /\ (k + 1) - 1 = k
  OBVIOUS
<1>2. ~ (k + 1 <= Len(ranges))
  BY DEF IsCutInto
<1>3. ~ (from + p <= to)
  <2>1. k + 1 <= Len(ranges) <=> from + ((k + 1) - 1) * n <= to
    BY <1>1 DEF IsCutInto
  <2> QED
    BY <1>1, <1>2, <2>1
<1>4. EndOf(from, to, n, k) = IF from + p <= to + 1 THEN from + p ELSE to + 1
  BY DEF EndOf
<1> HIDE DEF p
<1> QED
  BY <1>1, <1>3, <1>4

\* What was fetched in a pass are the logs of the blocks from the first one on.
RangesTyped ==
    /\ Ranges!From \in Nat /\ Ranges!To \in Nat
    /\ blockRange \in Nat /\ requested \in Nat

Fetched(number) ==
    events = Consecutive(Ranges!From, EndOf(Ranges!From, Ranges!To, blockRange + 1, number))

RangesInv ==
    /\ RangesTyped
    /\ outcome = "not called" => requested = 0
    /\ requested = 0 => events = <<>>
    /\ requested > 0 => Ranges!From <= Ranges!To /\ Fetched(requested)
    /\ Ranges!EventsExact

LEMMA RangesInit == Ranges!Init => RangesInv
<1> SUFFICES ASSUME Ranges!Init PROVE RangesInv
  OBVIOUS
<1>1. /\ blocks = <<0, 0>> /\ blockRange = 0 /\ requested = 0 /\ events = <<>>
      /\ outcome = "not called"
  BY DEF Ranges!Init
<1>2. Ranges!From \in Nat /\ Ranges!To \in Nat
  BY <1>1 DEF Ranges!From, Ranges!To
<1>3. RangesTyped
  BY <1>1, <1>2 DEF RangesTyped
<1>4. Ranges!EventsExact
  BY <1>1 DEF Ranges!EventsExact
<1>5. ~ (requested > 0)
  <2>1. requested = 0
    BY <1>1
  <2> QED
    BY <2>1
<1> QED
  BY <1>1, <1>3, <1>4, <1>5 DEF RangesInv

LEMMA RangesNext == ASSUME RangesInv, Ranges!Next \/ UNCHANGED rangeVars PROVE RangesInv'
<1>1. CASE UNCHANGED rangeVars
  BY <1>1 DEF rangeVars, RangesInv, RangesTyped, Fetched, Ranges!EventsExact, Ranges!From, Ranges!To
<1>2. CASE Ranges!Call
  <2>1. /\ outcome = "not called" /\ outcome' = "none" /\ UNCHANGED <<requested, events>>
        /\ blocks' \in (0..LastBlock) \X (0..LastBlock) /\ blockRange' \in RangeSizes
    BY <1>2 DEF Ranges!Call
  <2>2. LastBlock \in Nat /\ RangeSizes \subseteq Nat
    BY ServicesAssumption DEF Ranges!RangesAssumption
  <2>3. blocks'[1] \in 0..LastBlock /\ blocks'[2] \in 0..LastBlock
    BY <2>1
  <2>4. RangesTyped'
    <3>1. blockRange' \in Nat
      BY <2>1, <2>2
    <3>2. Ranges!From' \in Nat /\ Ranges!To' \in Nat
      BY <2>2, <2>3 DEF Ranges!From, Ranges!To
    <3>3. requested' \in Nat
      BY <2>1 DEF RangesInv, RangesTyped
    <3> QED
      BY <3>1, <3>2, <3>3 DEF RangesTyped
  <2>5. requested' = 0 /\ events' = <<>>
    BY <2>1 DEF RangesInv
  <2>6. Ranges!EventsExact'
    BY <2>1 DEF Ranges!EventsExact
  <2>7. ~ (requested' > 0)
    BY <2>5
  <2> QED
    BY <2>1, <2>4, <2>5, <2>6, <2>7 DEF RangesInv
<1> SUFFICES ASSUME Ranges!Return \/ Ranges!FetchBatch \/ Ranges!BatchFails PROVE RangesInv'
  BY <1>1, <1>2 DEF Ranges!Next
<1>3. PICK from \in Nat, to \in Nat, n \in Nat \ {0}, old \in Nat :
        from = Ranges!From /\ to = Ranges!To /\ n = blockRange + 1 /\ old = requested
  <2>1. /\ Ranges!From \in Nat /\ Ranges!To \in Nat /\ requested \in Nat
        /\ blockRange + 1 \in Nat \ {0}
    <3>1. RangesTyped
      BY DEF RangesInv
    <3> QED
      BY <3>1 DEF RangesTyped
  <2> QED
    BY <2>1
<1>4. PICK ranges : ranges = Ranges!BlockRangesOf(from, to, blockRange)
  OBVIOUS
<1>5. IsCutInto(ranges, from, to, n) /\ Len(ranges) \in Nat
  <2>1. blockRange \in Nat
    BY DEF RangesInv, RangesTyped
  <2>2. IsCutInto(ranges, from, to, n)
    BY <1>3, <1>4, <2>1, RangesCut
  <2> QED
    BY <2>2 DEF IsCutInto
<1>6. /\ blocks' = blocks /\ Ranges!From' = from /\ Ranges!To' = to /\ outcome = "none"
      /\ ranges = Ranges!BlockRangesOf(Ranges!From, Ranges!To, blockRange)
  BY <1>3, <1>4 DEF Ranges!Return, Ranges!FetchBatch, Ranges!BatchFails, Ranges!From, Ranges!To
<1>7. CASE Ranges!Return
  <2>1. outcome' = "returned" /\ UNCHANGED <<blockRange, requested, events>> /\ old >= Len(ranges)
    BY <1>3, <1>6, <1>7 DEF Ranges!Return
  <2>2. events = [i \in 1..to - from + 1 |-> from + i - 1]
    <3>1. CASE old = 0
      <4>1. ~ (from + (1 - 1) * n <= to)
        BY <1>5, <2>1, <3>1 DEF IsCutInto
      <4>2. (1 - 1) * n = 0
        OBVIOUS
      <4>3. to - from + 1 <= 0
        BY <4>1, <4>2
      <4>4. events = <<>>
        BY <1>3, <3>1 DEF RangesInv
      <4> QED
        BY <4>3, <4>4
    <3>2. CASE old > 0
      <4>1. EndOf(from, to, n, old) = to + 1
        BY <1>5, <2>1, AllRanges
      <4>2. events = Consecutive(from, to + 1)
        BY <1>3, <3>2, <4>1 DEF RangesInv, Fetched
      <4>3. (to + 1) - from = to - from + 1
        OBVIOUS
      <4> QED
        BY <4>2, <4>3 DEF Consecutive
    <3> QED
      BY <3>1, <3>2
  <2>3. Ranges!EventsExact'
    BY <1>6, <2>1, <2>2 DEF Ranges!EventsExact
  <2> QED
    BY <1>3, <1>6, <2>1, <2>3 DEF RangesInv, RangesTyped, Fetched
<1>8. CASE Ranges!FetchBatch
  <2> DEFINE upTo == Ranges!Min({old + ParallelRequests, Len(ranges)})
             batch == FlattenSeq([i \in 1..upTo - old |-> Ranges!LogsOf(ranges[old + i])])
  <2>1. /\ old < Len(ranges) /\ requested' = old + ParallelRequests
        /\ events' = events \o batch /\ UNCHANGED <<blockRange, outcome>>
    BY <1>3, <1>6, <1>8, SameFlattenSeq DEF Ranges!FetchBatch
  <2>2. ParallelRequests \in Nat \ {0}
    BY ServicesAssumption DEF Ranges!RangesAssumption
  <2>3. /\ upTo = IF old + ParallelRequests <= Len(ranges) THEN old + ParallelRequests ELSE Len(ranges)
        /\ upTo \in Nat /\ old < upTo /\ upTo <= Len(ranges)
    <3>1. upTo = IF old + ParallelRequests <= Len(ranges) THEN old + ParallelRequests ELSE Len(ranges)
      BY <1>5, <2>2, SmallerOfTwo
    <3> HIDE DEF upTo
    <3> QED
      BY <1>5, <2>1, <2>2, <3>1
  <2> HIDE DEF upTo
  <2>4. PICK start \in Nat, end \in Nat :
          /\ start = EndOf(from, to, n, old) /\ end = EndOf(from, to, n, upTo)
          /\ batch = Consecutive(start, end) /\ from <= start /\ start <= end
    <3>1. /\ batch = Consecutive(EndOf(from, to, n, old), EndOf(from, to, n, upTo))
          /\ from <= EndOf(from, to, n, old) /\ EndOf(from, to, n, old) <= EndOf(from, to, n, upTo)
          /\ EndOf(from, to, n, old) \in Nat /\ EndOf(from, to, n, upTo) \in Nat
      BY SMTT(30), <1>5, <2>3, BatchOfLogs
    <3> HIDE DEF batch
    <3> QED
      BY <3>1
  <2> HIDE DEF batch
  <2>5. EndOf(from, to, n, old + ParallelRequests) = end
    <3>1. CASE old + ParallelRequests <= Len(ranges)
      BY <2>3, <2>4, <3>1
    <3>2. CASE ~ (old + ParallelRequests <= Len(ranges))
      <4>1. upTo >= Len(ranges) /\ old + ParallelRequests >= Len(ranges) /\ old + ParallelRequests \in Nat
        BY <1>5, <2>2, <2>3, <3>2
      <4> QED
        BY <1>5, <2>3, <2>4, <4>1, AllRanges
    <3> QED
      BY <3>1, <3>2
  <2>6. from <= to
    <3>1. from + (1 - 1) * n <= to
      BY <1>5, <2>1 DEF IsCutInto
    <3>2. (1 - 1) * n = 0
      OBVIOUS
    <3> QED
      BY <3>1, <3>2
  <2>7. events' = Consecutive(from, end)
    <3>1. CASE old = 0
      <4>1. events = <<>> /\ batch \in Seq(Nat)
        BY <1>3, <2>4, <3>1, ConsecutiveType DEF RangesInv
      <4>2. start = from
        <5>1. 0 * n = 0
          OBVIOUS
        <5> QED
          BY <2>4, <2>6, <3>1, <5>1 DEF EndOf
      <4>3. events' = batch
        BY <2>1, <4>1, ConcatEmptySeq
      <4> QED
        BY <2>4, <4>2, <4>3
    <3>2. CASE old > 0
      <4>1. events = Consecutive(from, start)
        BY <1>3, <2>4, <3>2 DEF RangesInv, Fetched
      <4> QED
        BY <2>1, <2>4, <4>1, ConsecutiveConcat
    <3> QED
      BY <3>1, <3>2
  <2>8. requested' \in Nat /\ requested' > 0
    BY <2>1, <2>2
  <2>9. events' = Consecutive(from, EndOf(from, to, n, requested'))
    BY <2>1, <2>5, <2>7
  <2> QED
    BY <1>3, <1>6, <2>1, <2>6, <2>8, <2>9 DEF RangesInv, RangesTyped, Fetched, Ranges!EventsExact
<1>9. CASE Ranges!BatchFails
  <2>1. CASE retries > 0
    <3>1. /\ requested' = 0 /\ events' = <<>> /\ outcome' = outcome
          /\ blockRange' = blockRange \div 2
      BY <1>9, <2>1 DEF Ranges!BatchFails, Ranges!StartAnew
    <3>2. blockRange' \in Nat
      <4>1. PICK size \in Nat : size = blockRange
        BY DEF RangesInv, RangesTyped
      <4>2. size \div 2 \in Nat
        OBVIOUS
      <4> QED
        BY <3>1, <4>1, <4>2
    <3> QED
      BY <1>3, <1>6, <3>1, <3>2 DEF RangesInv, RangesTyped, Ranges!EventsExact
  <2>2. CASE ~ (retries > 0)
    <3>1. outcome' = "thrown" /\ UNCHANGED <<blockRange, requested, events>>
      BY <1>9, <2>2 DEF Ranges!BatchFails
    <3> QED
      BY <1>3, <1>6, <3>1 DEF RangesInv, RangesTyped, Fetched, Ranges!EventsExact
  <2> QED
    BY <2>1, <2>2
<1> QED
  BY <1>7, <1>8, <1>9

-----------------------------------------------------------------------------
(* The token prices.                                                       *)

DecimalsValues == {Unknown, DefaultDecimals} \cup {Decimals[c] : c \in Feed!Coins}
CoinDecimals == [Feed!Coins -> DecimalsValues]

SyncRuns == [pc : {"idle", "listing", "pricing"}, known : CoinDecimals,
             todo : Seq(Feed!Coins), results : CoinDecimals]

\* What a list of decimals says of the coins whose calls never failed.
Truthful(decimals, failed) ==
    \A c \in Feed!Coins :
        decimals[c] \in {Unknown, Decimals[c]} \/ c \in failed \/ Decimals[c] = 0

\* The file, what a sync took from it and what it will write.
SyncInv ==
    /\ file \in [upload : 0..MaxUploads, decimals : CoinDecimals]
    /\ sync \in [Syncs -> SyncRuns]
    /\ failedCalls \subseteq Feed!Coins \ {Ethereum}
    /\ uploads \in 0..MaxUploads
    /\ Truthful(file.decimals, failedCalls)
    /\ \A s \in Syncs : /\ Truthful(sync[s].known, failedCalls)
                        /\ Truthful(sync[s].results, failedCalls)

LEMMA FeedConstants ==
    /\ CoinList \in Seq(Feed!Coins) /\ Ethereum \in Feed!Coins
    /\ CoinsPerBatch \in Nat \ {0} /\ DefaultDecimals \in Nat \ {0} /\ MaxUploads \in Nat
BY ServicesAssumption DEF Feed!FeedAssumption

\* The module's operators are those of Lists.
LEMMA FeedLists ==
    /\ \A list, set : Feed!Among(list, set) = Among(list, set)
    /\ \A list : Feed!ToSet(list) = ToSet(list)
BY DEF Feed!Among, Among, Feed!FlattenSeq, FlattenSeq, Feed!ToSet, ToSet

LEMMA TruthfulStart == \A failed : Truthful(Feed!NoFile.decimals, failed) /\ Feed!NoFile.decimals \in CoinDecimals
BY DEF Truthful, Feed!NoFile, CoinDecimals, DecimalsValues

LEMMA NotSyncingType == Feed!NotSyncing \in SyncRuns
<1>1. <<>> \in Seq(Feed!Coins)
  OBVIOUS
<1> QED
  BY <1>1, TruthfulStart DEF Feed!NotSyncing, SyncRuns

LEMMA SyncInit == Feed!Init => SyncInv
<1> SUFFICES ASSUME Feed!Init PROVE SyncInv
  OBVIOUS
<1>1. file = Feed!NoFile /\ sync = [s \in Syncs |-> Feed!NotSyncing] /\ failedCalls = {} /\ uploads = 0
  BY DEF Feed!Init
<1>2. Feed!NoFile.upload = 0 /\ Feed!NoFile = [upload |-> 0, decimals |-> Feed!NoFile.decimals]
  BY DEF Feed!NoFile
<1>3. /\ Feed!NotSyncing.known = Feed!NoFile.decimals
      /\ Feed!NotSyncing.results = Feed!NoFile.decimals
  BY DEF Feed!NotSyncing
<1> QED
  BY <1>1, <1>2, <1>3, FeedConstants, TruthfulStart, NotSyncingType DEF SyncInv

\* More failed calls excuse more.
LEMMA TruthfulGrows ==
    ASSUME NEW d, NEW failed, NEW more, failed \subseteq more, Truthful(d, failed)
    PROVE  Truthful(d, more)
BY DEF Truthful

\* A step of one sync that neither uploads nor calls a contract.
LEMMA SyncAlone ==
    ASSUME SyncInv, NEW s \in Syncs, NEW run \in SyncRuns,
           sync' = [sync EXCEPT ![s] = run],
           Truthful(run.known, failedCalls), Truthful(run.results, failedCalls),
           UNCHANGED <<file, failedCalls, uploads>>
    PROVE  SyncInv'
BY DEF SyncInv

LEMMA SyncReads == ASSUME SyncInv, NEW s \in Syncs, Feed!ReadOwnFile(s) PROVE SyncInv'
<1> DEFINE empty == [Feed!NotSyncing EXCEPT !.pc = "listing"]
           read == [Feed!NotSyncing EXCEPT !.pc = "listing", !.known = file.decimals]
<1>1. /\ sync' = [sync EXCEPT ![s] = read] \/ sync' = [sync EXCEPT ![s] = empty]
      /\ UNCHANGED <<file, failedCalls, uploads>>
  BY DEF Feed!ReadOwnFile
<1>2. file.decimals \in CoinDecimals /\ Truthful(file.decimals, failedCalls)
  BY DEF SyncInv
<1>3. /\ empty \in SyncRuns /\ empty.known = Feed!NoFile.decimals /\ empty.results = Feed!NoFile.decimals
      /\ read \in SyncRuns /\ read.known = file.decimals /\ read.results = Feed!NoFile.decimals
  <2>1. PICK run \in SyncRuns : run = Feed!NotSyncing
    BY NotSyncingType
  <2>2. run.known = Feed!NoFile.decimals /\ run.results = Feed!NoFile.decimals
    BY <2>1 DEF Feed!NotSyncing
  <2> QED
    BY <1>2, <2>1, <2>2 DEF SyncRuns
<1> HIDE DEF empty, read
<1>4. CASE sync' = [sync EXCEPT ![s] = read]
  BY <1>1, <1>2, <1>3, <1>4, TruthfulStart, SyncAlone
<1>5. CASE sync' = [sync EXCEPT ![s] = empty]
  BY <1>1, <1>3, <1>5, TruthfulStart, SyncAlone
<1> QED
  BY <1>1, <1>4, <1>5

LEMMA SyncLists == ASSUME SyncInv, NEW s \in Syncs, Feed!FetchCoinGeckoList(s) PROVE SyncInv'
<1>1. PICK chosen \in SUBSET (Feed!Coins \ {Ethereum}) :
        sync' = [sync EXCEPT ![s].pc = "pricing", ![s].todo = Append(Feed!Among(CoinList, chosen), Ethereum)]
  BY DEF Feed!FetchCoinGeckoList
<1>2. UNCHANGED <<file, failedCalls, uploads>>
  BY DEF Feed!FetchCoinGeckoList
<1> DEFINE coins == Append(Among(CoinList, chosen), Ethereum)
<1>3. coins \in Seq(Feed!Coins)
  <2>1. Among(CoinList, chosen) \in Seq(Feed!Coins)
    BY FeedConstants, AmongProperties
  <2> QED
    BY <2>1, FeedConstants, AppendProperties
<1>4. sync' = [sync EXCEPT ![s].pc = "pricing", ![s].todo = coins]
  BY <1>1, FeedLists
<1> HIDE DEF coins
<1>5. PICK before \in SyncRuns : before = sync[s] /\ Truthful(before.known, failedCalls)
                                 /\ Truthful(before.results, failedCalls)
  BY DEF SyncInv
<1> DEFINE run == [before EXCEPT !.pc = "pricing", !.todo = coins]
<1>6. run \in SyncRuns /\ run.known = before.known /\ run.results = before.results
  BY <1>3, <1>5 DEF SyncRuns
<1>7. sync' = [sync EXCEPT ![s] = run]
  BY <1>4, <1>5 DEF SyncInv, SyncRuns
<1> HIDE DEF run
<1> QED
  BY <1>2, <1>5, <1>6, <1>7, SyncAlone

\* The answers are assigned to the coins they were given for.
LEMMA DecimalsFound ==
    ASSUME NEW coins \in Seq(Feed!Coins), NEW failed, NEW answers,
           \A k \in DOMAIN Feed!ContractsOf(coins) :
              answers[k] = IF Feed!ContractsOf(coins)[k] \in failed THEN DefaultDecimals
                           ELSE Decimals[Feed!ContractsOf(coins)[k]],
           NEW i \in 1..Len(coins)
    PROVE  Feed!ContractDecimals(coins, answers)[i] =
             IF coins[i] \in failed \ {Ethereum} THEN DefaultDecimals ELSE Decimals[coins[i]]
<1> DEFINE Called == Feed!Coins \ {Ethereum}
           contracts == Among(coins, Called)
           call == Len(Among(SubSeq(coins, 1, i), Called))
<1>1. Feed!ContractsOf(coins) = contracts /\ \A j : Len(Feed!ContractsOf(SubSeq(coins, 1, j))) = Len(Among(SubSeq(coins, 1, j), Called))
  BY FeedLists DEF Feed!ContractsOf
<1>2. DOMAIN coins = 1..Len(coins) /\ coins[i] \in Feed!Coins
  OBVIOUS
<1>3. Feed!ContractDecimals(coins, answers)[i] = IF coins[i] = Ethereum THEN Decimals[Ethereum] ELSE answers[call]
  <2>1. Feed!ContractDecimals(coins, answers) =
          [j \in DOMAIN coins |-> IF coins[j] = Ethereum THEN Decimals[Ethereum]
                                  ELSE answers[Len(Feed!ContractsOf(SubSeq(coins, 1, j)))]]
    BY DEF Feed!ContractDecimals
  <2>2. Len(Feed!ContractsOf(SubSeq(coins, 1, i))) = call
    BY <1>1
  <2> HIDE DEF call
  <2> QED
    BY <1>2, <2>1, <2>2
<1>4. ASSUME coins[i] # Ethereum
      PROVE  answers[call] = IF coins[i] \in failed THEN DefaultDecimals ELSE Decimals[coins[i]]
  <2>1. coins[i] \in Called
    BY <1>2, <1>4
  <2> HIDE DEF Called
  <2>2. call \in 1..Len(contracts) /\ contracts[call] = coins[i]
    BY <2>1, AmongPlace
  <2>3. contracts \in Seq(Feed!Coins)
    BY AmongProperties
  <2>4. call \in DOMAIN contracts
    BY <2>2, <2>3
  <2> HIDE DEF contracts, call
  <2> QED
    BY <1>1, <2>2, <2>4
<1> HIDE DEF call
<1> QED
  BY <1>3, <1>4

LEMMA BatchOfCoins ==
    ASSUME NEW todo \in Seq(Feed!Coins)
    PROVE  /\ Feed!Min({CoinsPerBatch, Len(todo)}) \in 0..Len(todo)
           /\ \A n \in 0..Len(todo) : /\ SubSeq(todo, 1, n) \in Seq(Feed!Coins)
                                      /\ Len(SubSeq(todo, 1, n)) = n
                                      /\ SubSeq(todo, n + 1, Len(todo)) \in Seq(Feed!Coins)
<1>1. \A S : Feed!Min(S) = Ranges!Min(S)
  BY DEF Feed!Min, Ranges!Min
<1>2. CoinsPerBatch \in Int /\ Len(todo) \in Int /\ CoinsPerBatch > 0 /\ Len(todo) >= 0
  BY FeedConstants
<1>3. Ranges!Min({CoinsPerBatch, Len(todo)}) \in 0..Len(todo)
  BY <1>2, SmallerOfTwo
<1> QED
  BY <1>1, <1>3

LEMMA SyncBatch == ASSUME SyncInv, NEW s \in Syncs, Feed!ProcessMarketBatch(s) PROVE SyncInv'
<1>1. PICK before \in SyncRuns : before = sync[s] /\ Truthful(before.known, failedCalls)
                                 /\ Truthful(before.results, failedCalls)
  BY DEF SyncInv
<1>2. PICK earlier : earlier = failedCalls /\ earlier \subseteq Feed!Coins \ {Ethereum}
  BY DEF SyncInv
<1> DEFINE todo == sync[s].todo
           n == Feed!Min({CoinsPerBatch, Len(todo)})
           batch == SubSeq(todo, 1, n)
           rest == SubSeq(todo, Len(batch) + 1, Len(todo))
           coins == Feed!WithoutDecimals(sync[s].known, batch)
           contracts == Feed!ContractsOf(coins)
           Answers(failed) == [i \in DOMAIN contracts |->
                                 IF contracts[i] \in failed THEN DefaultDecimals ELSE Decimals[contracts[i]]]
           Found(failed) == Feed!ContractDecimals(coins, Answers(failed))
           Place(c) == CHOOSE i \in DOMAIN coins : coins[i] = c
           Merged(failed) ==
             [c \in Feed!Coins |->
                IF c \in Feed!ToSet(coins) THEN Feed!MergedDecimals(Found(failed)[Place(c)])
                ELSE IF c \in Feed!ToSet(batch) THEN sync[s].known[c] ELSE sync[s].results[c]]
<1>3. PICK failed \in SUBSET Feed!ToSet(contracts) :
        /\ failedCalls' = failedCalls \cup failed
        /\ sync' = [sync EXCEPT ![s].todo = rest, ![s].results = Merged(failed)]
  BY Zenon DEF Feed!ProcessMarketBatch
<1>4. UNCHANGED <<file, uploads>>
  BY DEF Feed!ProcessMarketBatch
<1>5. before.todo \in Seq(Feed!Coins) /\ before.known \in CoinDecimals /\ before.results \in CoinDecimals
  BY <1>1 DEF SyncRuns
<1>6. PICK more \in Seq(Feed!Coins) : more = rest
  <2>1. n \in 0..Len(before.todo)
    BY <1>1, <1>5, BatchOfCoins
  <2>2. PICK m \in 0..Len(before.todo) : m = n
    BY <2>1
  <2>3. Len(SubSeq(before.todo, 1, m)) = m /\ SubSeq(before.todo, m + 1, Len(before.todo)) \in Seq(Feed!Coins)
    BY <1>5, BatchOfCoins
  <2>4. rest = SubSeq(before.todo, m + 1, Len(before.todo))
    <3> HIDE DEF n
    <3> QED
      BY <1>1, <2>2, <2>3
  <2> QED
    BY <2>3, <2>4
<1>7. PICK priced \in Seq(Feed!Coins) : priced = batch
  <2>1. PICK m \in 0..Len(before.todo) : m = n
    BY <1>1, <1>5, BatchOfCoins
  <2>2. SubSeq(before.todo, 1, m) \in Seq(Feed!Coins)
    BY <1>5, BatchOfCoins
  <2> HIDE DEF n
  <2> QED
    BY <1>1, <2>1, <2>2
<1> HIDE DEF batch, rest
<1>8. PICK asked \in Seq(Feed!Coins) : asked = coins
  <2>1. coins = Among(priced, {c \in Feed!Coins : before.known[c] \in {Unknown, 0}})
    BY <1>1, <1>7, FeedLists DEF Feed!WithoutDecimals
  <2> QED
    BY <1>7, <2>1, AmongProperties
<1> HIDE DEF coins
<1>9. failed \subseteq Feed!Coins \ {Ethereum}
  <2>1. contracts = Among(asked, Feed!Coins \ {Ethereum})
    BY <1>8, FeedLists DEF Feed!ContractsOf
  <2>2. ToSet(Among(asked, Feed!Coins \ {Ethereum})) = ToSet(asked) \cap (Feed!Coins \ {Ethereum})
    BY <1>8, AmongProperties
  <2>3. Feed!ToSet(contracts) = ToSet(Among(asked, Feed!Coins \ {Ethereum}))
    BY <2>1, FeedLists
  <2> QED
    BY <1>3, <2>2, <2>3
<1>10. PICK merged : /\ merged = Merged(failed)
                     /\ merged \in CoinDecimals /\ Truthful(merged, earlier \cup failed)
  <2>1. PICK answers : answers = Answers(failed)
    OBVIOUS
  <2>2. PICK found : found = Found(failed)
    OBVIOUS
  <2>3. PICK merged : merged = Merged(failed)
    OBVIOUS
  <2>4. \A k \in DOMAIN Feed!ContractsOf(asked) :
           answers[k] = IF Feed!ContractsOf(asked)[k] \in failed THEN DefaultDecimals
                        ELSE Decimals[Feed!ContractsOf(asked)[k]]
    BY <1>8, <2>1
  <2>5. found = Feed!ContractDecimals(asked, answers)
    BY <1>8, <2>1, <2>2
  <2> HIDE DEF Answers, Found
  <2>6. \A i \in 1..Len(asked) :
          found[i] = IF asked[i] \in failed \ {Ethereum} THEN DefaultDecimals ELSE Decimals[asked[i]]
    <3> TAKE i \in 1..Len(asked)
    <3>1. Feed!ContractDecimals(asked, answers)[i] =
            IF asked[i] \in failed \ {Ethereum} THEN DefaultDecimals ELSE Decimals[asked[i]]
      BY <2>4, DecimalsFound
    <3> QED
      BY <2>5, <3>1
  <2>7. merged = [c \in Feed!Coins |-> merged[c]]
    BY <2>3
  <2>8. ASSUME NEW c \in Feed!Coins
        PROVE  IF c \in ToSet(asked)
               THEN \E i \in DOMAIN asked : asked[i] = c /\ merged[c] = Feed!MergedDecimals(found[i])
               ELSE merged[c] \in {before.known[c], before.results[c]}
    <3>1. ASSUME c \in ToSet(asked) PROVE Place(c) \in DOMAIN asked /\ asked[Place(c)] = c
      <4>1. \E i \in DOMAIN coins : coins[i] = c
        BY <1>8, <3>1 DEF ToSet
      <4>2. Place(c) \in DOMAIN coins /\ coins[Place(c)] = c
        BY <4>1
      <4> QED
        BY <1>8, <4>2
    <3> HIDE DEF Place
    <3>2. merged[c] = IF c \in Feed!ToSet(coins) THEN Feed!MergedDecimals(Found(failed)[Place(c)])
                      ELSE IF c \in Feed!ToSet(batch) THEN sync[s].known[c] ELSE sync[s].results[c]
      BY <2>3
    <3>3. Feed!ToSet(coins) = ToSet(asked)
      BY <1>8, FeedLists
    <3> HIDE DEF Merged
    <3> QED
      BY <1>1, <2>2, <3>1, <3>2, <3>3
  <2> HIDE DEF Merged, Place
  <2>9. Truthful(before.known, earlier) /\ Truthful(before.results, earlier)
    BY <1>1, <1>2
  <2>10. \A c \in Feed!Coins :
           /\ merged[c] \in DecimalsValues
           /\ merged[c] \in {Unknown, Decimals[c]} \/ c \in earlier \cup failed \/ Decimals[c] = 0
    <3> TAKE c \in Feed!Coins
    <3>1. CASE c \in ToSet(asked)
      <4>1. PICK i \in DOMAIN asked : asked[i] = c /\ merged[c] = Feed!MergedDecimals(found[i])
        BY <2>8, <3>1
      <4>2. found[i] = IF c \in failed \ {Ethereum} THEN DefaultDecimals ELSE Decimals[c]
        BY <2>6, <4>1, SMTT(30)
      <4>3. merged[c] = IF found[i] = 0 THEN DefaultDecimals ELSE found[i]
        BY <4>1 DEF Feed!MergedDecimals
      <4>4. DefaultDecimals \in DecimalsValues /\ Decimals[c] \in DecimalsValues
        BY DEF DecimalsValues
      <4> QED
        BY <4>2, <4>3, <4>4
    <3>2. CASE c \notin ToSet(asked)
      <4>1. merged[c] = before.known[c] \/ merged[c] = before.results[c]
        BY <2>8, <3>2
      <4> QED
        BY <1>5, <2>9, <4>1 DEF Truthful, CoinDecimals
    <3> QED
      BY <3>1, <3>2
  <2>11. merged \in CoinDecimals
    BY <2>7, <2>10 DEF CoinDecimals
  <2>12. Truthful(merged, earlier \cup failed)
    BY <2>10 DEF Truthful
  <2> QED
    BY <2>3, <2>11, <2>12
<1>11. failedCalls' = earlier \cup failed /\ failed \subseteq Feed!Coins \ {Ethereum}
  BY <1>2, <1>3, <1>9
<1> HIDE DEF Merged
<1> DEFINE run == [before EXCEPT !.todo = more, !.results = merged]
<1>12. run \in SyncRuns /\ run.known = before.known /\ run.results = merged
  BY <1>1, <1>6, <1>10 DEF SyncRuns
<1>13. sync' = [sync EXCEPT ![s] = run]
  <2>1. sync' = [sync EXCEPT ![s].todo = more, ![s].results = merged]
    BY <1>3, <1>6, <1>10
  <2> QED
    BY <1>1, <2>1 DEF SyncInv, SyncRuns
<1> HIDE DEF run
<1>14. Truthful(file.decimals, earlier \cup failed)
  BY <1>2, TruthfulGrows DEF SyncInv
<1>15. \A t \in Syncs : /\ Truthful(sync[t].known, earlier \cup failed)
                        /\ Truthful(sync[t].results, earlier \cup failed)
  BY <1>2, TruthfulGrows DEF SyncInv
<1>16. /\ sync' \in [Syncs -> SyncRuns]
       /\ sync'[s] = run /\ \A t \in Syncs \ {s} : sync'[t] = sync[t]
  BY <1>12, <1>13 DEF SyncInv
<1>17. \A t \in Syncs : /\ Truthful(sync'[t].known, earlier \cup failed)
                        /\ Truthful(sync'[t].results, earlier \cup failed)
  <2>1. Truthful(run.known, earlier \cup failed) /\ Truthful(run.results, earlier \cup failed)
    BY <1>1, <1>10, <1>12, <1>15
  <2> QED
    BY <1>15, <1>16, <2>1
<1> QED
  BY <1>2, <1>4, <1>11, <1>14, <1>16, <1>17 DEF SyncInv

LEMMA SyncUploads == ASSUME SyncInv, NEW s \in Syncs, Feed!UploadResults(s) PROVE SyncInv'
<1>1. PICK results \in CoinDecimals : results = sync[s].results /\ Truthful(results, failedCalls)
  BY DEF SyncInv, SyncRuns
<1>2. PICK n \in 0..MaxUploads : n = uploads /\ n < MaxUploads
  BY DEF SyncInv, Feed!UploadResults
<1>3. /\ file' = [upload |-> n + 1, decimals |-> results] /\ uploads' = n + 1
      /\ sync' = [sync EXCEPT ![s] = Feed!NotSyncing] /\ UNCHANGED failedCalls
  BY <1>1, <1>2 DEF Feed!UploadResults
<1>4. n + 1 \in 0..MaxUploads
  BY <1>2, FeedConstants
<1>5. PICK run \in SyncRuns : /\ run = Feed!NotSyncing /\ run.known = Feed!NoFile.decimals
                              /\ run.results = Feed!NoFile.decimals
  BY NotSyncingType DEF Feed!NotSyncing
<1>6. file' \in [upload : 0..MaxUploads, decimals : CoinDecimals] /\ file'.decimals = results
  BY <1>3, <1>4
<1>7. sync' = [sync EXCEPT ![s] = run]
  BY <1>3, <1>5
<1>8. Truthful(run.known, failedCalls) /\ Truthful(run.results, failedCalls)
  BY <1>5, TruthfulStart
<1> QED
  BY <1>1, <1>3, <1>4, <1>6, <1>7, <1>8 DEF SyncInv

LEMMA SyncEnds == ASSUME SyncInv, NEW s \in Syncs, Feed!SyncFails(s) PROVE SyncInv'
<1>1. PICK run \in SyncRuns : /\ run = Feed!NotSyncing /\ run.known = Feed!NoFile.decimals
                              /\ run.results = Feed!NoFile.decimals
  BY NotSyncingType DEF Feed!NotSyncing
<1>2. sync' = [sync EXCEPT ![s] = run] /\ UNCHANGED <<file, failedCalls, uploads>>
  BY <1>1 DEF Feed!SyncFails
<1> QED
  BY <1>1, <1>2, TruthfulStart, SyncAlone

LEMMA SyncNext == ASSUME SyncInv, Feed!Next \/ UNCHANGED feedVars PROVE SyncInv'
<1>1. CASE \E s \in Syncs : Feed!SyncStep(s)
  BY <1>1, SyncReads, SyncLists, SyncBatch, SyncUploads, SyncEnds DEF Feed!SyncStep
<1>2. CASE ~ \E s \in Syncs : Feed!SyncStep(s)
  <2>1. UNCHANGED Feed!syncVars
    BY <1>2 DEF Feed!Next, Feed!PriceStep, Feed!Answer, Feed!Handle, Feed!Initialize, Feed!IntervalFetch,
                Feed!RetryFetch, Feed!RequestFetch, Feed!Cleanup, Feed!Exit, feedVars, Feed!syncVars
  <2> QED
    BY <2>1 DEF Feed!syncVars, SyncInv
<1> QED
  BY <1>1, <1>2

\* The process that keeps the prices.
FetchRuns == [pc : {"free", "asked", "answered"}, init : BOOLEAN, upload : 0..MaxUploads]

PricesInv ==
    /\ prices \in 0..MaxUploads
    /\ fetch \in [Fetches -> FetchRuns]
    /\ {initialized, retryTimer, interval, closing} \subseteq BOOLEAN

LEMMA PricesInit == Feed!Init => PricesInv
<1> SUFFICES ASSUME Feed!Init PROVE PricesInv
  OBVIOUS
<1>1. Feed!NoFetch \in FetchRuns /\ 0 \in 0..MaxUploads
  BY FeedConstants DEF Feed!NoFetch, FetchRuns
<1>2. prices = 0 /\ fetch = [f \in Fetches |-> Feed!NoFetch]
      /\ initialized = FALSE /\ retryTimer = FALSE /\ interval = FALSE /\ closing = FALSE
  BY DEF Feed!Init, Feed!ProcessInit
<1> QED
  BY <1>1, <1>2 DEF PricesInv

LEMMA PricesAsk == ASSUME PricesInv, NEW init \in BOOLEAN, Feed!Ask(init) PROVE fetch' \in [Fetches -> FetchRuns]
<1>1. [pc |-> "asked", init |-> init, upload |-> 0] \in FetchRuns
  BY FeedConstants DEF FetchRuns
<1> QED
  BY <1>1 DEF PricesInv, Feed!Ask

LEMMA PricesNext == ASSUME SyncInv, PricesInv, Feed!Next \/ UNCHANGED feedVars PROVE PricesInv'
<1>1. Feed!NoFetch \in FetchRuns /\ 0 \in 0..MaxUploads
  BY FeedConstants DEF Feed!NoFetch, FetchRuns
<1>2. CASE \E s \in Syncs : Feed!SyncStep(s)
  BY <1>2 DEF Feed!SyncStep, Feed!ReadOwnFile, Feed!FetchCoinGeckoList, Feed!ProcessMarketBatch,
              Feed!UploadResults, Feed!SyncFails, Feed!priceVars, PricesInv
<1>3. ASSUME NEW f \in Fetches, Feed!Answer(f) PROVE PricesInv'
  <2>1. PICK up \in 0..MaxUploads : up = file.upload
    BY DEF SyncInv
  <2>2. PICK run \in FetchRuns : run = fetch[f]
    BY DEF PricesInv
  <2>3. \/ fetch' = [fetch EXCEPT ![f].pc = "answered", ![f].upload = up]
        \/ fetch' = [fetch EXCEPT ![f].pc = "answered"]
    BY <1>3, <2>1 DEF Feed!Answer
  <2>4. [run EXCEPT !.pc = "answered", !.upload = up] \in FetchRuns /\ [run EXCEPT !.pc = "answered"] \in FetchRuns
    BY <2>2 DEF FetchRuns
  <2>5. \/ fetch' = [fetch EXCEPT ![f] = [run EXCEPT !.pc = "answered", !.upload = up]]
        \/ fetch' = [fetch EXCEPT ![f] = [run EXCEPT !.pc = "answered"]]
    BY <2>2, <2>3 DEF PricesInv, FetchRuns
  <2>6. fetch' \in [Fetches -> FetchRuns]
    BY <2>4, <2>5 DEF PricesInv
  <2> QED
    BY <1>3, <2>6 DEF PricesInv, Feed!Answer
<1>4. ASSUME NEW f \in Fetches, Feed!Handle(f) PROVE PricesInv'
  <2>1. fetch[f].upload \in 0..MaxUploads /\ fetch[f].init \in BOOLEAN
    BY DEF PricesInv, FetchRuns
  <2>2. fetch' \in [Fetches -> FetchRuns]
    BY <1>1, <1>4 DEF PricesInv, Feed!Handle
  <2>3. prices' \in 0..MaxUploads /\ retryTimer' \in BOOLEAN
    BY <1>4, <2>1 DEF PricesInv, Feed!Handle, Feed!Cache
  <2>4. initialized' \in BOOLEAN /\ interval' \in BOOLEAN /\ closing' \in BOOLEAN
    BY <1>4, <2>1 DEF PricesInv, Feed!Handle
  <2> QED
    BY <2>2, <2>3, <2>4 DEF PricesInv
<1>5. CASE Feed!Initialize
  BY <1>5, PricesAsk DEF Feed!Initialize, PricesInv
<1>6. CASE Feed!IntervalFetch
  BY <1>6, PricesAsk DEF Feed!IntervalFetch, PricesInv
<1>7. CASE Feed!RetryFetch
  BY <1>7, PricesAsk DEF Feed!RetryFetch, PricesInv
<1>8. CASE Feed!RequestFetch
  BY <1>8, PricesAsk DEF Feed!RequestFetch, PricesInv
<1>9. CASE Feed!Cleanup
  BY <1>1, <1>9 DEF Feed!Cleanup, PricesInv
<1>10. CASE Feed!Exit
  BY <1>1, <1>10 DEF Feed!Exit, PricesInv
<1>11. CASE UNCHANGED feedVars
  BY <1>11 DEF feedVars, PricesInv
<1> QED
  BY <1>2, <1>3, <1>4, <1>5, <1>6, <1>7, <1>8, <1>9, <1>10, <1>11 DEF Feed!Next, Feed!PriceStep

-----------------------------------------------------------------------------
(* The token lists.                                                        *)

\* R orders the elements of W.
IsOrderOf(R, W) ==
    /\ \A x \in W : <<x, x>> \notin R
    /\ \A x, y, z \in W : <<x, y>> \in R /\ <<y, z>> \in R => <<x, z>> \in R
    /\ \A x, y \in W : x # y => <<x, y>> \in R \/ <<y, x>> \in R

\* The order of a list: that of the names or, of prices, that of the filter or
\* of the file.
OrderOf(filter, byName, tokens) ==
    IF byName THEN {p \in ApiTokens \X ApiTokens : p[1] < p[2]}
    ELSE {p \in ApiTokens \X ApiTokens : Api!Precedes(IF filter = <<>> THEN tokens ELSE filter, p[1], p[2])}

LEMMA ApiConstants ==
    /\ ApiTokens \subseteq Nat \ {0} /\ Filters \subseteq Seq(ApiTokens)
    /\ PerPages \subseteq Nat /\ DocLimit \in Nat \ {0} /\ CoinsPerBatch \in Nat \ {0}
    /\ IsFiniteSet(ApiTokens)
BY ServicesAssumption DEF Api!TokenApiAssumption, Api!IsFiniteSet, IsFiniteSet

LEMMA ApiNumbers == ApiTokens \subseteq Nat
BY ApiConstants

LEMMA ApiLists ==
    /\ \A list, set : Api!Among(list, set) = Among(list, set)
    /\ \A list : Api!ToSet(list) = ToSet(list)
    /\ \A list : Api!IsAscending(list) = IsAscending(list)
    /\ \A set : Api!Ascending(set) = Ascending(set)
    /\ \A list : Api!Last(list) = Last(list)
    /\ \A set : Api!Min(set) = Min(set)
<1>1. \A list, set : Api!Among(list, set) = Among(list, set)
  BY DEF Api!Among, Among, Api!FlattenSeq, FlattenSeq
<1>2. \A list : Api!ToSet(list) = ToSet(list)
  BY DEF Api!ToSet, ToSet
<1>3. \A list : Api!IsAscending(list) = IsAscending(list)
  BY DEF Api!IsAscending, IsAscending
<1>4. \A set : Api!Ascending(set) = Ascending(set)
  BY DEF Api!Ascending, Ascending, Api!IsAscending, IsAscending, Api!Cardinality, Cardinality
<1>5. \A list : Api!Last(list) = Last(list)
  BY DEF Api!Last, Last
<1>6. \A set : Api!Min(set) = Min(set)
  BY DEF Api!Min, Min
<1> QED
  BY <1>1, <1>2, <1>3, <1>4, <1>5, <1>6

LEMMA WantedTokens == ASSUME NEW filter \in Seq(ApiTokens) PROVE Api!Wanted(filter) \subseteq ApiTokens
BY ApiLists DEF Api!Wanted, ToSet

\* A list of different tokens orders them.
LEMMA SequenceOrders ==
    ASSUME NEW s \in Seq(ApiTokens), IsInjective(s), NEW R,
           R = {p \in ApiTokens \X ApiTokens : Api!Precedes(s, p[1], p[2])}
    PROVE  IsOrderOf(R, ToSet(s)) /\ RespectsOrder(s, R)
<1>1. DOMAIN s = 1..Len(s) /\ Len(s) \in Nat /\ \A i \in 1..Len(s) : s[i] \in ApiTokens
  OBVIOUS
<1>2. ToSet(s) = {s[i] : i \in 1..Len(s)}
  BY <1>1 DEF ToSet
<1>3. \A i, j \in 1..Len(s) : s[i] = s[j] => i = j
  BY <1>1 DEF IsInjective
<1>4. ASSUME NEW i \in 1..Len(s), NEW j \in 1..Len(s)
      PROVE  <<s[i], s[j]>> \in R <=> i < j
  <2>1. <<s[i], s[j]>> \in R <=> Api!Precedes(s, s[i], s[j])
    BY <1>1
  <2>2. Api!Precedes(s, s[i], s[j]) <=> i < j
    BY <1>1, <1>3 DEF Api!Precedes
  <2> QED
    BY <2>1, <2>2
<1>5. ASSUME NEW x \in ToSet(s), NEW y \in ToSet(s), NEW z \in ToSet(s)
      PROVE  /\ <<x, x>> \notin R
             /\ <<x, y>> \in R /\ <<y, z>> \in R => <<x, z>> \in R
             /\ x # y => <<x, y>> \in R \/ <<y, x>> \in R
  <2>1. PICK i, j, k \in 1..Len(s) : x = s[i] /\ y = s[j] /\ z = s[k]
    BY <1>2
  <2>2. i \in Nat /\ j \in Nat /\ k \in Nat
    BY <1>1
  <2>3. (<<x, y>> \in R <=> i < j) /\ (<<y, z>> \in R <=> j < k) /\ (<<x, z>> \in R <=> i < k)
        /\ (<<x, x>> \in R <=> i < i) /\ (<<y, x>> \in R <=> j < i)
    BY <1>4, <2>1
  <2>4. x # y => i # j
    BY <2>1
  <2> QED
    BY <2>2, <2>3, <2>4
<1>6. IsOrderOf(R, ToSet(s))
  BY <1>5 DEF IsOrderOf
<1>7. RespectsOrder(s, R)
  BY <1>1, <1>4 DEF RespectsOrder
<1> QED
  BY <1>6, <1>7

LEMMA OrderOfWanted ==
    ASSUME NEW filter \in Seq(ApiTokens), NEW byName \in BOOLEAN, IsInjective(filter),
           NEW tokens \in Seq(ApiTokens), IsInjective(tokens)
    PROVE  IsOrderOf(OrderOf(filter, byName, tokens), ToSet(tokens) \cap Api!Wanted(filter))
<1> DEFINE W == Api!Wanted(filter)
           V == ToSet(tokens) \cap W
           R == OrderOf(filter, byName, tokens)
<1>1. V \subseteq ApiTokens /\ ApiTokens \subseteq Nat
  BY WantedTokens, ApiConstants
<1>2. CASE byName
  <2>1. R = {p \in ApiTokens \X ApiTokens : p[1] < p[2]}
    BY <1>2 DEF OrderOf
  <2>2. \A x, y \in V : <<x, y>> \in R <=> x < y
    BY <1>1, <2>1
  <2> HIDE DEF R, V
  <2>3. \A x, y \in V : x \in Nat /\ y \in Nat
    BY <1>1
  <2>4. \A x \in V : <<x, x>> \notin R
    BY <2>2, <2>3
  <2>5. \A x, y, z \in V : <<x, y>> \in R /\ <<y, z>> \in R => <<x, z>> \in R
    BY <2>2, <2>3
  <2>6. \A x, y \in V : x # y => <<x, y>> \in R \/ <<y, x>> \in R
    BY <2>2, <2>3
  <2> QED
    BY <2>4, <2>5, <2>6 DEF IsOrderOf, R, V
<1>3. CASE ~byName
  <2>1. PICK s \in Seq(ApiTokens) : s = (IF filter = <<>> THEN tokens ELSE filter) /\ IsInjective(s)
    OBVIOUS
  <2>2. R = {p \in ApiTokens \X ApiTokens : Api!Precedes(s, p[1], p[2])}
    BY <1>3, <2>1 DEF OrderOf
  <2>3. V \subseteq ToSet(s)
    BY <2>1, ApiLists DEF Api!Wanted
  <2> HIDE DEF R, V
  <2>4. IsOrderOf(R, ToSet(s))
    BY <2>1, <2>2, SequenceOrders
  <2> QED
    BY <2>3, <2>4 DEF IsOrderOf, R, V
<1> QED
  BY <1>2, <1>3

\* The order S, of the set `more`, is R within the smaller set `all`.
Extends(S, more, R, all) ==
    /\ all \subseteq more
    /\ \A p \in R : p \in S
    /\ \A x, y \in all : <<x, y>> \in S => <<x, y>> \in R

\* A list with more tokens keeps the order of those it had, if it goes by
\* name or filter, or if their places keep their order.
LEMMA OrderGrows ==
    ASSUME NEW filter \in Seq(ApiTokens), NEW byName \in BOOLEAN,
           NEW old \in Seq(ApiTokens), NEW new \in Seq(ApiTokens), ToSet(old) \subseteq ToSet(new),
           byName \/ filter # <<>> \/ Api!SameOrder(old, new)
    PROVE  Extends(OrderOf(filter, byName, new), ToSet(new), OrderOf(filter, byName, old), ToSet(old))
<1>1. CASE byName \/ filter # <<>>
  BY <1>1 DEF Extends, OrderOf
<1>2. CASE ~byName /\ filter = <<>>
  <2> DEFINE R == {p \in ApiTokens \X ApiTokens : Api!Precedes(old, p[1], p[2])}
             S == {p \in ApiTokens \X ApiTokens : Api!Precedes(new, p[1], p[2])}
  <2>1. OrderOf(filter, byName, new) = S /\ OrderOf(filter, byName, old) = R
    BY <1>2 DEF OrderOf
  <2>2. \A x, y \in ToSet(old) : Api!Precedes(old, x, y) <=> Api!Precedes(new, x, y)
    BY <1>2, ApiLists DEF Api!SameOrder
  <2>3. ASSUME NEW p \in R PROVE p \in S
    <3>1. p[1] \in ToSet(old) /\ p[2] \in ToSet(old)
      BY DEF Api!Precedes, ToSet
    <3> QED
      BY <2>2, <3>1
  <2>4. ASSUME NEW x \in ToSet(old), NEW y \in ToSet(old), <<x, y>> \in S PROVE <<x, y>> \in R
    BY <2>2, <2>4
  <2> HIDE DEF R, S
  <2> QED
    BY <2>1, <2>3, <2>4 DEF Extends
<1> QED
  BY <1>1, <1>2

LEMMA SortedConcat ==
    ASSUME NEW W, NEW s \in Seq(W), NEW t \in Seq(W), NEW R, RespectsOrder(s, R), RespectsOrder(t, R),
           \A x \in ToSet(s), y \in ToSet(t) : <<x, y>> \in R
    PROVE  RespectsOrder(s \o t, R)
<1> DEFINE m == Len(s)
           n == Len(t)
           u == s \o t
<1>1. m \in Nat /\ n \in Nat /\ Len(u) = m + n /\ DOMAIN s = 1..m /\ DOMAIN t = 1..n
  OBVIOUS
<1>2. \A i \in 1..m + n : u[i] = IF i <= m THEN s[i] ELSE t[i - m]
  OBVIOUS
<1>3. (\A i \in 1..m : s[i] \in ToSet(s)) /\ (\A i \in 1..n : t[i] \in ToSet(t))
  BY <1>1 DEF ToSet
<1>4. \A k, l \in 1..m : k < l => <<s[k], s[l]>> \in R
  BY DEF RespectsOrder
<1>5. \A k, l \in 1..n : k < l => <<t[k], t[l]>> \in R
  BY DEF RespectsOrder
<1> HIDE DEF m, n, u
<1>6. ASSUME NEW k \in 1..m + n, NEW l \in 1..m + n, k < l PROVE <<u[k], u[l]>> \in R
  <2>1. CASE l <= m
    <3>1. k \in 1..m /\ l \in 1..m /\ u[k] = s[k] /\ u[l] = s[l]
      BY <1>1, <1>2, <1>6, <2>1
    <3> QED
      BY <1>4, <1>6, <3>1
  <2>2. CASE k > m
    <3>1. k - m \in 1..n /\ l - m \in 1..n /\ k - m < l - m
      BY <1>1, <1>6, <2>2
    <3>2. u[k] = t[k - m] /\ u[l] = t[l - m]
      BY <1>1, <1>2, <1>6, <2>2
    <3> QED
      BY <1>5, <3>1, <3>2
  <2>3. CASE k <= m /\ l > m
    <3>1. k \in 1..m /\ l - m \in 1..n /\ u[k] = s[k] /\ u[l] = t[l - m]
      BY <1>1, <1>2, <2>3
    <3> QED
      BY <1>3, <3>1
  <2> QED
    BY <1>1, <2>1, <2>2, <2>3
<1>7. \A k, l \in 1..Len(u) : k < l => <<u[k], u[l]>> \in R
  BY <1>1, <1>6
<1> QED
  BY <1>7 DEF RespectsOrder, u

\* The page of a sorted list: what comes in it after the cursor, up to the next one.
LEMMA PageOfSorted ==
    ASSUME NEW W, 0 \notin W, NEW R, IsOrderOf(R, W), NEW list \in Seq(W), RespectsOrder(list, R),
           NEW query, NEW from, query.cursor \in {0} \cup ToSet(list), query.perPage \in Nat,
           query.perPage = 0 => query.cursor = 0,
           NEW page, page = Api!PageOf(list, query, from)
    PROVE  /\ page.items \in Seq(W) /\ ToSet(page.items) \subseteq ToSet(list)
           /\ RespectsOrder(page.items, R)
           /\ \A x \in ToSet(page.items) : query.cursor = 0 \/ <<query.cursor, x>> \in R
           /\ page.next # 0 => page.items # <<>> /\ page.next = Last(page.items)
           /\ \A x \in ToSet(list) :
                 /\ query.cursor = 0 \/ <<query.cursor, x>> \in R
                 /\ page.next = 0 \/ x = page.next \/ <<x, page.next>> \in R
                 => x \in ToSet(page.items)
<1> DEFINE n == Len(list)
           cursor == query.cursor
           size == query.perPage
           start == Api!StartIndex(list, cursor)
<1>1. n \in Nat /\ DOMAIN list = 1..n /\ \A i \in 1..n : list[i] \in W
  OBVIOUS
<1>2. ToSet(list) = {list[i] : i \in 1..n}
  BY <1>1 DEF ToSet
<1>3. /\ start \in 0..n
      /\ IF cursor = 0 THEN start = 0 ELSE start # 0 /\ list[start] = cursor
  <2>1. CASE cursor = 0
    BY <1>1, <2>1 DEF Api!StartIndex
  <2>2. CASE cursor # 0
    <3> DEFINE places == {i \in DOMAIN list : list[i] = cursor}
    <3>1. places # {} /\ places \subseteq Nat
      BY <1>1, <1>2, <2>2
    <3>2. Min(places) \in places
      <4> HIDE DEF places
      <4> QED
        BY <3>1, MinIsSmallest
    <3>3. start = Min(places)
      BY <2>2, <3>1, ApiLists DEF Api!StartIndex
    <3> QED
      BY <1>1, <2>2, <3>2, <3>3
  <2> QED
    BY <2>1, <2>2
<1> HIDE DEF n, start
<1>4. \A i, j \in 1..n : i < j => <<list[i], list[j]>> \in R
  BY DEF RespectsOrder, n
<1>5. \A i \in 1..n : cursor # 0 /\ <<cursor, list[i]>> \in R => start < i
  <2> SUFFICES ASSUME NEW i \in 1..n, cursor # 0, <<cursor, list[i]>> \in R, i <= start PROVE FALSE
    BY <1>1, <1>3
  <2>1. start \in 1..n /\ list[start] = cursor
    BY <1>1, <1>3
  <2>2. CASE i = start
    BY <1>1, <2>1, <2>2 DEF IsOrderOf
  <2>3. CASE i < start
    <3>1. <<list[i], cursor>> \in R
      BY <1>4, <2>1, <2>3
    <3>2. list[i] \in W /\ cursor \in W
      BY <1>1, <2>1
    <3> QED
      BY <3>1, <3>2 DEF IsOrderOf
  <2> QED
    BY <1>1, <2>1, <2>2, <2>3
<1>6. CASE size = 0
  <2>1. page.items = list /\ page.next = 0
    BY <1>6 DEF Api!PageOf
  <2> QED
    BY <1>6, <2>1
<1>7. CASE size # 0
  <2> DEFINE end == IF start + size <= n THEN start + size ELSE n
             items == page.items
  <2>1. end \in start..n
    BY <1>1, <1>3, <1>7
  <2>2. Api!Min({start + size, n}) = end
    <3>1. \A S : Api!Min(S) = Ranges!Min(S)
      BY DEF Api!Min, Ranges!Min
    <3>2. start + size \in Int /\ n \in Int
      BY <1>1, <1>3
    <3> QED
      BY <3>1, <3>2, SmallerOfTwo
  <2>3. items = SubSeq(list, start + 1, end) /\ page.next = Api!NextCursor(items, n, start, size)
    <3> HIDE DEF end
    <3> QED
      BY <1>7, <2>2 DEF Api!PageOf, start, n
  <2>4. /\ items \in Seq(W) /\ Len(items) = end - start
        /\ \A i \in 1..end - start : items[i] = list[start + i]
    <3> HIDE DEF end, items
    <3>1. start \in Nat /\ end \in Nat /\ start <= end /\ end <= n
      BY <1>1, <1>3, <2>1
    <3>2. \A i \in start + 1..end : i \in 1..n
      BY <1>1, <3>1
    <3>3. Len(SubSeq(list, start + 1, end)) = end - start
          /\ \A i \in 1..end - start : SubSeq(list, start + 1, end)[i] = list[start + i]
      BY <1>1, <3>1
    <3>4. SubSeq(list, start + 1, end) \in Seq(W)
      BY <1>1, <3>1, <3>2
    <3> QED
      BY <2>3, <3>3, <3>4
  <2>5. PICK last \in start..n : last = end
    BY <2>1
  <2>6. last = n \/ last = start + size
    BY <2>5
  <2> HIDE DEF end, items
  <2>7. DOMAIN items = 1..last - start
    BY <2>4, <2>5
  <2>8. ToSet(items) = {list[i] : i \in start + 1..last}
    <3>1. ASSUME NEW i \in 1..last - start PROVE items[i] \in {list[j] : j \in start + 1..last}
      <4>1. start + i \in start + 1..last
        BY <1>3
      <4> QED
        BY <2>4, <2>5, <4>1
    <3>2. ASSUME NEW j \in start + 1..last PROVE list[j] \in ToSet(items)
      <4>1. j - start \in 1..last - start /\ start + (j - start) = j
        BY <1>3
      <4> QED
        BY <2>4, <2>5, <2>7, <4>1 DEF ToSet
    <3> QED
      BY <2>7, <3>1, <3>2 DEF ToSet
  <2>9. start + 1..last \subseteq 1..n
    BY <1>1, <1>3
  <2>10. ToSet(items) \subseteq ToSet(list)
    BY <1>2, <2>8, <2>9
  <2>11. RespectsOrder(items, R)
    <3> SUFFICES ASSUME NEW k \in 1..last - start, NEW l \in 1..last - start, k < l
                 PROVE  <<items[k], items[l]>> \in R
      BY <2>4, <2>5 DEF RespectsOrder
    <3>1. start + k \in 1..n /\ start + l \in 1..n /\ start + k < start + l
      BY <1>1, <1>3
    <3> QED
      BY <1>4, <2>4, <2>5, <3>1
  <2>12. \A x \in ToSet(items) : cursor = 0 \/ <<cursor, x>> \in R
    <3> SUFFICES ASSUME NEW j \in start + 1..last, cursor # 0 PROVE <<cursor, list[j]>> \in R
      BY <2>8
    <3>1. start \in 1..n /\ j \in 1..n /\ start < j /\ list[start] = cursor
      BY <1>1, <1>3
    <3> QED
      BY <1>4, <3>1
  <2>13. CASE last = n /\ page.next = 0
    <3>1. ASSUME NEW x \in ToSet(list), cursor = 0 \/ <<cursor, x>> \in R PROVE x \in ToSet(items)
      <4>1. PICK j \in 1..n : x = list[j]
        BY <1>2
      <4>2. start < j
        BY <1>1, <1>3, <1>5, <3>1, <4>1
      <4>3. j \in start + 1..last
        BY <1>1, <1>3, <2>13, <4>2
      <4> QED
        BY <2>8, <4>1, <4>3
    <3> QED
      BY <2>4, <2>10, <2>11, <2>12, <2>13, <3>1 DEF items
  <2>14. CASE page.next # 0
    <3>1. Len(items) = size /\ page.next = Last(items)
      BY <2>3, <2>14, ApiLists DEF Api!NextCursor
    <3>2. last - start \in Nat \ {0} /\ Last(items) = items[last - start]
      BY <1>3, <1>7, <2>4, <2>5, <3>1 DEF Last
    <3>3. items # <<>> /\ page.next = list[last] /\ last \in 1..n
      <4>1. last - start \in 1..last - start /\ start + (last - start) = last
        BY <1>3, <3>2
      <4>2. items # <<>>
        BY <2>7, <3>2
      <4> QED
        BY <1>1, <1>3, <2>4, <2>5, <3>1, <3>2, <4>1, <4>2
    <3>4. ASSUME NEW x \in ToSet(list), cursor = 0 \/ <<cursor, x>> \in R,
                 x = page.next \/ <<x, page.next>> \in R
          PROVE  x \in ToSet(items)
      <4>1. PICK j \in 1..n : x = list[j]
        BY <1>2
      <4>2. start < j
        BY <1>1, <1>3, <1>5, <3>4, <4>1
      <4>3. CASE j <= last
        <5>1. j \in start + 1..last
          BY <1>1, <1>3, <4>2, <4>3
        <5> QED
          BY <2>8, <4>1, <5>1
      <4>4. CASE j > last
        <5>1. <<list[last], list[j]>> \in R /\ list[last] \in W /\ list[j] \in W
          BY <1>1, <1>4, <3>3, <4>4
        <5> QED
          BY <3>3, <3>4, <4>1, <5>1 DEF IsOrderOf
      <4> QED
        BY <1>1, <1>3, <4>3, <4>4
    <3> QED
      BY <2>4, <2>10, <2>11, <2>12, <2>14, <3>1, <3>3, <3>4 DEF items
  <2>15. CASE last # n /\ page.next = 0
    <3>1. last = start + size /\ last < n
      BY <1>1, <1>3, <2>6, <2>15
    <3>2. Len(items) = size /\ start + size < n
      BY <1>3, <2>4, <2>5, <3>1
    <3>3. page.next = Last(items)
      BY <2>3, <3>2, ApiLists DEF Api!NextCursor
    <3>4. size \in 1..last - start
      BY <1>3, <1>7, <3>1
    <3>5. Last(items) \in W
      BY <2>4, <2>5, <3>2, <3>4 DEF Last
    <3> QED
      BY <2>15, <3>3, <3>5
  <2> QED
    BY <2>13, <2>14, <2>15
<1> QED
  BY <1>6, <1>7

ApiPages == [items : Seq(ApiTokens), next : ApiTokens \cup {0}, from : SUBSET ApiTokens]
AskedQueries == [filter : Filters, cursor : ApiTokens \cup {0}, perPage : PerPages]
ApiQueries == [filter : Filters \cup {<<>>}, cursor : ApiTokens \cup {0}, perPage : PerPages \cup {0}]
ApiWalks == [pc : {"idle", "asking", "listing", "answered", "done"}, query : ApiQueries,
             docs : Seq(ApiTokens), from : SUBSET ApiTokens, page : ApiPages \cup {NoPage},
             seen : Seq(ApiTokens), since : SUBSET ApiTokens]

WalkTyped(walk) ==
    /\ walk \in ApiWalks
    /\ walk.pc # "idle" => walk.query \in AskedQueries
    /\ walk.pc = "answered" => walk.page \in ApiPages

\* A page has what is wanted after its cursor, up to the next one, of all
\* that were listed when it was made.  R is the order of the list.
PageGood(page, query, R, all) ==
    LET wanted == Api!Wanted(query.filter)
    IN  /\ page.from \subseteq all
        /\ page.items \in Seq(all \cap wanted)
        /\ RespectsOrder(page.items, R)
        /\ query.cursor # 0 => query.cursor \in all
        /\ \A x \in ToSet(page.items) : query.cursor = 0 \/ <<query.cursor, x>> \in R
        /\ page.next # 0 => page.items # <<>> /\ page.next = Last(page.items)
        /\ query.perPage = 0 => page.next = 0
        /\ \A x \in page.from \cap wanted :
              /\ query.cursor = 0 \/ <<query.cursor, x>> \in R
              /\ page.next = 0 \/ x = page.next \/ <<x, page.next>> \in R
              => x \in ToSet(page.items)

\* What a walk has seen up to its cursor.
Progress(walk, R, all) ==
    LET wanted == Api!Wanted(walk.query.filter)
        cursor == walk.query.cursor
    IN  /\ walk.seen \in Seq(all \cap wanted)
        /\ RespectsOrder(walk.seen, R)
        /\ IF cursor = 0 THEN walk.seen = <<>> ELSE walk.seen # <<>> /\ cursor = Last(walk.seen)
        /\ cursor # 0 => walk.since \subseteq all
        /\ cursor # 0 => \A x \in walk.since \cap wanted :
                            x = cursor \/ <<x, cursor>> \in R => x \in ToSet(walk.seen)
        /\ walk.query.perPage = 0 => cursor = 0

Finished(walk, R, all) ==
    LET wanted == Api!Wanted(walk.query.filter)
    IN  /\ walk.seen \in Seq(all \cap wanted)
        /\ RespectsOrder(walk.seen, R)
        /\ walk.since \cap wanted \subseteq ToSet(walk.seen)

\* The documents of the turns so far, which are in the order of their names.
DocsGood(walk, all) ==
    LET wanted == Api!Wanted(walk.query.filter)
    IN  /\ walk.docs \in Seq(all \cap wanted)
        /\ IsAscending(walk.docs)
        /\ \A x \in walk.from \cap wanted :
              walk.docs # <<>> /\ x <= Last(walk.docs) => x \in ToSet(walk.docs)

Listing(walk, byName, all) ==
    /\ walk.from \subseteq all
    /\ walk.query.cursor # 0 => walk.query.cursor \in walk.from \cap Api!Wanted(walk.query.filter)
    /\ byName => DocsGood(walk, all)

WalkGood(walk, byName, R, all) ==
    /\ walk.pc # "done" => Progress(walk, R, all)
    /\ walk.pc = "asking" => walk.docs = <<>>
    /\ walk.pc = "listing" => Listing(walk, byName, all)
    /\ walk.pc = "answered" => PageGood(walk.page, walk.query, R, all)
    /\ walk.pc = "done" => Finished(walk, R, all)

ApiTypes ==
    /\ endpoint \in {"prices", "maps"}
    /\ tokenList \in Seq(ApiTokens) /\ IsInjective(tokenList)
    /\ removed \in BOOLEAN /\ moved \in BOOLEAN
    /\ pages \in [Api!CacheKeys -> ApiPages \cup {NoPage}]
    /\ client \in [Clients -> ApiWalks]
    /\ \A c \in Clients : WalkTyped(client[c])

\* No filter names a token twice, and two filters that begin with the same
\* token are the same: then the key of the cache tells queries apart.
FiltersDiffer ==
    /\ \A f \in Filters : IsInjective(f)
    /\ \A f, g \in Filters : f # <<>> /\ g # <<>> /\ f[1] = g[1] => f = g

\* The order of a list as it is now.
OrderNow(filter) == OrderOf(filter, endpoint = "maps", tokenList)

CacheGood ==
    \A q \in AskedQueries :
        Api!Steady(q.filter) /\ pages[Api!CacheKey(q)] # NoPage =>
            PageGood(pages[Api!CacheKey(q)], q, OrderNow(q.filter), ToSet(tokenList))

\* The walk is good, unless a new file got in its way.
GoodNow(walk) ==
    Api!Steady(walk.query.filter) =>
        WalkGood(walk, endpoint = "maps", OrderNow(walk.query.filter), ToSet(tokenList))

ApiInv ==
    /\ ApiTypes
    /\ FiltersDiffer => CacheGood /\ \A c \in Clients : GoodNow(client[c])

LEMMA SeqGrows == ASSUME NEW S, NEW T, S \subseteq T, NEW s \in Seq(S) PROVE s \in Seq(T)
OBVIOUS

LEMMA LastElement == ASSUME NEW S, NEW s \in Seq(S), s # <<>> PROVE Last(s) \in S
<1>1. Len(s) \in 1..Len(s)
  OBVIOUS
<1> QED
  BY <1>1 DEF Last

LEMMA RespectsGrows ==
    ASSUME NEW R, NEW S, \A p \in R : p \in S, NEW s, RespectsOrder(s, R)
    PROVE  RespectsOrder(s, S)
BY DEF RespectsOrder

LEMMA PageGoodGrows ==
    ASSUME NEW page, NEW query, NEW R, NEW S, NEW all, NEW more,
           Extends(S, more, R, all), PageGood(page, query, R, all)
    PROVE  PageGood(page, query, S, more)
<1> DEFINE W == Api!Wanted(query.filter)
<1>1. page.items \in Seq(more \cap W)
  <2>1. page.items \in Seq(all \cap W)
    BY DEF PageGood
  <2>2. all \cap W \subseteq more \cap W
    BY DEF Extends
  <2> QED
    BY <2>1, <2>2, SeqGrows
<1>2. RespectsOrder(page.items, S)
  BY RespectsGrows DEF PageGood, Extends
<1>3. page.next # 0 => page.next \in all
  <2>1. page.items \in Seq(all \cap W) /\ (page.next # 0 => page.items # <<>> /\ page.next = Last(page.items))
    BY DEF PageGood
  <2> QED
    BY <2>1, LastElement
<1>4. ASSUME NEW x \in page.from \cap W, query.cursor = 0 \/ <<query.cursor, x>> \in S,
             page.next = 0 \/ x = page.next \/ <<x, page.next>> \in S
      PROVE  x \in ToSet(page.items)
  <2>1. x \in all /\ (query.cursor # 0 => query.cursor \in all)
    BY DEF PageGood
  <2>2. query.cursor = 0 \/ <<query.cursor, x>> \in R
    BY <1>4, <2>1 DEF Extends
  <2>3. page.next = 0 \/ x = page.next \/ <<x, page.next>> \in R
    BY <1>3, <1>4, <2>1 DEF Extends
  <2> QED
    BY <1>4, <2>2, <2>3 DEF PageGood
<1> QED
  BY <1>1, <1>2, <1>4 DEF PageGood, Extends

LEMMA ProgressGrows ==
    ASSUME NEW walk, NEW R, NEW S, NEW all, NEW more, Extends(S, more, R, all), Progress(walk, R, all)
    PROVE  Progress(walk, S, more)
<1> DEFINE W == Api!Wanted(walk.query.filter)
           cursor == walk.query.cursor
<1>1. walk.seen \in Seq(all \cap W) /\ RespectsOrder(walk.seen, R)
      /\ IF cursor = 0 THEN walk.seen = <<>> ELSE walk.seen # <<>> /\ cursor = Last(walk.seen)
  BY DEF Progress
<1>2. walk.seen \in Seq(more \cap W) /\ RespectsOrder(walk.seen, S)
  <2>1. all \cap W \subseteq more \cap W
    BY DEF Extends
  <2>2. walk.seen \in Seq(more \cap W)
    BY <1>1, <2>1, SeqGrows
  <2> QED
    BY <1>1, <2>2, RespectsGrows DEF Extends
<1>3. cursor # 0 => cursor \in all
  BY <1>1, LastElement
<1>4. ASSUME cursor # 0, NEW x \in walk.since \cap W, x = cursor \/ <<x, cursor>> \in S
      PROVE  x \in ToSet(walk.seen)
  <2>1. x \in all
    BY <1>4 DEF Progress
  <2>2. x = cursor \/ <<x, cursor>> \in R
    BY <1>3, <1>4, <2>1 DEF Extends
  <2> QED
    BY <1>4, <2>2 DEF Progress
<1>5. cursor # 0 => walk.since \subseteq more
  BY DEF Progress, Extends
<1> QED
  BY <1>1, <1>2, <1>4, <1>5 DEF Progress

LEMMA WalkGoodGrows ==
    ASSUME NEW walk, NEW byName, NEW R, NEW S, NEW all, NEW more,
           Extends(S, more, R, all), WalkGood(walk, byName, R, all)
    PROVE  WalkGood(walk, byName, S, more)
<1> DEFINE W == Api!Wanted(walk.query.filter)
<1>1. all \cap W \subseteq more \cap W /\ all \subseteq more
  BY DEF Extends
<1>2. \A s \in Seq(all \cap W) : s \in Seq(more \cap W)
  BY <1>1, SeqGrows
<1>3. Progress(walk, R, all) => Progress(walk, S, more)
  BY ProgressGrows
<1>4. Listing(walk, byName, all) => Listing(walk, byName, more)
  BY <1>1, <1>2 DEF Listing, DocsGood
<1>5. Finished(walk, R, all) => Finished(walk, S, more)
  BY <1>2, RespectsGrows DEF Finished, Extends
<1>6. PageGood(walk.page, walk.query, R, all) => PageGood(walk.page, walk.query, S, more)
  BY PageGoodGrows
<1> QED
  BY <1>3, <1>4, <1>5, <1>6 DEF WalkGood

\* A page that a walk receives brings it to the next cursor, or to its end.
LEMMA PageReceived ==
    ASSUME NEW R, NEW all, NEW walk, NEW page, NEW next,
           IsOrderOf(R, all \cap Api!Wanted(walk.query.filter)),
           Progress(walk, R, all), PageGood(page, walk.query, R, all),
           next.query.filter = walk.query.filter, next.query.perPage = walk.query.perPage,
           next.query.cursor = page.next,
           next.seen = walk.seen \o page.items, next.since = walk.since \cap page.from
    PROVE  IF page.next = 0 THEN Finished(next, R, all) ELSE Progress(next, R, all)
<1> DEFINE W == Api!Wanted(walk.query.filter)
           V == all \cap W
           cursor == walk.query.cursor
           seen == walk.seen
           items == page.items
<1>1. IsOrderOf(R, V)
  OBVIOUS
<1>2. /\ seen \in Seq(V) /\ RespectsOrder(seen, R)
      /\ IF cursor = 0 THEN seen = <<>> ELSE seen # <<>> /\ cursor = Last(seen)
      /\ cursor # 0 => \A x \in walk.since \cap W : x = cursor \/ <<x, cursor>> \in R => x \in ToSet(seen)
      /\ walk.query.perPage = 0 => cursor = 0
      /\ cursor # 0 => walk.since \subseteq all
  BY DEF Progress
<1>3. /\ items \in Seq(V) /\ RespectsOrder(items, R)
      /\ \A x \in ToSet(items) : cursor = 0 \/ <<cursor, x>> \in R
      /\ page.next # 0 => items # <<>> /\ page.next = Last(items)
      /\ walk.query.perPage = 0 => page.next = 0
      /\ page.from \subseteq all
      /\ \A x \in page.from \cap W :
            /\ cursor = 0 \/ <<cursor, x>> \in R
            /\ page.next = 0 \/ x = page.next \/ <<x, page.next>> \in R
            => x \in ToSet(items)
  BY DEF PageGood
<1>0. \A x \in page.from \cap W : x \in V
  BY <1>3
<1> HIDE DEF V, W, cursor, seen, items
<1>4. ASSUME NEW x \in ToSet(seen), cursor # 0 PROVE x \in V /\ cursor \in V /\ (x = cursor \/ <<x, cursor>> \in R)
  <2>1. PICK i \in 1..Len(seen) : x = seen[i]
    BY <1>2 DEF ToSet
  <2>2. Len(seen) \in Nat /\ cursor = seen[Len(seen)] /\ Len(seen) \in 1..Len(seen)
    BY <1>2, <1>4, <2>1 DEF Last
  <2>3. i < Len(seen) => <<x, cursor>> \in R
    BY <1>2, <2>1, <2>2 DEF RespectsOrder
  <2>4. seen[i] \in V /\ seen[Len(seen)] \in V
    BY <1>2, <2>1, <2>2
  <2> QED
    BY <2>1, <2>2, <2>3, <2>4
<1>5. \A y \in ToSet(items) : y \in V
  BY <1>3 DEF ToSet
<1>6. \A x \in ToSet(seen), y \in ToSet(items) : <<x, y>> \in R
  <2>1. TAKE x \in ToSet(seen), y \in ToSet(items)
  <2>2. cursor # 0
    BY <1>2 DEF ToSet
  <2>3. x \in V /\ cursor \in V /\ y \in V /\ (x = cursor \/ <<x, cursor>> \in R) /\ <<cursor, y>> \in R
    BY <1>3, <1>4, <1>5, <2>2
  <2> QED
    BY <1>1, <2>3 DEF IsOrderOf
<1>7. seen \o items \in Seq(V)
  BY <1>2, <1>3
<1>8. RespectsOrder(seen \o items, R)
  BY <1>2, <1>3, <1>6, SortedConcat
<1>9. ToSet(seen \o items) = ToSet(seen) \cup ToSet(items)
  BY <1>2, <1>3, ConcatElements
<1>10. ASSUME NEW x \in (walk.since \cap page.from) \cap W,
              page.next = 0 \/ x = page.next \/ <<x, page.next>> \in R
       PROVE  x \in ToSet(seen \o items)
  <2>1. CASE cursor = 0 \/ <<cursor, x>> \in R
    BY <1>3, <1>9, <1>10, <2>1
  <2>2. CASE cursor # 0 /\ <<cursor, x>> \notin R
    <3>1. cursor \in V
      <4>1. Last(seen) \in ToSet(seen)
        <5>1. Len(seen) \in 1..Len(seen) /\ DOMAIN seen = 1..Len(seen)
          BY <1>2, <2>2
        <5> QED
          BY <5>1 DEF Last, ToSet
      <4> QED
        BY <1>2, <1>4, <2>2, <4>1
    <3>2. x = cursor \/ <<x, cursor>> \in R
      BY <1>0, <1>1, <1>10, <2>2, <3>1 DEF IsOrderOf
    <3> QED
      BY <1>2, <1>9, <1>10, <2>2, <3>2
  <2> QED
    BY <2>1, <2>2
<1>11. CASE page.next = 0
  BY <1>7, <1>8, <1>10, <1>11 DEF Finished, seen, items, V, W
<1>12. CASE page.next # 0
  <2>1. seen \o items # <<>> /\ Last(seen \o items) = Last(items)
    <3>1. Len(seen) \in Nat /\ Len(items) \in Nat \ {0} /\ Len(seen \o items) = Len(seen) + Len(items)
      BY <1>2, <1>3, <1>12
    <3>2. Len(seen) + Len(items) \in 1..Len(seen) + Len(items) /\ ~ (Len(seen) + Len(items) <= Len(seen))
          /\ Len(seen) + Len(items) - Len(seen) = Len(items)
      BY <3>1
    <3>3. (seen \o items)[Len(seen) + Len(items)] = items[Len(items)]
      BY <1>2, <1>3, <3>1, <3>2, ConcatProperties
    <3> QED
      BY <1>7, <3>1, <3>3 DEF Last
  <2>2. next.since \subseteq all
    BY <1>3
  <2> QED
    BY <1>3, <1>7, <1>8, <1>10, <1>12, <2>1, <2>2 DEF Progress, seen, items, V, W
<1> QED
  BY <1>11, <1>12

LEMMA KeyType == \A q \in AskedQueries : Api!CacheKey(q) \in Api!CacheKeys
<1> SUFFICES ASSUME NEW q \in AskedQueries PROVE Api!CacheKey(q) \in Api!CacheKeys
  OBVIOUS
<1>1. q.filter \in Seq(ApiTokens) /\ q.cursor \in ApiTokens \cup {0} /\ q.perPage \in PerPages
  BY ApiConstants DEF AskedQueries
<1>2. q.filter # <<>> => q.filter[1] \in ApiTokens
  BY <1>1
<1> QED
  BY <1>1, <1>2 DEF Api!CacheKey, Api!CacheKeys

LEMMA KeysTellApart ==
    ASSUME FiltersDiffer, NEW q \in AskedQueries, NEW r \in AskedQueries, Api!CacheKey(q) = Api!CacheKey(r)
    PROVE  q = r
<1>1. /\ q.filter \in Filters /\ r.filter \in Filters
      /\ q = [filter |-> q.filter, cursor |-> q.cursor, perPage |-> q.perPage]
      /\ r = [filter |-> r.filter, cursor |-> r.cursor, perPage |-> r.perPage]
  BY DEF AskedQueries
<1>2. q.filter \in Seq(ApiTokens) /\ r.filter \in Seq(ApiTokens) /\ 0 \notin ApiTokens
  BY <1>1, ApiConstants
<1>3. (q.filter # <<>> => q.filter[1] \in ApiTokens) /\ (r.filter # <<>> => r.filter[1] \in ApiTokens)
  BY <1>2
<1>4. /\ (IF q.filter = <<>> THEN 0 ELSE q.filter[1]) = (IF r.filter = <<>> THEN 0 ELSE r.filter[1])
      /\ q.cursor = r.cursor /\ q.perPage = r.perPage
  BY DEF Api!CacheKey
<1>5. q.filter = r.filter
  BY <1>1, <1>2, <1>3, <1>4 DEF FiltersDiffer
<1> QED
  BY <1>1, <1>4, <1>5

LEMMA NoWalkGood ==
    /\ WalkTyped(Api!NoWalk)
    /\ \A byName, R, all : WalkGood(Api!NoWalk, byName, R, all)
<1>1. <<>> \in Seq(ApiTokens)
  OBVIOUS
<1>2. Api!NoWalk.query = Api!NoQuery /\ Api!NoQuery \in ApiQueries
  BY DEF Api!NoWalk, Api!NoQuery, ApiQueries
<1>3. Api!NoWalk \in ApiWalks
  BY <1>1, <1>2 DEF Api!NoWalk, ApiWalks
<1>4. Api!NoWalk.pc = "idle" /\ Api!NoWalk.seen = <<>> /\ Api!NoWalk.query.cursor = 0
  BY DEF Api!NoWalk, Api!NoQuery
<1>5. ASSUME NEW R, NEW all PROVE Progress(Api!NoWalk, R, all)
  BY <1>4 DEF Progress, RespectsOrder
<1> QED
  BY <1>3, <1>4, <1>5 DEF WalkTyped, WalkGood

LEMMA ApiInit == Api!Init => ApiInv
<1> SUFFICES ASSUME Api!Init PROVE ApiInv
  OBVIOUS
<1>1. /\ endpoint \in {"prices", "maps"} /\ tokenList = <<>> /\ removed = FALSE /\ moved = FALSE
      /\ pages = [k \in Api!CacheKeys |-> NoPage] /\ client = [c \in Clients |-> Api!NoWalk]
  BY DEF Api!Init
<1>2. <<>> \in Seq(ApiTokens) /\ IsInjective(<<>>)
  BY DEF IsInjective
<1>3. Api!NoWalk \in ApiWalks
  BY NoWalkGood DEF WalkTyped
<1>4. ApiTypes
  BY <1>1, <1>2, <1>3, NoWalkGood DEF ApiTypes
<1>5. CacheGood
  BY <1>1, KeyType DEF CacheGood
<1>6. \A c \in Clients : GoodNow(client[c])
  BY <1>1, NoWalkGood DEF GoodNow
<1> QED
  BY <1>4, <1>5, <1>6 DEF ApiInv

\* The invariant looks at these variables only.
LEMMA SameLists ==
    ASSUME UNCHANGED <<endpoint, tokenList, removed, moved>>
    PROVE  /\ \A filter : OrderNow(filter)' = OrderNow(filter)
           /\ \A filter : Api!Steady(filter)' = Api!Steady(filter)
           /\ \A walk : GoodNow(walk)' = GoodNow(walk)
BY DEF OrderNow, Api!Steady, GoodNow

\* The tokens that are listed now.
LEMMA ListedTokens ==
    ASSUME ApiInv
    PROVE  ToSet(tokenList) \in SUBSET ApiTokens /\ IsFiniteSet(ToSet(tokenList))
<1>1. PICK tokens \in Seq(ApiTokens) : tokens = tokenList
  BY DEF ApiInv, ApiTypes
<1>2. ToSet(tokens) \subseteq ApiTokens
  BY DEF ToSet
<1>3. IsFiniteSet(ToSet(tokens))
  BY <1>2, ApiConstants, FS_Subset
<1> QED
  BY <1>1, <1>2, <1>3

\* A step of one walk.
LEMMA WalkAlone ==
    ASSUME ApiInv, NEW c \in Clients, NEW walk, WalkTyped(walk), FiltersDiffer => GoodNow(walk),
           client' = [client EXCEPT ![c] = walk], UNCHANGED <<endpoint, tokenList, removed, moved, pages>>
    PROVE  ApiInv'
<1>1. walk \in ApiWalks
  BY DEF WalkTyped
<1>2. /\ client' \in [Clients -> ApiWalks] /\ client'[c] = walk
      /\ \A d \in Clients \ {c} : client'[d] = client[d]
  BY <1>1 DEF ApiInv, ApiTypes
<1>3. ApiTypes'
  BY <1>2 DEF ApiInv, ApiTypes
<1>4. CacheGood' = CacheGood
  BY DEF CacheGood, OrderNow, Api!Steady
<1>5. \A d \in Clients : (FiltersDiffer => GoodNow(client'[d]))
  BY <1>2 DEF ApiInv
<1>6. ASSUME NEW d \in Clients PROVE FiltersDiffer => GoodNow(client[d])'
  <2>1. PICK next : next = client'[d]
    OBVIOUS
  <2>2. FiltersDiffer => GoodNow(next)
    BY <1>5, <2>1
  <2>3. GoodNow(client[d])' = GoodNow(next)
    BY <2>1 DEF GoodNow, OrderNow, Api!Steady
  <2> QED
    BY <2>2, <2>3
<1> QED
  BY <1>3, <1>4, <1>6 DEF ApiInv

LEMMA ApiStart == ASSUME ApiInv, NEW c \in Clients, Api!StartWalk(c) PROVE ApiInv'
<1>1. PICK filter \in Filters, perPage \in PerPages :
        client' = [client EXCEPT ![c] =
           [Api!NoWalk EXCEPT !.pc = "asking",
                              !.query = [filter |-> filter, cursor |-> 0, perPage |-> perPage]]]
  BY DEF Api!StartWalk
<1> DEFINE query == [filter |-> filter, cursor |-> 0, perPage |-> perPage]
           walk == [Api!NoWalk EXCEPT !.pc = "asking", !.query = query]
<1>2. query \in AskedQueries /\ query \in ApiQueries /\ query.cursor = 0
  BY DEF AskedQueries, ApiQueries
<1> HIDE DEF query
<1>3. /\ walk.pc = "asking" /\ walk.query = query /\ walk.docs = <<>> /\ walk.seen = <<>>
      /\ walk \in ApiWalks
  <2>1. Api!NoWalk \in ApiWalks /\ Api!NoWalk.docs = <<>> /\ Api!NoWalk.seen = <<>>
    BY NoWalkGood DEF WalkTyped, Api!NoWalk
  <2>2. PICK none \in ApiWalks : none = Api!NoWalk
    BY <2>1
  <2> QED
    BY <1>2, <2>1, <2>2 DEF ApiWalks
<1>4. client' = [client EXCEPT ![c] = walk] /\ UNCHANGED <<endpoint, tokenList, removed, moved, pages>>
  BY <1>1 DEF Api!StartWalk, query
<1> HIDE DEF walk
<1>5. WalkTyped(walk)
  BY <1>2, <1>3 DEF WalkTyped
<1>6. \A R, all : Progress(walk, R, all)
  BY <1>2, <1>3 DEF Progress, RespectsOrder
<1>7. GoodNow(walk)
  BY <1>3, <1>6 DEF WalkGood, GoodNow
<1> QED
  BY <1>4, <1>5, <1>7, WalkAlone

\* What the conclusions about a walk take of its filter and the list.
LEMMA OrderOfNow ==
    ASSUME ApiInv, FiltersDiffer, NEW query \in AskedQueries
    PROVE  IsOrderOf(OrderNow(query.filter), ToSet(tokenList) \cap Api!Wanted(query.filter))
<1>1. query.filter \in Seq(ApiTokens) /\ IsInjective(query.filter)
  BY ApiConstants DEF AskedQueries, FiltersDiffer
<1>2. PICK tokens \in Seq(ApiTokens), byName \in BOOLEAN :
        tokens = tokenList /\ byName = (endpoint = "maps") /\ IsInjective(tokens)
  BY DEF ApiInv, ApiTypes
<1>3. IsOrderOf(OrderOf(query.filter, byName, tokens), ToSet(tokens) \cap Api!Wanted(query.filter))
  BY <1>1, <1>2, OrderOfWanted
<1> QED
  BY <1>2, <1>3 DEF OrderNow

\* A page that is good, if no new file got in its way.
PageGoodNow(page, query) ==
    Api!Steady(query.filter) => PageGood(page, query, OrderNow(query.filter), ToSet(tokenList))

LEMMA Received ==
    ASSUME ApiInv, NEW c \in Clients, client[c].pc \in {"asking", "answered"}, NEW page \in ApiPages,
           FiltersDiffer => PageGoodNow(page, client[c].query)
    PROVE  /\ WalkTyped(Api!Receive(client[c], page))
           /\ FiltersDiffer => GoodNow(Api!Receive(client[c], page))
<1>1. PICK walk \in ApiWalks : walk = client[c] /\ WalkTyped(walk)
  BY DEF ApiInv, ApiTypes
<1>2. PICK steady \in BOOLEAN : steady = Api!Steady(walk.query.filter)
  BY DEF ApiInv, ApiTypes, Api!Steady
<1>3. PICK next : next = Api!Receive(walk, page)
  OBVIOUS
<1>4. page.items \in Seq(ApiTokens) /\ page.next \in ApiTokens \cup {0} /\ page.from \subseteq ApiTokens
  BY DEF ApiPages
<1> DEFINE query == [walk.query EXCEPT !.cursor = page.next]
           seen == IF steady THEN walk.seen \o page.items ELSE <<>>
           since == IF steady THEN walk.since \cap page.from ELSE {}
<1>5. walk.query \in AskedQueries /\ walk.seen \in Seq(ApiTokens) /\ walk.since \subseteq ApiTokens
  BY <1>1 DEF ApiWalks, WalkTyped
<1>6. /\ query \in AskedQueries /\ query \in ApiQueries /\ query.cursor = page.next
      /\ query.filter = walk.query.filter /\ query.perPage = walk.query.perPage
  BY <1>4, <1>5 DEF AskedQueries, ApiQueries
<1>7. seen \in Seq(ApiTokens) /\ since \subseteq ApiTokens
  BY <1>4, <1>5
<1>8. next = [walk EXCEPT !.pc = IF page.next = 0 THEN "done" ELSE "asking", !.query = query,
                          !.page = NoPage, !.docs = <<>>, !.from = {}, !.seen = seen, !.since = since]
  BY <1>1, <1>2, <1>3, <1>5 DEF Api!Receive, ApiWalks, AskedQueries
<1> HIDE DEF query, seen, since
<1>9. /\ next \in ApiWalks /\ next.query = query /\ next.docs = <<>> /\ next.seen = seen /\ next.since = since
      /\ next.pc = IF page.next = 0 THEN "done" ELSE "asking"
  <2>1. <<>> \in Seq(ApiTokens) /\ {} \in SUBSET ApiTokens
    OBVIOUS
  <2> QED
    BY <1>1, <1>6, <1>7, <1>8, <2>1 DEF ApiWalks
<1>10. WalkTyped(next)
  BY <1>6, <1>9 DEF WalkTyped
<1>11. ASSUME FiltersDiffer, Api!Steady(next.query.filter) PROVE GoodNow(next)
  <2>1. PICK filter : filter = walk.query.filter /\ filter = next.query.filter
    BY <1>6, <1>9
  <2>2. PICK byName, R, all : byName = (endpoint = "maps") /\ all = ToSet(tokenList) /\ R = OrderNow(filter)
    OBVIOUS
  <2>3. steady
    BY <1>2, <1>11, <2>1
  <2>4. WalkGood(walk, byName, R, all)
    BY <1>1, <1>11, <2>1, <2>2 DEF ApiInv, GoodNow
  <2>5. PageGood(page, walk.query, R, all)
    BY <1>1, <1>11, <2>1, <2>2 DEF PageGoodNow
  <2>6. Progress(walk, R, all)
    BY <1>1, <2>4 DEF WalkGood
  <2>7. IsOrderOf(R, all \cap Api!Wanted(walk.query.filter))
    BY <1>5, <1>11, <2>1, <2>2, OrderOfNow
  <2>8. next.seen = walk.seen \o page.items /\ next.since = walk.since \cap page.from
    BY <1>9, <2>3 DEF seen, since
  <2>9. IF page.next = 0 THEN Finished(next, R, all) ELSE Progress(next, R, all)
    BY <1>6, <1>9, <2>5, <2>6, <2>7, <2>8, PageReceived
  <2>10. WalkGood(next, byName, R, all)
    BY <1>9, <2>9 DEF WalkGood
  <2> QED
    BY <2>1, <2>2, <2>10 DEF GoodNow
<1>12. FiltersDiffer => GoodNow(next)
  BY <1>11 DEF GoodNow
<1> QED
  BY <1>1, <1>3, <1>10, <1>12

LEMMA ApiHit == ASSUME ApiInv, NEW c \in Clients, Api!Hit(c) PROVE ApiInv'
<1>1. PICK walk \in ApiWalks : walk = client[c] /\ WalkTyped(walk)
  BY DEF ApiInv, ApiTypes
<1>2. walk.pc = "asking" /\ walk.query \in AskedQueries
  BY <1>1 DEF Api!Hit, WalkTyped
<1>3. Api!CacheKey(walk.query) \in Api!CacheKeys
  BY <1>2, KeyType
<1>4. PICK page \in ApiPages : page = pages[Api!CacheKey(walk.query)] /\ page # NoPage
  BY <1>1, <1>3 DEF Api!Hit, ApiInv, ApiTypes
<1>5. FiltersDiffer => PageGoodNow(page, client[c].query)
  BY <1>1, <1>2, <1>4 DEF ApiInv, CacheGood, PageGoodNow
<1>6. PICK next : next = Api!Receive(client[c], page)
  OBVIOUS
<1>7. WalkTyped(next) /\ (FiltersDiffer => GoodNow(next))
  BY <1>1, <1>2, <1>5, <1>6, Received
<1>8. client' = [client EXCEPT ![c] = next] /\ UNCHANGED <<endpoint, tokenList, removed, moved, pages>>
  BY <1>1, <1>4, <1>6 DEF Api!Hit
<1> QED
  BY <1>7, <1>8, WalkAlone

LEMMA ApiStore == ASSUME ApiInv, NEW c \in Clients, Api!StorePage(c) PROVE ApiInv'
<1>1. PICK walk \in ApiWalks : walk = client[c] /\ WalkTyped(walk)
  BY DEF ApiInv, ApiTypes
<1>2. PICK page \in ApiPages : page = walk.page
  BY <1>1 DEF Api!StorePage, WalkTyped
<1>3. walk.pc = "answered" /\ walk.query \in AskedQueries
  BY <1>1 DEF Api!StorePage, WalkTyped
<1>4. FiltersDiffer => PageGoodNow(page, walk.query)
  BY <1>1, <1>2, <1>3 DEF ApiInv, WalkGood, GoodNow, PageGoodNow
<1>5. PICK next : next = Api!Receive(client[c], page)
  OBVIOUS
<1>6. WalkTyped(next) /\ (FiltersDiffer => GoodNow(next))
  BY <1>1, <1>3, <1>4, <1>5, Received
<1>7. /\ client' = [client EXCEPT ![c] = next] /\ UNCHANGED <<endpoint, tokenList, removed, moved>>
      /\ pages' = [pages EXCEPT ![Api!CacheKey(walk.query)] = page]
  BY <1>1, <1>2, <1>5 DEF Api!StorePage
<1>8. next \in ApiWalks
  BY <1>6 DEF WalkTyped
<1>9. /\ client' \in [Clients -> ApiWalks] /\ client'[c] = next
      /\ \A d \in Clients \ {c} : client'[d] = client[d]
  BY <1>7, <1>8 DEF ApiInv, ApiTypes
<1>10. ApiTypes'
  <2>1. pages' \in [Api!CacheKeys -> ApiPages \cup {NoPage}]
    BY <1>7 DEF ApiInv, ApiTypes
  <2> QED
    BY <1>6, <1>7, <1>9, <2>1 DEF ApiInv, ApiTypes
<1>11. ASSUME FiltersDiffer, NEW q \in AskedQueries, pages'[Api!CacheKey(q)] # NoPage
       PROVE  PageGoodNow(pages'[Api!CacheKey(q)], q)
  <2>1. Api!CacheKey(q) \in Api!CacheKeys
    BY KeyType
  <2>2. CASE Api!CacheKey(q) = Api!CacheKey(walk.query)
    <3>1. q = walk.query
      BY <1>3, <1>11, <2>2, KeysTellApart
    <3>2. pages'[Api!CacheKey(q)] = page
      BY <1>7, <2>1, <2>2 DEF ApiInv, ApiTypes
    <3> QED
      BY <1>4, <1>11, <3>1, <3>2
  <2>3. CASE Api!CacheKey(q) # Api!CacheKey(walk.query)
    <3>1. pages'[Api!CacheKey(q)] = pages[Api!CacheKey(q)]
      BY <1>7, <2>1, <2>3 DEF ApiInv, ApiTypes
    <3> QED
      BY <1>11, <3>1 DEF ApiInv, CacheGood, PageGoodNow
  <2> QED
    BY <2>2, <2>3
<1>12. FiltersDiffer => CacheGood'
  BY <1>7, <1>11 DEF CacheGood, PageGoodNow, OrderNow, Api!Steady
<1>13. ASSUME FiltersDiffer, NEW d \in Clients PROVE GoodNow(client[d])'
  <2>1. PICK other : other = client'[d]
    OBVIOUS
  <2>2. GoodNow(other)
    BY <1>6, <1>9, <1>13, <2>1 DEF ApiInv
  <2>3. GoodNow(client[d])' = GoodNow(other)
    BY <1>7, <2>1 DEF GoodNow, OrderNow, Api!Steady
  <2> QED
    BY <2>2, <2>3
<1> QED
  BY <1>10, <1>12, <1>13 DEF ApiInv

\* A list that changes and keeps what is steady steady.
LEMMA ListChanges ==
    ASSUME ApiInv, UNCHANGED <<endpoint, pages, client>>,
           tokenList' \in Seq(ApiTokens), IsInjective(tokenList'), removed' \in BOOLEAN, moved' \in BOOLEAN,
           ~removed' => ~removed /\ ToSet(tokenList) \subseteq ToSet(tokenList'),
           ~moved' => ~moved /\ (endpoint = "maps" \/ Api!SameOrder(tokenList, tokenList'))
    PROVE  ApiInv'
<1>1. ApiTypes'
  BY DEF ApiInv, ApiTypes
<1>2. PICK old \in Seq(ApiTokens), new \in Seq(ApiTokens), byName \in BOOLEAN :
        old = tokenList /\ new = tokenList' /\ byName = (endpoint = "maps")
  BY DEF ApiInv, ApiTypes
<1>3. \A filter : /\ OrderNow(filter) = OrderOf(filter, byName, old)
                  /\ OrderNow(filter)' = OrderOf(filter, byName, new)
  BY <1>2 DEF OrderNow
<1>4. ASSUME NEW filter \in Seq(ApiTokens), Api!Steady(filter)'
      PROVE  /\ Api!Steady(filter)
             /\ Extends(OrderOf(filter, byName, new), ToSet(new), OrderOf(filter, byName, old), ToSet(old))
  <2>1. ~removed' /\ (filter = <<>> => ~moved')
    BY <1>4 DEF Api!Steady
  <2>2. ToSet(old) \subseteq ToSet(new)
    BY <1>2, <2>1
  <2>3. byName \/ filter # <<>> \/ Api!SameOrder(old, new)
    BY <1>2, <2>1
  <2>4. Api!Steady(filter)
    BY <2>1 DEF Api!Steady
  <2> QED
    BY <2>2, <2>3, <2>4, OrderGrows
<1>5. ASSUME FiltersDiffer, NEW q \in AskedQueries, Api!Steady(q.filter)', pages[Api!CacheKey(q)] # NoPage
      PROVE  PageGood(pages[Api!CacheKey(q)], q, OrderOf(q.filter, byName, new), ToSet(new))
  <2>1. PICK page, filter : page = pages[Api!CacheKey(q)] /\ filter = q.filter /\ filter \in Seq(ApiTokens)
    BY ApiConstants DEF AskedQueries
  <2>2. /\ Api!Steady(filter)
        /\ Extends(OrderOf(filter, byName, new), ToSet(new), OrderOf(filter, byName, old), ToSet(old))
    BY <1>4, <1>5, <2>1
  <2>3. PageGood(page, q, OrderOf(filter, byName, old), ToSet(old))
    BY <1>2, <1>3, <1>5, <2>1, <2>2 DEF ApiInv, CacheGood
  <2>4. PageGood(page, q, OrderOf(filter, byName, new), ToSet(new))
    BY <2>2, <2>3, PageGoodGrows
  <2> QED
    BY <2>1, <2>4
<1>6. FiltersDiffer => CacheGood'
  BY <1>2, <1>3, <1>5 DEF CacheGood
<1>7. ASSUME FiltersDiffer, NEW c \in Clients PROVE GoodNow(client[c])'
  <2>1. PICK walk \in ApiWalks, filter \in Seq(ApiTokens) : walk = client[c] /\ filter = walk.query.filter
    <3>1. client[c] \in ApiWalks
      BY DEF ApiInv, ApiTypes
    <3>2. client[c].query.filter \in Filters \cup {<<>>}
      BY <3>1 DEF ApiWalks, ApiQueries
    <3>3. client[c].query.filter \in Seq(ApiTokens)
      <4>1. PICK given : given = client[c].query.filter /\ given \in Filters \cup {<<>>}
        BY <3>2
      <4>2. <<>> \in Seq(ApiTokens) /\ Filters \subseteq Seq(ApiTokens)
        BY ApiConstants
      <4>3. given \in Seq(ApiTokens)
        BY <4>1, <4>2
      <4> QED
        BY <4>1, <4>3
    <3> QED
      BY <3>1, <3>3
  <2>2. ASSUME Api!Steady(filter)' PROVE WalkGood(walk, byName, OrderOf(filter, byName, new), ToSet(new))
    <3>1. /\ Api!Steady(filter)
          /\ Extends(OrderOf(filter, byName, new), ToSet(new), OrderOf(filter, byName, old), ToSet(old))
      BY <1>4, <2>2
    <3>2. WalkGood(walk, byName, OrderOf(filter, byName, old), ToSet(old))
      BY <1>2, <1>3, <1>7, <2>1, <3>1 DEF ApiInv, GoodNow
    <3> QED
      BY <3>1, <3>2, WalkGoodGrows
  <2>3. client'[c] = walk
    BY <2>1
  <2> QED
    BY <1>2, <1>3, <2>1, <2>2, <2>3 DEF GoodNow
<1> QED
  BY <1>1, <1>6, <1>7 DEF ApiInv

LEMMA ApiAdd == ASSUME ApiInv, Api!AddDocument PROVE ApiInv'
<1>1. PICK t \in ApiTokens : tokenList' = Api!Ascending(Api!ToSet(tokenList) \cup {t})
  BY DEF Api!AddDocument
<1>2. UNCHANGED <<endpoint, removed, moved, pages, client>> /\ endpoint = "maps"
  BY DEF Api!AddDocument
<1>3. PICK old, new, more : /\ old \in Seq(ApiTokens) /\ old = tokenList /\ more = ToSet(old) \cup {t}
                            /\ new = tokenList' /\ new = Ascending(more)
  BY <1>1, ApiLists DEF ApiInv, ApiTypes
<1>4. more \subseteq ApiTokens /\ ToSet(old) \subseteq more
  BY <1>3 DEF ToSet
<1>5. IsFiniteSet(more) /\ more \subseteq Nat
  BY <1>4, ApiConstants, FS_Subset
<1>6. new \in Seq(more) /\ IsAscending(new) /\ ToSet(new) = more
  BY <1>3, <1>5, AscendingProperties
<1>7. new \in Seq(ApiTokens)
  BY <1>4, <1>6, SeqGrows
<1>8. IsInjective(new)
  <2>1. DOMAIN new = 1..Len(new) /\ Len(new) \in Nat /\ \A i \in 1..Len(new) : new[i] \in Nat
    <3>1. new \in Seq(Nat)
      BY <1>5, <1>6, SeqGrows
    <3> QED
      BY <3>1
  <2>2. \A i, j \in 1..Len(new) : i < j => new[i] < new[j]
    BY <1>6, <2>1 DEF IsAscending
  <2>3. \A i, j \in 1..Len(new) : new[i] = new[j] => i = j
    BY <2>1, <2>2
  <2> QED
    BY <2>1, <2>3 DEF IsInjective
<1>9. moved \in BOOLEAN /\ removed \in BOOLEAN
  BY DEF ApiInv, ApiTypes
<1> QED
  BY <1>2, <1>3, <1>4, <1>6, <1>7, <1>8, <1>9, ListChanges

LEMMA ApiNewFile == ASSUME ApiInv, Api!NewFile PROVE ApiInv'
<1>1. PICK now \in SUBSET ApiTokens \ {{}}, known \in SUBSET ApiTokens :
        \E new \in [1..Api!Cardinality(now) -> now] :
           /\ \A i, j \in DOMAIN new : i < j => Api!WrittenBefore(now, known, new[i], new[j])
           /\ tokenList' = new
           /\ removed' = (Api!ToSet(tokenList) \ Api!ToSet(new) # {})
           /\ moved' = (moved \/ ~Api!SameOrder(tokenList, new))
  BY DEF Api!NewFile
<1>2. PICK new \in [1..Api!Cardinality(now) -> now] :
           /\ \A i, j \in DOMAIN new : i < j => Api!WrittenBefore(now, known, new[i], new[j])
           /\ tokenList' = new
           /\ removed' = (Api!ToSet(tokenList) \ Api!ToSet(new) # {})
           /\ moved' = (moved \/ ~Api!SameOrder(tokenList, new))
  BY <1>1
<1>3. UNCHANGED <<endpoint, pages, client>> /\ endpoint = "prices" /\ ~removed
  BY DEF Api!NewFile
<1>4. \A S : Api!Cardinality(S) = Cardinality(S)
  BY DEF Api!Cardinality, Cardinality
<1>5. IsFiniteSet(now) /\ now \subseteq ApiTokens /\ now \subseteq Nat
  BY ApiConstants, FS_Subset
<1>6. Cardinality(now) \in Nat
  BY <1>5, FS_CardinalityType
<1>7. new \in Seq(ApiTokens)
  <2>1. PICK n \in Nat : n = Cardinality(now)
    BY <1>6
  <2>2. new \in [1..n -> now]
    BY <1>2, <1>4, <2>1
  <2>3. new \in Seq(now)
    BY <2>2
  <2> QED
    BY <1>5, <2>3, SeqGrows
<1>8. ASSUME NEW x \in now PROVE ~Api!WrittenBefore(now, known, x, x)
  <2> DEFINE place == Cardinality({u \in now : u < x}) \div CoinsPerBatch
  <2>1. IsFiniteSet({u \in now : u < x})
    BY <1>5, FS_Subset
  <2>2. Cardinality({u \in now : u < x}) \in Nat
    BY <2>1, FS_CardinalityType
  <2>3. place \in Int
    BY <2>2, ApiConstants
  <2>4. Api!WrittenBefore(now, known, x, x) =>
          \/ place < place
          \/ x \notin known /\ x \in known
          \/ x < x
    BY <1>4 DEF Api!WrittenBefore
  <2> HIDE DEF place
  <2> QED
    BY <1>5, <2>3, <2>4
<1>9. IsInjective(new)
  <2>1. DOMAIN new = 1..Cardinality(now) /\ \A i \in 1..Cardinality(now) : new[i] \in now
    BY <1>2, <1>4
  <2>2. \A i, j \in 1..Cardinality(now) : i < j => new[i] # new[j]
    BY <1>2, <1>8, <2>1
  <2>3. \A i, j \in 1..Cardinality(now) : new[i] = new[j] => i = j
    BY <1>6, <2>2
  <2> QED
    BY <2>1, <2>3 DEF IsInjective
<1>10. removed' \in BOOLEAN /\ moved' \in BOOLEAN
  BY <1>2 DEF ApiInv, ApiTypes
<1>11. ~removed' => ~removed /\ ToSet(tokenList) \subseteq ToSet(tokenList')
  BY <1>2, <1>3, ApiLists
<1>12. ~moved' => ~moved /\ Api!SameOrder(tokenList, tokenList')
  BY <1>2
<1> QED
  BY <1>2, <1>3, <1>7, <1>9, <1>10, <1>11, <1>12, ListChanges

LEMMA ApiExpire == ASSUME ApiInv, Api!Expire PROVE ApiInv'
<1>1. PICK k \in Api!CacheKeys : pages' = [pages EXCEPT ![k] = NoPage]
  BY DEF Api!Expire
<1>2. UNCHANGED <<endpoint, tokenList, removed, moved, client>>
  BY DEF Api!Expire
<1>3. ApiTypes'
  BY <1>1, <1>2 DEF ApiInv, ApiTypes
<1>4. \A q \in AskedQueries : pages'[Api!CacheKey(q)] # NoPage => pages'[Api!CacheKey(q)] = pages[Api!CacheKey(q)]
  BY <1>1, KeyType DEF ApiInv, ApiTypes
<1>5. CacheGood => CacheGood'
  BY <1>2, <1>4 DEF CacheGood, OrderNow, Api!Steady
<1>6. ASSUME NEW d \in Clients, GoodNow(client[d]) PROVE GoodNow(client[d])'
  BY <1>2, <1>6 DEF GoodNow, OrderNow, Api!Steady
<1> QED
  BY <1>3, <1>5, <1>6 DEF ApiInv

LEMMA ApiMiss == ASSUME ApiInv, NEW c \in Clients, Api!MissPage(c) PROVE ApiInv'
<1>1. PICK before \in ApiWalks : before = client[c] /\ WalkTyped(before) /\ before.pc = "asking"
  BY DEF ApiInv, ApiTypes, Api!MissPage
<1>2. PICK all, byName, R :
        /\ all \in SUBSET ApiTokens /\ all = ToSet(tokenList)
        /\ byName = (endpoint = "maps") /\ R = OrderNow(before.query.filter)
  BY ListedTokens
<1>3. client' = [client EXCEPT ![c].pc = "listing", ![c].from = all] /\ UNCHANGED <<endpoint, tokenList, removed, moved, pages>>
  BY <1>2, ApiLists DEF Api!MissPage
<1> DEFINE walk == [before EXCEPT !.pc = "listing", !.from = all]
<1>4. /\ walk \in ApiWalks /\ walk.pc = "listing" /\ walk.from = all
      /\ walk.query = before.query /\ walk.seen = before.seen /\ walk.docs = before.docs
      /\ walk.since = before.since
  BY <1>1, <1>2 DEF ApiWalks
<1>5. client' = [client EXCEPT ![c] = walk]
  BY <1>1, <1>3 DEF ApiInv, ApiTypes, ApiWalks
<1> HIDE DEF walk
<1>6. WalkTyped(walk)
  BY <1>1, <1>4 DEF WalkTyped
<1>7. ASSUME FiltersDiffer, Api!Steady(walk.query.filter) PROVE WalkGood(walk, byName, R, all)
  <2>1. Progress(before, R, all) /\ before.docs = <<>>
    BY <1>1, <1>2, <1>4, <1>7 DEF ApiInv, WalkGood, GoodNow
  <2>2. Progress(walk, R, all)
    BY <1>4, <2>1 DEF Progress
  <2>3. ASSUME walk.query.cursor # 0 PROVE walk.query.cursor \in all \cap Api!Wanted(walk.query.filter)
    <3> DEFINE seen == walk.seen
               W == Api!Wanted(walk.query.filter)
    <3>1. seen \in Seq(all \cap W) /\ seen # <<>> /\ walk.query.cursor = Last(seen)
      BY <2>2, <2>3 DEF Progress
    <3> HIDE DEF seen, W
    <3>2. Len(seen) \in 1..Len(seen)
      BY <3>1
    <3>3. Last(seen) \in all \cap W
      BY <3>1, <3>2 DEF Last
    <3> QED
      BY <3>1, <3>3 DEF W
  <2>4. DocsGood(walk, all)
    BY <1>4, <2>1 DEF DocsGood, IsAscending
  <2> QED
    BY <1>4, <2>2, <2>3, <2>4 DEF WalkGood, Listing
<1>8. FiltersDiffer => GoodNow(walk)
  BY <1>2, <1>4, <1>7 DEF GoodNow
<1> QED
  BY <1>3, <1>5, <1>6, <1>8, WalkAlone

LEMMA PageTyped ==
    ASSUME NEW list \in Seq(ApiTokens), NEW query, query.perPage \in Nat, NEW from, from \subseteq ApiTokens
    PROVE  Api!PageOf(list, query, from) \in ApiPages
<1> DEFINE n == Len(list)
           start == Api!StartIndex(list, query.cursor)
           size == query.perPage
           page == Api!PageOf(list, query, from)
           places == {i \in DOMAIN list : list[i] = query.cursor}
<1>1. n \in Nat /\ DOMAIN list = 1..n /\ \A i \in 1..n : list[i] \in ApiTokens
  OBVIOUS
<1>2. start \in 0..n
  <2>1. ASSUME places # {} PROVE Min(places) \in places
    <3>1. places \subseteq Nat
      BY <1>1
    <3> HIDE DEF places
    <3> QED
      BY <2>1, <3>1, MinIsSmallest
  <2>2. start = 0 \/ (places # {} /\ start = Min(places))
    BY ApiLists DEF Api!StartIndex
  <2> QED
    BY <1>1, <2>1, <2>2
<1>3. CASE size = 0
  BY <1>3 DEF Api!PageOf, ApiPages
<1>4. CASE size # 0
  <2> DEFINE end == IF start + size <= n THEN start + size ELSE n
             items == SubSeq(list, start + 1, end)
  <2> HIDE DEF start
  <2>1. Api!Min({start + size, n}) = end
    <3>1. \A S : Api!Min(S) = Ranges!Min(S)
      BY DEF Api!Min, Ranges!Min
    <3>2. start + size \in Int /\ n \in Int
      BY <1>1, <1>2
    <3> QED
      BY <3>1, <3>2, SmallerOfTwo
  <2>2. end \in start..n
    BY <1>1, <1>2, <1>4
  <2>3. page = [items |-> items, next |-> Api!NextCursor(items, n, start, size), from |-> from]
    <3> HIDE DEF end
    <3> QED
      BY <1>4, <2>1 DEF Api!PageOf, start
  <2> HIDE DEF end
  <2>4. start \in Nat /\ end \in Nat /\ end <= n
    BY <1>1, <1>2, <2>2
  <2>5. items \in Seq(ApiTokens)
    BY <1>1, <2>4
  <2> HIDE DEF items
  <2>6. Api!NextCursor(items, n, start, size) \in ApiTokens \cup {0}
    <3>1. CASE Len(items) = size
      <4>1. Len(items) \in 1..Len(items)
        BY <1>4, <2>5, <3>1
      <4>2. Last(items) \in ApiTokens
        BY <2>5, <4>1 DEF Last
      <4> QED
        BY <4>2, ApiLists DEF Api!NextCursor
    <3>2. CASE Len(items) # size
      BY <3>2 DEF Api!NextCursor
    <3> QED
      BY <3>1, <3>2
  <2> HIDE DEF page
  <2> QED
    BY <2>3, <2>5, <2>6 DEF ApiPages, page
<1> QED
  BY <1>3, <1>4

\* A list of all that is wanted gives good pages.
LEMMA PageOfList ==
    ASSUME NEW query \in AskedQueries, NEW R, NEW all, all \subseteq ApiTokens, NEW list, NEW from,
           IsOrderOf(R, all \cap Api!Wanted(query.filter)),
           list \in Seq(all \cap Api!Wanted(query.filter)),
           RespectsOrder(list, R),
           from \subseteq all, from \cap Api!Wanted(query.filter) \subseteq ToSet(list),
           query.cursor \in {0} \cup ToSet(list), query.perPage = 0 => query.cursor = 0
    PROVE  PageGood(Api!PageOf(list, query, from), query, R, all)
<1> DEFINE W == Api!Wanted(query.filter)
           page == Api!PageOf(list, query, from)
<1>1. query.filter \in Seq(ApiTokens) /\ query.perPage \in Nat
  BY ApiConstants DEF AskedQueries
<1>2. all \cap W \subseteq ApiTokens
  OBVIOUS
<1>3. 0 \notin all \cap W /\ IsOrderOf(R, all \cap W)
  BY <1>2, ApiConstants
<1>8. query.cursor # 0 => query.cursor \in all
  BY DEF ToSet
<1> HIDE DEF W, page
<1>4. list \in Seq(all \cap W) /\ RespectsOrder(list, R)
  BY DEF W
<1>5. /\ page.items \in Seq(all \cap W) /\ ToSet(page.items) \subseteq ToSet(list)
      /\ RespectsOrder(page.items, R)
      /\ \A x \in ToSet(page.items) : query.cursor = 0 \/ <<query.cursor, x>> \in R
      /\ page.next # 0 => page.items # <<>> /\ page.next = Last(page.items)
      /\ \A x \in ToSet(list) :
            /\ query.cursor = 0 \/ <<query.cursor, x>> \in R
            /\ page.next = 0 \/ x = page.next \/ <<x, page.next>> \in R
            => x \in ToSet(page.items)
  <2> DEFINE V == all \cap W
  <2>1. 0 \notin V /\ IsOrderOf(R, V) /\ list \in Seq(V)
    BY <1>3, <1>4
  <2> HIDE DEF V
  <2>2. page.items \in Seq(V)
    BY <1>1, <1>4, <2>1, PageOfSorted DEF page
  <2>3. /\ ToSet(page.items) \subseteq ToSet(list)
        /\ RespectsOrder(page.items, R)
        /\ \A x \in ToSet(page.items) : query.cursor = 0 \/ <<query.cursor, x>> \in R
        /\ page.next # 0 => page.items # <<>> /\ page.next = Last(page.items)
        /\ \A x \in ToSet(list) :
              /\ query.cursor = 0 \/ <<query.cursor, x>> \in R
              /\ page.next = 0 \/ x = page.next \/ <<x, page.next>> \in R
              => x \in ToSet(page.items)
    BY <1>1, <1>4, <2>1, PageOfSorted DEF page
  <2> QED
    BY <2>2, <2>3 DEF V
<1>6. page.from = from /\ (query.perPage = 0 => page.next = 0)
  BY DEF page, Api!PageOf
<1>7. \A x \in page.from \cap W : x \in ToSet(list)
  BY <1>6 DEF W
<1> QED
  BY <1>5, <1>6, <1>7, <1>8 DEF PageGood, W, page

\* What is sorted by name is so in the order of lists by name.
LEMMA AscendingRespects ==
    ASSUME NEW list \in Seq(ApiTokens), NEW filter, NEW tokens
    PROVE  RespectsOrder(list, OrderOf(filter, TRUE, tokens)) <=> IsAscending(list)
<1> DEFINE R == OrderOf(filter, TRUE, tokens)
<1>1. DOMAIN list = 1..Len(list) /\ \A i \in 1..Len(list) : list[i] \in ApiTokens
  OBVIOUS
<1>2. R = {p \in ApiTokens \X ApiTokens : p[1] < p[2]}
  BY DEF OrderOf
<1>3. \A x, y \in ApiTokens : <<x, y>> \in R <=> x < y
  BY <1>2
<1> HIDE DEF R
<1>4. RespectsOrder(list, R) <=> IsAscending(list)
  BY <1>1, <1>3 DEF RespectsOrder, IsAscending
<1> QED
  BY <1>4 DEF R

LEMMA ApiListPrices == ASSUME ApiInv, NEW c \in Clients, Api!ListPrices(c) PROVE ApiInv'
<1>1. PICK before \in ApiWalks : /\ before = client[c] /\ WalkTyped(before)
                                 /\ before.pc = "listing" /\ before.query \in AskedQueries
  BY DEF ApiInv, ApiTypes, Api!ListPrices, WalkTyped
<1>2. PICK tokens \in Seq(ApiTokens), all \in SUBSET ApiTokens :
        tokens = tokenList /\ IsInjective(tokens) /\ all = ToSet(tokens)
  BY ListedTokens DEF ApiInv, ApiTypes
<1>3. PICK query \in AskedQueries : query = before.query
  BY <1>1
<1> DEFINE filter == query.filter
           W == Api!Wanted(filter)
           R == OrderOf(filter, FALSE, tokens)
<1>4. filter \in Seq(ApiTokens) /\ query.perPage \in Nat /\ W \subseteq ApiTokens
  BY ApiConstants, WantedTokens DEF AskedQueries
<1>5. PICK list : /\ list = Api!FilteredPrices(filter)
                  /\ list = IF filter = <<>> THEN tokens ELSE Among(filter, all)
  BY <1>2, ApiLists DEF Api!FilteredPrices
<1> HIDE DEF filter
<1>6. list \in Seq(ApiTokens) /\ ToSet(list) = all \cap W
  <2>1. CASE filter = <<>>
    <3>1. W = ApiTokens
      BY <2>1 DEF Api!Wanted
    <3> QED
      BY <1>2, <1>5, <2>1, <3>1
  <2>2. CASE filter # <<>>
    <3>1. Among(filter, all) \in Seq(ApiTokens) /\ ToSet(Among(filter, all)) = ToSet(filter) \cap all
      BY <1>4, AmongProperties
    <3>2. W = ToSet(filter)
      BY <2>2, ApiLists DEF Api!Wanted
    <3> QED
      BY <1>5, <2>2, <3>1, <3>2
  <2> QED
    BY <2>1, <2>2
<1>7. list \in Seq(all \cap W)
  <2>1. DOMAIN list = 1..Len(list) /\ list = [i \in 1..Len(list) |-> list[i]] /\ Len(list) \in Nat
    BY <1>6
  <2>2. \A i \in 1..Len(list) : list[i] \in all \cap W
    BY <1>6, <2>1 DEF ToSet
  <2> QED
    BY <2>1, <2>2
<1>8. ASSUME FiltersDiffer PROVE RespectsOrder(list, R)
  <2>1. PICK s \in Seq(ApiTokens) : s = (IF filter = <<>> THEN tokens ELSE filter) /\ IsInjective(s)
    BY <1>2, <1>4, <1>8 DEF FiltersDiffer, AskedQueries, filter
  <2>2. R = {p \in ApiTokens \X ApiTokens : Api!Precedes(s, p[1], p[2])}
    BY <2>1 DEF OrderOf
  <2> HIDE DEF R
  <2>3. RespectsOrder(s, R)
    BY <2>1, <2>2, SequenceOrders
  <2>4. CASE filter = <<>>
    BY <1>5, <2>1, <2>3, <2>4
  <2>5. CASE filter # <<>>
    BY <1>4, <1>5, <2>1, <2>3, <2>5, AmongSorted
  <2> QED
    BY <2>4, <2>5
<1> HIDE DEF W, R
<1> DEFINE page == Api!PageOf(list, query, all)
           walk == [before EXCEPT !.pc = "answered", !.page = page]
<1>9. page \in ApiPages
  BY <1>2, <1>4, <1>6, PageTyped
<1>10. client' = [client EXCEPT ![c].pc = "answered", ![c].page = page] /\ UNCHANGED <<endpoint, tokenList, removed, moved, pages>>
  <2>1. client[c].query = query
    BY <1>1, <1>3
  <2> QED
    BY <1>2, <1>5, <2>1, ApiLists DEF Api!ListPrices, filter
<1> HIDE DEF page
<1>11. /\ walk \in ApiWalks /\ walk.pc = "answered" /\ walk.page = page /\ walk.query = before.query
       /\ walk.seen = before.seen /\ walk.since = before.since
  BY <1>1, <1>9 DEF ApiWalks
<1>12. client' = [client EXCEPT ![c] = walk]
  BY <1>1, <1>10 DEF ApiInv, ApiTypes, ApiWalks
<1> HIDE DEF walk
<1>13. WalkTyped(walk)
  BY <1>1, <1>9, <1>11 DEF WalkTyped
<1>14. endpoint # "maps"
  BY DEF Api!ListPrices
<1>15. R = OrderNow(walk.query.filter)
  BY <1>2, <1>3, <1>11, <1>14 DEF OrderNow, R, filter
<1>16. ASSUME FiltersDiffer, Api!Steady(walk.query.filter) PROVE WalkGood(walk, FALSE, R, all)
  <2>1. WalkGood(before, FALSE, R, all)
    BY <1>1, <1>2, <1>11, <1>14, <1>15, <1>16 DEF ApiInv, GoodNow
  <2>2. Progress(before, R, all) /\ Listing(before, FALSE, all)
    BY <1>1, <2>1 DEF WalkGood
  <2>3. Progress(walk, R, all)
    BY <1>11, <2>2 DEF Progress
  <2>4. query.cursor \in {0} \cup ToSet(list)
    BY <1>3, <1>6, <2>2 DEF Listing, W, filter
  <2>5. query.perPage = 0 => query.cursor = 0
    BY <1>3, <2>2 DEF Progress
  <2>6. IsOrderOf(R, all \cap Api!Wanted(query.filter))
    BY <1>2, <1>3, <1>11, <1>15, <1>16, OrderOfNow
  <2>7. /\ list \in Seq(all \cap Api!Wanted(query.filter)) /\ RespectsOrder(list, R)
        /\ all \cap Api!Wanted(query.filter) \subseteq ToSet(list)
    BY <1>6, <1>7, <1>8, <1>16 DEF W, filter
  <2>8. PageGood(page, query, R, all)
    BY <2>4, <2>5, <2>6, <2>7, PageOfList DEF page
  <2> QED
    BY <1>3, <1>11, <2>3, <2>8 DEF WalkGood
<1>17. FiltersDiffer => GoodNow(walk)
  BY <1>2, <1>14, <1>15, <1>16 DEF GoodNow
<1> QED
  BY <1>10, <1>12, <1>13, <1>17, WalkAlone

LEMMA ApiListMaps == ASSUME ApiInv, NEW c \in Clients, Api!ListMaps(c) PROVE ApiInv'
<1>1. PICK before \in ApiWalks : /\ before = client[c] /\ WalkTyped(before)
                                 /\ before.pc = "listing" /\ before.query \in AskedQueries
  BY DEF ApiInv, ApiTypes, Api!ListMaps, WalkTyped
<1>2. PICK all \in SUBSET ApiTokens : all = ToSet(tokenList) /\ IsFiniteSet(all) /\ all \subseteq Nat
  BY ListedTokens, ApiNumbers
<1>3. PICK query \in AskedQueries : query = before.query
  BY <1>1
<1>4. /\ query.filter \in Seq(ApiTokens) /\ query.perPage \in Nat
      /\ before.docs \in Seq(ApiTokens) /\ before.from \subseteq ApiTokens
  BY ApiConstants DEF AskedQueries, ApiWalks
<1> DEFINE W == Api!Wanted(query.filter)
           After == {t \in all \cap W : before.docs = <<>> \/ t > Last(before.docs)}
<1>5. PICK after : after = After /\ after \subseteq all \cap W /\ after \subseteq Nat /\ IsFiniteSet(after)
  <2>1. After \subseteq all \cap W /\ After \subseteq all
    OBVIOUS
  <2> HIDE DEF After
  <2>2. IsFiniteSet(After)
    BY <1>2, <2>1, FS_Subset
  <2> QED
    BY <1>2, <2>1, <2>2
<1>6. PICK found : /\ found = Ascending(after) /\ found \in Seq(after) /\ IsAscending(found)
                   /\ ToSet(found) = after
  BY <1>5, AscendingProperties
<1> DEFINE more == SubSeq(found, 1, Api!Min({DocLimit, Len(found)}))
<1>7. PICK m \in Nat : /\ m = Api!Min({DocLimit, Len(found)}) /\ m <= Len(found)
                       /\ Len(found) < DocLimit => m = Len(found)
                       /\ ~(Len(found) < DocLimit) => m >= 1
  <2>1. \A S : Api!Min(S) = Ranges!Min(S)
    BY DEF Api!Min, Ranges!Min
  <2>2. DocLimit \in Int /\ Len(found) \in Int /\ DocLimit >= 1 /\ Len(found) >= 0
    BY <1>6, ApiConstants
  <2>3. Api!Min({DocLimit, Len(found)}) = IF DocLimit <= Len(found) THEN DocLimit ELSE Len(found)
    BY <2>1, <2>2, SmallerOfTwo
  <2> QED
    BY <2>2, <2>3
<1>8. PICK docs : docs = before.docs \o SubSeq(found, 1, m)
  OBVIOUS
<1>9. Api!MatchingDocs(query.filter) = all \cap W
  BY <1>2, ApiLists DEF Api!MatchingDocs, Api!Wanted
<1> HIDE DEF W
<1>10. /\ client' = [client EXCEPT ![c] =
            IF Len(found) < DocLimit
            THEN [before EXCEPT !.pc = "answered", !.page = Api!PageOf(docs, query, before.from)]
            ELSE [before EXCEPT !.docs = docs]]
       /\ UNCHANGED <<endpoint, tokenList, removed, moved, pages>> /\ endpoint = "maps"
  <2>1. {t \in Api!MatchingDocs(client[c].query.filter) :
           client[c].docs = <<>> \/ t > Api!Last(client[c].docs)} = after
    BY <1>1, <1>3, <1>5, <1>9, ApiLists
  <2>2. Api!Ascending(after) = found
    BY <1>6, ApiLists
  <2> DEFINE set == {t \in Api!MatchingDocs(client[c].query.filter) :
                       client[c].docs = <<>> \/ t > Api!Last(client[c].docs)}
             sorted == Api!Ascending(set)
             list == client[c].docs \o SubSeq(sorted, 1, Api!Min({DocLimit, Len(sorted)}))
  <2>3. /\ client' = [client EXCEPT ![c] =
             IF Len(sorted) < DocLimit
             THEN [client[c] EXCEPT !.pc = "answered", !.page = Api!PageOf(list, client[c].query, client[c].from)]
             ELSE [client[c] EXCEPT !.docs = list]]
        /\ UNCHANGED <<endpoint, tokenList, removed, moved, pages>> /\ endpoint = "maps"
    BY Zenon DEF Api!ListMaps
  <2>4. sorted = found
    BY <2>1, <2>2
  <2> HIDE DEF sorted
  <2>5. list = docs
    BY <1>1, <1>7, <1>8, <2>4
  <2> HIDE DEF list
  <2> QED
    BY <1>1, <1>3, <2>3, <2>4, <2>5
<1>11. /\ SubSeq(found, 1, m) \in Seq(after) /\ Len(SubSeq(found, 1, m)) = m
       /\ \A i \in 1..m : SubSeq(found, 1, m)[i] = found[i]
  <2>1. found \in Seq(after) /\ m \in Nat /\ m <= Len(found) /\ \A i \in 1..Len(found) : found[i] \in after
    BY <1>6, <1>7
  <2>2. \A i \in 1..m : found[i] \in after
    BY <2>1
  <2>3. SubSeq(found, 1, m) \in Seq(after)
    BY <2>1, <2>2
  <2> QED
    BY <2>1, <2>3
<1>12. docs \in Seq(ApiTokens)
  <2>1. SubSeq(found, 1, m) \in Seq(ApiTokens)
    BY <1>5, <1>11, SeqGrows
  <2> QED
    BY <1>4, <1>8, <2>1
<1>13. \A i, j \in 1..Len(found) : i < j => found[i] < found[j]
  BY <1>6 DEF IsAscending
\* What this turn adds comes after the documents so far.
<1>14. ASSUME DocsGood(before, all)
       PROVE  /\ docs \in Seq(all \cap W) /\ IsAscending(docs)
              /\ ToSet(docs) = ToSet(before.docs) \cup ToSet(SubSeq(found, 1, m))
  <2> DEFINE R == {p \in ApiTokens \X ApiTokens : p[1] < p[2]}
             piece == SubSeq(found, 1, m)
  <2>1. \A x, y \in ApiTokens : <<x, y>> \in R <=> x < y
    OBVIOUS
  <2>2. before.docs \in Seq(all \cap W) /\ IsAscending(before.docs)
    BY <1>3, <1>14 DEF DocsGood, W
  <2>3. piece \in Seq(all \cap W)
    BY <1>5, <1>11, SeqGrows
  <2> HIDE DEF R, piece
  <2>4. all \cap W \subseteq ApiTokens
    OBVIOUS
  <2>5. RespectsOrder(before.docs, R)
    BY <1>4, <2>1, <2>2 DEF RespectsOrder, IsAscending
  <2>6. RespectsOrder(piece, R)
    <3>1. Len(piece) = m /\ \A i \in 1..m : piece[i] = found[i] /\ i \in 1..Len(found) /\ found[i] \in ApiTokens
      <4>1. Len(piece) = m /\ \A i \in 1..m : piece[i] = found[i]
        BY <1>11 DEF piece
      <4>2. \A i \in 1..Len(found) : found[i] \in after
        BY <1>6
      <4>3. \A i \in 1..m : i \in 1..Len(found)
        BY <1>6, <1>7
      <4> QED
        BY <1>5, <4>1, <4>2, <4>3
    <3> QED
      BY <1>13, <2>1, <3>1 DEF RespectsOrder
  <2>7. \A x \in ToSet(before.docs), y \in ToSet(piece) : <<x, y>> \in R
    <3> TAKE x \in ToSet(before.docs), y \in ToSet(piece)
    <3>1. PICK k \in 1..Len(before.docs) : x = before.docs[k]
      BY <1>4 DEF ToSet
    <3>2. y \in after
      BY <1>11 DEF piece, ToSet
    <3>3. before.docs # <<>> /\ Len(before.docs) \in Nat /\ Len(before.docs) \in 1..Len(before.docs)
      BY <1>4, <3>1
    <3>4. y > Last(before.docs) /\ Last(before.docs) = before.docs[Len(before.docs)]
      BY <1>5, <3>2, <3>3 DEF Last
    <3>5. x \in ApiTokens /\ before.docs[Len(before.docs)] \in ApiTokens /\ y \in ApiTokens
      BY <1>4, <1>5, <3>1, <3>2, <3>3
    <3>6. k = Len(before.docs) \/ x < before.docs[Len(before.docs)]
      BY <1>4, <2>2, <3>1, <3>3 DEF IsAscending
    <3>7. x \in Nat /\ y \in Nat /\ before.docs[Len(before.docs)] \in Nat
      BY <3>5, ApiConstants
    <3>8. x < y
      BY <3>1, <3>4, <3>6, <3>7
    <3> QED
      BY <2>1, <3>5, <3>8
  <2>8. docs = before.docs \o piece
    BY <1>8 DEF piece
  <2>9. RespectsOrder(docs, R) /\ docs \in Seq(all \cap W) /\ ToSet(docs) = ToSet(before.docs) \cup ToSet(piece)
    <3>1. RespectsOrder(before.docs \o piece, R)
      BY <2>2, <2>3, <2>5, <2>6, <2>7, SortedConcat
    <3>2. ToSet(before.docs \o piece) = ToSet(before.docs) \cup ToSet(piece)
      BY <2>2, <2>3, ConcatElements
    <3>3. before.docs \o piece \in Seq(all \cap W)
      BY <2>2, <2>3
    <3> QED
      BY <2>8, <3>1, <3>2, <3>3
  <2>10. IsAscending(docs)
    <3>1. DOMAIN docs = 1..Len(docs) /\ \A i \in 1..Len(docs) : docs[i] \in ApiTokens
      BY <1>12
    <3> QED
      BY <2>1, <2>9, <3>1 DEF RespectsOrder, IsAscending
  <2> QED
    BY <2>9, <2>10 DEF piece
\* No document that was there in the beginning is missed up to the last one.
<1>15. ASSUME DocsGood(before, all), before.from \subseteq all, NEW x \in before.from \cap W,
              Len(found) < DocLimit \/ x <= found[m]
       PROVE  x \in ToSet(docs)
  <2>1. x \in Nat /\ x \in all \cap W
    BY <1>2, <1>15
  <2>2. CASE before.docs # <<>> /\ x <= Last(before.docs)
    <3>1. x \in ToSet(before.docs)
      BY <1>3, <1>15, <2>2 DEF DocsGood, W
    <3> QED
      BY <1>14, <1>15, <3>1
  <2>3. CASE before.docs = <<>> \/ ~(x <= Last(before.docs))
    <3>1. x \in after
      <4>1. before.docs # <<>> => Last(before.docs) \in Nat
        <5>1. before.docs # <<>> => Len(before.docs) \in 1..Len(before.docs)
          BY <1>4
        <5>2. before.docs # <<>> => before.docs[Len(before.docs)] \in ApiTokens
          BY <1>4, <5>1
        <5>3. Last(before.docs) = before.docs[Len(before.docs)]
          BY DEF Last
        <5> QED
          BY <5>2, <5>3, ApiNumbers
      <4> QED
        BY <1>5, <2>1, <2>3, <4>1
    <3>2. PICK j \in 1..Len(found) : found[j] = x
      BY <1>6, <3>1 DEF ToSet
    <3>3. j <= m
      <4>1. CASE Len(found) < DocLimit
        BY <1>6, <1>7, <4>1
      <4>2. CASE ~(Len(found) < DocLimit)
        <5>1. m \in 1..Len(found) /\ found[m] \in Nat
          BY <1>5, <1>6, <1>7, <4>2
        <5>2. ~(m < j)
          <6> SUFFICES ASSUME m < j PROVE FALSE
            OBVIOUS
          <6>1. found[m] < x
            BY <1>13, <3>2, <5>1
          <6> QED
            BY <1>15, <2>1, <4>2, <5>1, <6>1
        <5> QED
          BY <1>6, <5>1, <5>2
      <4> QED
        BY <4>1, <4>2
    <3>4. j \in 1..m
      BY <1>6, <3>3
    <3>5. x \in ToSet(SubSeq(found, 1, m))
      <4> DEFINE piece == SubSeq(found, 1, m)
      <4>1. DOMAIN piece = 1..m /\ piece[j] = x
        BY <1>11, <3>2, <3>4
      <4> HIDE DEF piece
      <4>2. x \in ToSet(piece)
        BY <3>4, <4>1 DEF ToSet
      <4> QED
        BY <4>2 DEF piece
    <3> QED
      BY <1>14, <1>15, <3>5
  <2> QED
    BY <2>2, <2>3
\* The order the walk goes by.
<1> DEFINE R == OrderNow(query.filter)
<1>19. PICK tokens : tokens = tokenList /\ R = OrderOf(query.filter, TRUE, tokens)
  BY <1>10 DEF OrderNow
<1> HIDE DEF R
<1>16. FiltersDiffer /\ Api!Steady(query.filter) =>
         Progress(before, R, all) /\ Listing(before, TRUE, all) /\ DocsGood(before, all)
  BY <1>1, <1>2, <1>3, <1>10 DEF ApiInv, GoodNow, WalkGood, Listing, R
<1>17. CASE Len(found) < DocLimit
  <2> DEFINE page == Api!PageOf(docs, query, before.from)
             walk == [before EXCEPT !.pc = "answered", !.page = page]
  <2>1. page \in ApiPages
    BY <1>4, <1>12, PageTyped
  <2>2. client' = [client EXCEPT ![c] = walk]
    BY <1>10, <1>17
  <2> HIDE DEF page
  <2>3. /\ walk \in ApiWalks /\ walk.pc = "answered" /\ walk.page = page /\ walk.query = before.query
        /\ walk.seen = before.seen /\ walk.since = before.since
    BY <1>1, <2>1 DEF ApiWalks
  <2> HIDE DEF walk
  <2>4. WalkTyped(walk)
    BY <1>1, <2>1, <2>3 DEF WalkTyped
  <2>5. ASSUME FiltersDiffer, Api!Steady(query.filter) PROVE WalkGood(walk, TRUE, R, all)
    <3>1. Progress(before, R, all) /\ Listing(before, TRUE, all) /\ DocsGood(before, all)
      BY <1>16, <2>5
    <3>2. Progress(walk, R, all)
      BY <2>3, <3>1 DEF Progress
    <3>3. docs \in Seq(all \cap W) /\ IsAscending(docs)
      BY <1>14, <3>1
    <3>4. before.from \subseteq all /\ \A x \in before.from \cap W : x \in ToSet(docs)
      BY <1>15, <1>17, <3>1 DEF Listing
    <3>5. query.cursor \in {0} \cup ToSet(docs)
      BY <1>3, <3>1, <3>4 DEF Listing, W
    <3>6. query.perPage = 0 => query.cursor = 0
      BY <1>3, <3>1 DEF Progress
    <3>7. IsOrderOf(R, all \cap W)
      BY <1>2, <2>5, OrderOfNow DEF R, W
    <3>8. RespectsOrder(docs, R)
      BY <1>12, <1>19, <3>3, AscendingRespects
    <3>9. PageGood(page, query, R, all)
      BY <3>3, <3>4, <3>5, <3>6, <3>7, <3>8, PageOfList DEF page, W
    <3> QED
      BY <1>3, <2>3, <3>2, <3>9 DEF WalkGood
  <2>6. FiltersDiffer => GoodNow(walk)
    BY <1>2, <1>3, <1>10, <2>3, <2>5 DEF GoodNow, R
  <2> QED
    BY <1>10, <2>2, <2>4, <2>6, WalkAlone
<1>18. CASE ~(Len(found) < DocLimit)
  <2> DEFINE walk == [before EXCEPT !.docs = docs]
  <2>1. client' = [client EXCEPT ![c] = walk]
    BY <1>10, <1>18
  <2>2. /\ walk \in ApiWalks /\ walk.pc = "listing" /\ walk.docs = docs /\ walk.query = before.query
        /\ walk.seen = before.seen /\ walk.since = before.since /\ walk.from = before.from
    BY <1>1, <1>12 DEF ApiWalks
  <2> HIDE DEF walk
  <2>3. WalkTyped(walk)
    BY <1>1, <2>2 DEF WalkTyped
  <2>4. ASSUME FiltersDiffer, Api!Steady(query.filter) PROVE WalkGood(walk, TRUE, R, all)
    <3>1. Progress(before, R, all) /\ Listing(before, TRUE, all) /\ DocsGood(before, all)
      BY <1>16, <2>4
    <3>2. Progress(walk, R, all)
      BY <2>2, <3>1 DEF Progress
    <3>3. docs \in Seq(all \cap W) /\ IsAscending(docs)
      BY <1>14, <3>1
    <3>4. Last(docs) = found[m]
      <4>1. Len(before.docs) \in Nat /\ m \in 1..m /\ Len(docs) = Len(before.docs) + m
            /\ docs[Len(before.docs) + m] = SubSeq(found, 1, m)[m]
        <5> DEFINE piece == SubSeq(found, 1, m)
        <5>1. before.docs \in Seq(ApiTokens) /\ piece \in Seq(after) /\ Len(piece) = m /\ m >= 1
          BY <1>4, <1>7, <1>11, <1>18
        <5> HIDE DEF piece
        <5>2. docs = before.docs \o piece
          BY <1>8 DEF piece
        <5>3. docs[Len(before.docs) + m] = piece[m]
          BY <5>1, <5>2
        <5> QED
          BY <5>1, <5>2, <5>3 DEF piece
      <4> QED
        BY <1>11, <4>1 DEF Last
    <3>5. \A x \in before.from \cap W : x <= Last(docs) => x \in ToSet(docs)
      BY <1>15, <3>1, <3>4 DEF Listing
    <3>6. DocsGood(walk, all)
      BY <1>3, <2>2, <3>3, <3>5 DEF DocsGood, W
    <3> QED
      BY <2>2, <3>1, <3>2, <3>6 DEF WalkGood, Listing
  <2>5. FiltersDiffer => GoodNow(walk)
    BY <1>2, <1>3, <1>10, <2>2, <2>4 DEF GoodNow, R
  <2> QED
    BY <1>10, <2>1, <2>3, <2>5, WalkAlone
<1> QED
  BY <1>17, <1>18

LEMMA ApiNext == ASSUME ApiInv, Api!Next \/ UNCHANGED apiVars PROVE ApiInv'
<1>1. CASE UNCHANGED apiVars
  BY <1>1 DEF apiVars, ApiInv, ApiTypes, CacheGood, GoodNow, OrderNow, Api!Steady
<1> QED
  BY <1>1, ApiAdd, ApiNewFile, ApiExpire, ApiStart, ApiHit, ApiMiss, ApiListPrices, ApiListMaps, ApiStore DEF Api!Next


-----------------------------------------------------------------------------
(* The types of the parts, as far as the invariants above do not have them. *)

LEMMA DocumentConstants ==
    /\ Digests # {} /\ MinExpiresIn \in Nat \ {0} /\ DefaultExpiresIn \in Nat
    /\ CacheTtl \in Nat \ {0} /\ DeleteLimit \in Nat \ {0} /\ MaxSaves \in Nat /\ MaxCleanerFaults \in Nat
BY ServicesAssumption DEF Documents!TxMapAssumption

\* A reader that waits, and an entry that is gone.
LEMMA DocumentStarts ==
    /\ Documents!Waiting \in [pc : {"idle", "missed", "found"}, digest : Digests, version : 0..MaxSaves]
    /\ Documents!Nothing \in Documents!Entries(DefaultExpiresIn)
    /\ Documents!Nothing \in Documents!Entries(CacheTtl)
<1>1. (CHOOSE d \in Digests : TRUE) \in Digests
  BY DocumentConstants
<1> QED
  BY <1>1, DocumentConstants DEF Documents!Waiting, Documents!Nothing, Documents!Entries

LEMMA DocumentTypesInit == Documents!Init => Documents!TypeOK
BY DocumentStarts, DocumentConstants DEF Documents!Init, Documents!TypeOK

LEMMA ElapseType ==
    ASSUME NEW n \in Nat, NEW entry \in Documents!Entries(n)
    PROVE  Documents!Elapse(entry) \in Documents!Entries(n)
BY DEF Documents!Elapse, Documents!Entries

LEMMA DocumentTypesNext == ASSUME Documents!TypeOK, Documents!Next \/ UNCHANGED docVars PROVE Documents!TypeOK'
<1> DEFINE Requests == [pc : {"idle", "missed", "found"}, digest : Digests, version : 0..MaxSaves]
<1>1. CASE UNCHANGED docVars
  BY <1>1 DEF docVars, Documents!TypeOK
<1>2. CASE Documents!Tick
  <2>1. ASSUME NEW d \in Digests
        PROVE  /\ Documents!Elapse(txMap[d]) \in Documents!Entries(DefaultExpiresIn)
               /\ Documents!Elapse(response[d]) \in Documents!Entries(CacheTtl)
    <3>1. PICK e \in Documents!Entries(DefaultExpiresIn), f \in Documents!Entries(CacheTtl) :
            e = txMap[d] /\ f = response[d]
      BY DEF Documents!TypeOK
    <3> QED
      BY <3>1, ElapseType, DocumentConstants
  <2>2. txMap' = [d \in Digests |-> Documents!Elapse(txMap[d])]
        /\ response' = [d \in Digests |-> IF response[d].left <= 1 THEN Documents!Nothing
                                          ELSE Documents!Elapse(response[d])]
        /\ UNCHANGED <<reader, cleaner, saves, cleanerFaults>>
    BY <1>2 DEF Documents!Tick
  <2>3. txMap' \in [Digests -> Documents!Entries(DefaultExpiresIn)]
        /\ response' \in [Digests -> Documents!Entries(CacheTtl)]
    BY <2>1, <2>2, DocumentStarts
  <2> QED
    BY <2>2, <2>3 DEF Documents!TypeOK
<1>3. ASSUME NEW d \in Digests, Documents!Save(d) PROVE Documents!TypeOK'
  <2>1. PICK time \in Documents!AcceptedLifetimes :
          txMap' = [txMap EXCEPT ![d] = [version |-> saves + 1, left |-> time]]
    BY <1>3 DEF Documents!Save, Documents!SaveTxMap
  <2>2. saves + 1 \in 0..MaxSaves
    BY <1>3, DocumentConstants DEF Documents!Save, Documents!TypeOK
  <2>3. time \in 0..DefaultExpiresIn
    BY DocumentConstants DEF Documents!AcceptedLifetimes
  <2>4. [version |-> saves + 1, left |-> time] \in Documents!Entries(DefaultExpiresIn)
    BY <2>2, <2>3 DEF Documents!Entries
  <2>5. txMap' \in [Digests -> Documents!Entries(DefaultExpiresIn)]
    BY <2>1, <2>4 DEF Documents!TypeOK
  <2> QED
    BY <1>3, <2>2, <2>5 DEF Documents!Save, Documents!TypeOK
<1>4. ASSUME NEW r \in Readers, NEW d \in Digests, Documents!Miss(r, d) PROVE Documents!TypeOK'
  <2>1. [pc |-> "missed", digest |-> d, version |-> 0] \in Requests
    BY DocumentConstants
  <2>2. reader' \in [Readers -> Requests]
    BY <1>4, <2>1 DEF Documents!Miss, Documents!TypeOK
  <2> QED
    BY <1>4, <2>2 DEF Documents!Miss, Documents!TypeOK
<1>5. ASSUME NEW r \in Readers, Documents!GetTxMap(r) PROVE Documents!TypeOK'
  <2>1. PICK request \in Requests : request = reader[r]
    BY DEF Documents!TypeOK
  <2>2. PICK v \in 0..MaxSaves : v = txMap[request.digest].version
    BY <2>1 DEF Documents!TypeOK, Documents!Entries
  <2>3. PICK next \in Requests : reader' = [reader EXCEPT ![r] = next]
    <3>1. [request EXCEPT !.pc = "found", !.version = v] \in Requests
      OBVIOUS
    <3>2. reader' = [reader EXCEPT ![r] = [request EXCEPT !.pc = "found", !.version = v]]
          \/ reader' = [reader EXCEPT ![r] = Documents!Waiting]
      BY <1>5, <2>1, <2>2 DEF Documents!GetTxMap
    <3> QED
      BY <3>1, <3>2, DocumentStarts
  <2>4. reader' \in [Readers -> Requests]
    BY <2>3 DEF Documents!TypeOK
  <2> QED
    BY <1>5, <2>4 DEF Documents!GetTxMap, Documents!TypeOK
<1>6. ASSUME NEW r \in Readers, Documents!Store(r) PROVE Documents!TypeOK'
  <2>1. PICK request \in Requests : request = reader[r]
    BY DEF Documents!TypeOK
  <2>2. [version |-> request.version, left |-> CacheTtl] \in Documents!Entries(CacheTtl)
    BY DocumentConstants DEF Documents!Entries
  <2>3. response' = [response EXCEPT ![request.digest] = [version |-> request.version, left |-> CacheTtl]]
        /\ reader' = [reader EXCEPT ![r] = Documents!Waiting] /\ UNCHANGED <<txMap, cleaner, saves, cleanerFaults>>
    BY <1>6, <2>1 DEF Documents!Store
  <2>4. response' \in [Digests -> Documents!Entries(CacheTtl)] /\ reader' \in [Readers -> Requests]
    BY <2>2, <2>3, DocumentStarts DEF Documents!TypeOK
  <2> QED
    BY <2>3, <2>4 DEF Documents!TypeOK
<1> DEFINE Lists == SUBSET [digest : Digests, version : 1..MaxSaves]
<1>7. ASSUME NEW c \in Cleaners, Documents!List(c) PROVE Documents!TypeOK'
  <2>1. \A d \in Documents!ExpiredTxMaps : d \in Digests /\ txMap[d].version \in 1..MaxSaves
    BY DEF Documents!TypeOK, Documents!ExpiredTxMaps, Documents!Exists, Documents!Entries
  <2>2. {[digest |-> d, version |-> txMap[d].version] : d \in Documents!ExpiredTxMaps} \in Lists
    BY <2>1
  <2>3. cleaner' \in [Cleaners -> Lists]
    BY <1>7, <2>2 DEF Documents!List, Documents!TypeOK
  <2> QED
    BY <1>7, <2>3 DEF Documents!List, Documents!TypeOK
<1>8. ASSUME NEW c \in Cleaners, Documents!DeleteBatch(c) PROVE Documents!TypeOK'
  <2>1. PICK batch :
          /\ txMap' = [d \in Digests |-> IF d \in {e.digest : e \in batch} THEN Documents!Nothing ELSE txMap[d]]
          /\ cleaner' = [cleaner EXCEPT ![c] = @ \ batch]
    BY <1>8 DEF Documents!DeleteBatch
  <2>2. txMap' \in [Digests -> Documents!Entries(DefaultExpiresIn)]
    BY <2>1, DocumentStarts DEF Documents!TypeOK
  <2>3. cleaner' \in [Cleaners -> Lists]
    BY <2>1 DEF Documents!TypeOK
  <2> QED
    BY <1>8, <2>2, <2>3 DEF Documents!DeleteBatch, Documents!TypeOK
<1>9. ASSUME NEW c \in Cleaners, Documents!CleanerFails(c) PROVE Documents!TypeOK'
  <2>1. cleaner' \in [Cleaners -> Lists]
    BY <1>9 DEF Documents!CleanerFails, Documents!TypeOK
  <2>2. cleanerFaults' \in 0..MaxCleanerFaults
    BY <1>9, DocumentConstants DEF Documents!CleanerFails, Documents!TypeOK
  <2> QED
    BY <1>9, <2>1, <2>2 DEF Documents!CleanerFails, Documents!TypeOK
<1> QED
  BY <1>1, <1>2, <1>3, <1>4, <1>5, <1>6, <1>7, <1>8, <1>9 DEF Documents!Next

\* What RangesInv does not say of the reading of logs.
RangesBounds ==
    /\ blocks \in (0..LastBlock) \X (0..LastBlock)
    /\ retries \in 0..MaxRetries
    /\ outcome \in {"not called", "none", "returned", "thrown"}

LEMMA RangesBoundsInit == Ranges!Init => RangesBounds
<1> SUFFICES ASSUME Ranges!Init PROVE RangesBounds
  OBVIOUS
<1>1. LastBlock \in Nat /\ MaxRetries \in Nat
  BY ServicesAssumption DEF Ranges!RangesAssumption
<1>2. 0 \in 0..LastBlock /\ MaxRetries \in 0..MaxRetries
  BY <1>1
<1>3. <<0, 0>> \in (0..LastBlock) \X (0..LastBlock)
  BY <1>2, Zenon
<1> QED
  BY <1>2, <1>3 DEF Ranges!Init, RangesBounds

LEMMA RangesBoundsNext == ASSUME RangesBounds, Ranges!Next \/ UNCHANGED rangeVars PROVE RangesBounds'
<1>1. MaxRetries \in Nat /\ retries \in 0..MaxRetries
  BY ServicesAssumption DEF Ranges!RangesAssumption, RangesBounds
<1>2. blocks' = blocks \/ blocks' \in (0..LastBlock) \X (0..LastBlock)
  BY Zenon DEF Ranges!Next, Ranges!Call, Ranges!Return, Ranges!FetchBatch, Ranges!BatchFails, rangeVars
<1>3. retries' = retries \/ (retries > 0 /\ retries' = retries - 1)
  BY DEF Ranges!Next, Ranges!Call, Ranges!Return, Ranges!FetchBatch, Ranges!BatchFails, Ranges!StartAnew, rangeVars
<1>4. outcome' = outcome \/ outcome' \in {"none", "returned", "thrown"}
  BY DEF Ranges!Next, Ranges!Call, Ranges!Return, Ranges!FetchBatch, Ranges!BatchFails, Ranges!StartAnew, rangeVars
<1>5. blocks' \in (0..LastBlock) \X (0..LastBlock)
  BY <1>2, Zenon DEF RangesBounds
<1>6. retries' \in 0..MaxRetries
  BY <1>1, <1>3
<1>7. outcome' \in {"not called", "none", "returned", "thrown"}
  BY <1>4 DEF RangesBounds
<1> QED
  BY <1>5, <1>6, <1>7, Zenon DEF RangesBounds

LEMMA RangesTypes == ASSUME RangesInv, RangesBounds PROVE Ranges!TypeOK
<1>1. events \in Seq(Nat)
  <2>1. PICK from \in Nat, to \in Nat, range \in Nat, number \in Nat :
          from = Ranges!From /\ to = Ranges!To /\ range = blockRange /\ number = requested
    BY DEF RangesInv, RangesTyped
  <2>2. CASE number = 0
    BY <2>1, <2>2 DEF RangesInv
  <2>3. CASE number > 0
    <3> DEFINE z == EndOf(from, to, range + 1, number)
    <3>1. events = Consecutive(from, z) /\ from <= to
      BY <2>1, <2>3 DEF RangesInv, Fetched
    <3>2. number * (range + 1) \in Nat
      OBVIOUS
    <3>3. z \in Nat /\ from <= z
      BY <3>1, <3>2 DEF EndOf
    <3> HIDE DEF z
    <3> QED
      BY <3>1, <3>3, ConsecutiveType
  <2> QED
    BY <2>2, <2>3
<1> QED
  BY <1>1 DEF Ranges!TypeOK, RangesInv, RangesTyped, RangesBounds

LEMMA TimeoutsBounded ==
    /\ Submission!Init => timeouts \in 0..MaxTimeouts
    /\ timeouts \in 0..MaxTimeouts /\ (Submission!Next \/ UNCHANGED sendVars) => timeouts' \in 0..MaxTimeouts
<1>1. MaxTimeouts \in Nat
  BY ServicesAssumption DEF Submission!SubmissionAssumption
<1>2. Submission!Init => timeouts \in 0..MaxTimeouts
  BY <1>1 DEF Submission!Init
<1>3. ASSUME timeouts \in 0..MaxTimeouts, Submission!Next \/ UNCHANGED sendVars PROVE timeouts' \in 0..MaxTimeouts
  <2>1. timeouts' = timeouts \/ (timeouts < MaxTimeouts /\ timeouts' = timeouts + 1)
    BY <1>3 DEF Submission!Next, Submission!Mine, Submission!Forget, Submission!Start, Submission!AskL1,
                Submission!AskL2, Submission!Send, Submission!Underpriced, Submission!NonceTooLow,
                Submission!RequestTimeout, Submission!WaitTimeout, Submission!Confirm, sendVars
  <2> QED
    BY <1>1, <1>3, <2>1
<1> QED
  BY <1>2, <1>3

LEMMA SubmissionTypes == ASSUME SubmissionInv, timeouts \in 0..MaxTimeouts PROVE Submission!TypeOK
BY DEF SubmissionInv, PendingInv, SendingRuns, Submission!TypeOK

LEMMA FeedTypes == ASSUME SyncInv, PricesInv PROVE Feed!TypeOK
<1>1. ASSUME NEW s \in Syncs PROVE Feed!ToSet(sync[s].todo) \subseteq Feed!Coins
  <2>1. PICK todo \in Seq(Feed!Coins) : todo = sync[s].todo
    BY DEF SyncInv, SyncRuns
  <2>2. ToSet(todo) \subseteq Feed!Coins
    BY DEF ToSet
  <2> QED
    BY <2>1, <2>2, FeedLists
<1> QED
  BY <1>1 DEF SyncInv, PricesInv, FetchRuns, Feed!TypeOK

LEMMA ApiTypesHold == ASSUME ApiInv PROVE Api!TypeOK
<1>1. ASSUME NEW k \in Api!CacheKeys PROVE pages[k] = NoPage \/ Api!ToSet(pages[k].items) \subseteq ApiTokens
  <2>1. CASE pages[k] # NoPage
    <3>1. PICK items \in Seq(ApiTokens) : items = pages[k].items
      BY <2>1 DEF ApiInv, ApiTypes, ApiPages
    <3>2. ToSet(items) \subseteq ApiTokens
      BY DEF ToSet
    <3> QED
      BY <3>1, <3>2, ApiLists
  <2> QED
    BY <2>1
<1>2. Api!ToSet(tokenList) \subseteq ApiTokens
  BY ApiLists DEF ApiInv, ApiTypes, ToSet
<1>3. Api!IsInjective(tokenList)
  BY DEF ApiInv, ApiTypes, Api!IsInjective, IsInjective
<1> QED
  BY <1>1, <1>2, <1>3 DEF ApiInv, ApiTypes, ApiWalks, Api!TypeOK

\* What HealthInv does not say of the check.
HealthBounds ==
    /\ profile \in [Candidates -> Profiles]
    /\ reading \in [pc : {"idle", "fees", "balances", "done", "thrown"}, attempts : 0..Tries]
    /\ available \subseteq Candidates /\ unread \subseteq Candidates
    /\ requestFaults \in 0..MaxCheckFaults

LEMMA HealthBoundsInit == Health!Init => HealthBounds
<1>1. (CHOOSE p \in Profiles : TRUE) \in Profiles /\ MaxCheckFaults \in Nat /\ Tries \in Nat
  BY ServicesAssumption DEF Health!HealthAssumption
<1> QED
  BY <1>1 DEF Health!Init, HealthBounds

LEMMA HealthBoundsNext ==
    ASSUME HealthInv, HealthBounds, Health!Next \/ UNCHANGED checkVars
    PROVE  HealthBounds'
<1>1. MaxCheckFaults \in Nat /\ Tries \in Nat \ {0}
  BY ServicesAssumption DEF Health!HealthAssumption
<1>2. requestFaults' \in 0..MaxCheckFaults
  <2>1. requestFaults' = requestFaults \/ (requestFaults < MaxCheckFaults /\ requestFaults' = requestFaults + 1)
    BY DEF Health!Next, Health!Begin, Health!AllAnswered, Health!ReadBalances, Health!ReadFails, Health!SkipRequest,
           Health!FeeInfo, Health!FeeInfoFails, Health!Fault, checkVars
  <2> QED
    BY <1>1, <2>1 DEF HealthBounds
<1>3. profile' \in [Candidates -> Profiles]
  BY DEF Health!Next, Health!Begin, Health!AllAnswered, Health!ReadBalances, Health!ReadFails, Health!SkipRequest,
         Health!FeeInfo, Health!FeeInfoFails, checkVars, HealthBounds
<1>4. available' \subseteq Candidates /\ unread' \subseteq Candidates
  BY DEF Health!Next, Health!Begin, Health!AllAnswered, Health!ReadBalances, Health!ReadFails, Health!SkipRequest,
         Health!FeeInfo, Health!FeeInfoFails, Health!Sufficient, checkVars, HealthBounds
<1>5. reading' \in [pc : {"idle", "fees", "balances", "done", "thrown"}, attempts : 0..Tries]
  <2>1. reading.pc = "balances" => reading.attempts \in Nat /\ reading.attempts < Tries
    BY DEF HealthInv
  <2>2. CASE Health!ReadBalances
    BY <1>1, <2>1, <2>2 DEF Health!ReadBalances
  <2>3. CASE Health!ReadFails
    BY <1>1, <2>1, <2>3 DEF Health!ReadFails
  <2>4. CASE Health!Begin
    BY <2>4 DEF Health!Begin, HealthBounds
  <2>5. CASE Health!AllAnswered
    BY <2>5 DEF Health!AllAnswered, HealthBounds
  <2>6. CASE UNCHANGED reading
    BY <2>6 DEF HealthBounds
  <2> QED
    BY <2>2, <2>3, <2>4, <2>5, <2>6 DEF Health!Next, Health!SkipRequest, Health!FeeInfo, Health!FeeInfoFails, checkVars
<1> QED
  BY <1>2, <1>3, <1>4, <1>5 DEF HealthBounds

LEMMA HealthTypes == ASSUME HealthInv, HealthBounds PROVE Health!TypeOK
BY DEF HealthInv, HealthBounds, Statuses, Health!TypeOK

\* The run of block-sync-monitor has all its fields.
AlertsInv ==
    /\ Watching!TypeOK
    /\ syncMonitor \in [pc : {"idle", "reading"}, rollup : Int, prover : Int]

LEMMA AlertsConstants ==
    /\ Required \in [Wallets -> 0..MaxEther] /\ Acceptable \in Nat
    /\ MaxEther \in Nat /\ MaxRollupBlock \in Nat /\ MaxSpends \in Nat /\ MaxAlertFaults \in Nat
BY ServicesAssumption DEF Watching!AlertsAssumption

ObserverRuns == [pc : {"idle", "reading", "sending"}, read : [Wallets -> Watching!Ether \cup {Watching!Unread}]]
MonitorRuns == [pc : {"idle", "reading"}, rollup : Int, prover : Int]

LEMMA AlertsStart == Watching!NotObserving \in ObserverRuns /\ Watching!NotComparing \in MonitorRuns
BY DEF Watching!NotObserving, Watching!NotComparing, Watching!Unread, ObserverRuns, MonitorRuns

LEMMA AlertsInit == Watching!Init => AlertsInv
<1> SUFFICES ASSUME Watching!Init PROVE AlertsInv
  OBVIOUS
<1>1. observer \in ObserverRuns /\ syncMonitor \in MonitorRuns /\ syncMonitor.pc \in {"idle", "reading"}
  BY AlertsStart DEF Watching!Init, MonitorRuns
<1>2. balance \in [Wallets -> 0..MaxEther]
  BY AlertsConstants DEF Watching!Init
<1>3. rollup \in 0..MaxRollupBlock /\ prover \in 0..rollup
  BY AlertsConstants DEF Watching!Init
<1>4. /\ ready \subseteq Watching!Jobs /\ told \subseteq Wallets
      /\ lagTold \in BOOLEAN /\ lagLost \in BOOLEAN
  BY DEF Watching!Init
<1>5. spends \in 0..MaxSpends /\ alertFaults \in 0..MaxAlertFaults
  BY AlertsConstants DEF Watching!Init
<1> QED
  BY <1>1, <1>2, <1>3, <1>4, <1>5 DEF AlertsInv, Watching!TypeOK, Watching!Ether, ObserverRuns, MonitorRuns

LEMMA AlertsNext == ASSUME AlertsInv, Watching!Next \/ UNCHANGED alertVars PROVE AlertsInv'
<1> USE DEF Watching!worldVars, Watching!outVars
<1>1. /\ balance \in [Wallets -> 0..MaxEther] /\ rollup \in 0..MaxRollupBlock /\ prover \in 0..rollup
      /\ observer \in ObserverRuns /\ syncMonitor \in MonitorRuns
      /\ ready \subseteq Watching!Jobs /\ told \subseteq Wallets
      /\ lagTold \in BOOLEAN /\ lagLost \in BOOLEAN
      /\ spends \in 0..MaxSpends /\ alertFaults \in 0..MaxAlertFaults
  BY DEF AlertsInv, Watching!TypeOK, Watching!Ether, ObserverRuns, MonitorRuns
<1> DEFINE World == /\ balance' \in [Wallets -> 0..MaxEther] /\ rollup' \in 0..MaxRollupBlock
                    /\ prover' \in 0..rollup' /\ spends' \in 0..MaxSpends
           Runs == observer' \in ObserverRuns /\ syncMonitor' \in MonitorRuns /\ ready' \subseteq Watching!Jobs
           Out == told' \subseteq Wallets /\ lagTold' \in BOOLEAN /\ lagLost' \in BOOLEAN
           Faults == alertFaults' \in 0..MaxAlertFaults
<1>2. ASSUME World, Runs, Out, Faults PROVE AlertsInv'
  BY <1>2 DEF AlertsInv, Watching!TypeOK, Watching!Ether, ObserverRuns, MonitorRuns
<1>3. ASSUME NEW w \in Wallets, Watching!Spend(w) PROVE AlertsInv'
  <2>1. World
    <3>1. PICK b \in 0..MaxEther : b = balance[w] /\ b > 0
      BY <1>1, <1>3 DEF Watching!Spend
    <3>2. b - 1 \in 0..MaxEther
      BY <3>1, AlertsConstants
    <3>3. balance[w] - 1 \in 0..MaxEther
      BY <3>1, <3>2
    <3>4. balance' \in [Wallets -> 0..MaxEther]
      BY <1>1, <1>3, <3>3 DEF Watching!Spend
    <3>5. spends' \in 0..MaxSpends
      BY <1>1, <1>3, AlertsConstants DEF Watching!Spend
    <3> QED
      BY <1>1, <1>3, <3>4, <3>5 DEF Watching!Spend
  <2> QED
    BY <1>1, <1>2, <1>3, <2>1 DEF Watching!Spend
<1>4. ASSUME NEW w \in Wallets, Watching!Fill(w) PROVE AlertsInv'
  <2>1. World
    BY <1>1, <1>4, AlertsConstants DEF Watching!Fill
  <2> QED
    BY <1>1, <1>2, <1>4, <2>1 DEF Watching!Fill
<1>5. CASE Watching!RollupBlock
  BY <1>1, <1>2, <1>5, AlertsConstants DEF Watching!RollupBlock
<1>6. CASE Watching!ProverBlock
  <2>1. World
    BY <1>1, <1>6, AlertsConstants DEF Watching!ProverBlock
  <2>2. Out
    BY <1>1, <1>6 DEF Watching!ProverBlock, Watching!Lags
  <2> QED
    BY <1>1, <1>2, <1>6, <2>1, <2>2 DEF Watching!ProverBlock
<1>7. ASSUME NEW job \in Watching!Jobs, Watching!LogIn(job) PROVE AlertsInv'
  BY <1>1, <1>2, <1>7 DEF Watching!LogIn
<1>8. CASE Watching!Observe
  <2>1. [Watching!NotObserving EXCEPT !.pc = "reading"] \in ObserverRuns
    BY DEF Watching!NotObserving, ObserverRuns
  <2> QED
    BY <1>1, <1>2, <1>8, <2>1 DEF Watching!Observe
<1>9. ASSUME NEW w \in Wallets, Watching!ReadBalance(w) PROVE AlertsInv'
  <2>1. [observer EXCEPT !.read[w] = balance[w]] \in ObserverRuns
    <3>1. PICK run \in ObserverRuns, b \in Watching!Ether : run = observer /\ b = balance[w]
      BY <1>1 DEF Watching!Ether
    <3>2. [run EXCEPT !.read[w] = b] \in ObserverRuns
      BY DEF ObserverRuns
    <3> QED
      BY <3>1, <3>2
  <2> QED
    BY <1>1, <1>2, <1>9, <2>1 DEF Watching!ReadBalance
<1>10. CASE Watching!ComposeMessage
  <2>1. observer' \in ObserverRuns
    <3>1. [observer EXCEPT !.pc = "sending"] \in ObserverRuns
      BY <1>1 DEF ObserverRuns
    <3> QED
      BY <1>10, <3>1, AlertsStart DEF Watching!ComposeMessage
  <2>2. ready' \subseteq Watching!Jobs
    BY <1>1, <1>10 DEF Watching!ComposeMessage
  <2> QED
    BY <1>1, <1>2, <1>10, <2>1, <2>2 DEF Watching!ComposeMessage
<1>11. CASE Watching!SendWhenReady
  <2>1. told' \subseteq Wallets
    BY <1>1, <1>11 DEF Watching!SendWhenReady, Watching!SendMessage, Watching!Insufficient
  <2> QED
    BY <1>1, <1>2, <1>11, <2>1, AlertsStart DEF Watching!SendWhenReady
<1>12. CASE Watching!ObserverFails
  BY <1>1, <1>2, <1>12, AlertsStart, AlertsConstants DEF Watching!ObserverFails, Watching!Fault
<1>13. CASE Watching!Compare
  <2>1. [Watching!NotComparing EXCEPT !.pc = "reading"] \in MonitorRuns
    BY DEF Watching!NotComparing, Watching!Unread, MonitorRuns
  <2> QED
    BY <1>1, <1>2, <1>13, <2>1 DEF Watching!Compare
<1>14. CASE Watching!ReadRollup
  <2>1. [syncMonitor EXCEPT !.rollup = rollup] \in MonitorRuns
    BY <1>1 DEF MonitorRuns
  <2> QED
    BY <1>1, <1>2, <1>14, <2>1 DEF Watching!ReadRollup
<1>15. CASE Watching!ReadProver
  <2>1. [syncMonitor EXCEPT !.prover = prover] \in MonitorRuns
    BY <1>1 DEF MonitorRuns
  <2> QED
    BY <1>1, <1>2, <1>15, <2>1 DEF Watching!ReadProver
<1>16. CASE Watching!Report
  <2>1. lagTold' \in BOOLEAN /\ lagLost' \in BOOLEAN
    BY <1>1, <1>16 DEF Watching!Report
  <2>2. syncMonitor' = Watching!NotComparing /\ ready' \subseteq ready
        /\ UNCHANGED <<balance, rollup, prover, spends, observer, told, alertFaults>>
    BY <1>16 DEF Watching!Report
  <2> QED
    BY <1>1, <1>2, <2>1, <2>2, AlertsStart
<1>17. CASE Watching!SyncMonitorFails
  BY <1>1, <1>2, <1>17, AlertsStart, AlertsConstants DEF Watching!SyncMonitorFails, Watching!Fault
<1>18. CASE UNCHANGED alertVars
  BY <1>18 DEF alertVars, AlertsInv, Watching!TypeOK
<1> QED
  BY <1>3, <1>4, <1>5, <1>6, <1>7, <1>8, <1>9, <1>10, <1>11, <1>12, <1>13, <1>14, <1>15, <1>16, <1>17, <1>18
     DEF Watching!Next, Watching!ObserverStep, Watching!SyncMonitorStep

-----------------------------------------------------------------------------
(* The theorems.                                                           *)

\* A step of all parts is a step of each one or leaves it alone.
LEMMA PartSteps ==
    ASSUME [Next]_vars
    PROVE  /\ Documents!Next \/ UNCHANGED docVars
           /\ Ranges!Next \/ UNCHANGED rangeVars
           /\ Submission!Next \/ UNCHANGED sendVars
           /\ Feed!Next \/ UNCHANGED feedVars
           /\ Api!Next \/ UNCHANGED apiVars
           /\ Health!Next \/ UNCHANGED checkVars
           /\ Watching!Next \/ UNCHANGED alertVars
<1>1. CASE UNCHANGED vars
  BY <1>1 DEF vars
<1>2. CASE Next
  <2> HIDE DEF docVars, rangeVars, sendVars, feedVars, apiVars, checkVars, alertVars
  <2> QED
    BY <1>2 DEF Next, Moves
<1> QED
  BY <1>1, <1>2

\* Every part keeps to its types, at every size of its constants.
THEOREM TypesHold == Spec => []TypeOK
<1> DEFINE Inv == /\ part \in Parts
                  /\ Documents!TypeOK
                  /\ RangesInv /\ RangesBounds
                  /\ SubmissionInv /\ timeouts \in 0..MaxTimeouts
                  /\ SyncInv /\ PricesInv
                  /\ ApiInv
                  /\ HealthInv /\ HealthBounds
                  /\ AlertsInv
<1>1. Init => Inv
  BY DocumentTypesInit, RangesInit, RangesBoundsInit, SubmissionInit, TimeoutsBounded, SyncInit, PricesInit,
     ApiInit, HealthInit, HealthBoundsInit, AlertsInit DEF Init
<1>2. Inv /\ [Next]_vars => Inv'
  <2> SUFFICES ASSUME Inv, [Next]_vars PROVE Inv'
    OBVIOUS
  <2>1. part' = part
    BY DEF Next, Moves, vars
  <2> QED
    BY <2>1, PartSteps, DocumentTypesNext, RangesNext, RangesBoundsNext, SubmissionNext, TimeoutsBounded, SyncNext,
       PricesNext, ApiNext, HealthNext, HealthBoundsNext, AlertsNext
<1>3. Inv => TypeOK
  BY RangesTypes, SubmissionTypes, FeedTypes, ApiTypesHold, HealthTypes DEF AlertsInv, TypeOK
<1> QED
  BY <1>1, <1>2, <1>3, PTL DEF Spec

\* Fewer failed requests than there are tries change nothing: the check ends
\* with the fit builders exactly, but for those whose single call failed; more
\* of them lose builders and never let one in.
THEOREM FitIsExact == Spec => []FitExactly
<1>1. Init => HealthInv
  BY HealthInit DEF Init
<1>2. HealthInv /\ [Next]_vars => HealthInv'
  BY HealthNext, PartSteps
<1>3. HealthInv => FitExactly
  <2> SUFFICES ASSUME HealthInv PROVE Health!FitExactly
    BY DEF FitExactly
  <2>1. ASSUME reading.pc = "done" PROVE available \subseteq {b \in Candidates : Health!Fit(b)}
    BY <2>1 DEF HealthInv, AnswerInv, Health!Sufficient, Health!Fit, Sound
  <2>2. ASSUME requestFaults < Tries PROVE reading.pc # "thrown"
    BY <2>2, TriesType DEF HealthInv
  <2>3. ASSUME requestFaults < Tries, reading.pc = "done", NEW b \in Candidates, Health!Fit(b)
        PROVE  b \in available \cup unread
    <3>1. AnswerInv(b) /\ Sound(b) /\ profile[b].balance > MinBalance
      BY <2>3 DEF HealthInv, Health!Fit, Sound
    <3>2. check[b].status = "available"
      BY <2>3, <3>1, TriesType DEF AnswerInv, Statuses, HealthInv
    <3> QED
      BY <2>3, <3>1, <3>2 DEF HealthInv, Health!Sufficient
  <2> QED
    BY <2>1, <2>2, <2>3 DEF Health!FitExactly
<1> QED
  BY <1>1, <1>2, <1>3, PTL DEF Spec

\* A stored document goes before its time only if it was saved anew between
\* the list and the delete of some cleaner.
THEOREM LostIfRenewed == Spec => LostOnlyIfRenewed
<1>1. Init => DocumentsInv
  BY DocumentsInit DEF Init
<1>2. DocumentsInv /\ [Next]_vars => DocumentsInv'
  BY DocumentsNext, PartSteps
<1>3. DocumentsInv /\ [Next]_vars =>
        [\A d \in Digests :
           txMap[d].left > 0 /\ txMap'[d] = Documents!Nothing =>
             \E c \in Cleaners : \E e \in cleaner[c] :
                 e.digest = d /\ e.version < txMap[d].version]_(Documents!vars)
  <2> SUFFICES ASSUME DocumentsInv, [Next]_vars, ~UNCHANGED Documents!vars,
                      NEW d \in Digests, txMap[d].left > 0, txMap'[d] = Documents!Nothing
               PROVE  \E c \in Cleaners : \E e \in cleaner[c] : e.digest = d /\ e.version < txMap[d].version
    OBVIOUS
  <2>1. Documents!Next
    BY PartSteps DEF docVars, Documents!vars
  <2> QED
    BY <2>1, LostWhenRenewed
<1> QED
  BY <1>1, <1>2, <1>3, PTL DEF Spec, LostOnlyIfRenewed, Documents!LostOnlyIfRenewed

\* Whatever times out, no two transactions of one call, nor of two calls,
\* wait together to be mined.
THEOREM OneEffect == Spec => []OneEffectPending
<1>1. Init => SubmissionInv
  BY SubmissionInit DEF Init
<1>2. SubmissionInv /\ [Next]_vars => SubmissionInv'
  BY SubmissionNext, PartSteps
<1>3. SubmissionInv => OneEffectPending
  <2> SUFFICES ASSUME SubmissionInv, NEW c \in 1..calls
               PROVE  Cardinality({t \in mempool : t.call = c}) <= 1
    BY SameCardinality DEF OneEffectPending, Submission!OneEffectPending
  <2> DEFINE pending == {t \in mempool : t.call = c}
  <2>1. \A s, t \in pending : s = t
    BY DEF SubmissionInv, PendingInv
  <2> HIDE DEF pending
  <2>2. CASE pending = {}
    BY <2>2, FS_EmptySet DEF pending
  <2>3. CASE pending # {}
    <3>1. PICK t \in pending : pending = {t}
      BY <2>1, <2>3
    <3>2. Cardinality({t}) = 1
      BY FS_Singleton
    <3> QED
      BY <3>1, <3>2 DEF pending
  <2> QED
    BY <2>2, <2>3
<1> QED
  BY <1>1, <1>2, <1>3, PTL DEF Spec

\* With increments that outweigh rounding, and of which the last one is ten
\* percent of the multiplier before it, every retry replaces what the call
\* sent before, unless an estimate fell in between.  The rate of 0.3 and the
\* five attempts of the code satisfy both: 5 * 3 >= 10 and 10 + 3 * 3 <= 30.
THEOREM RetriesReplace ==
    ASSUME Submission!EnoughToRaise * IncrementRate >= 10,
           Submission!GasMultiplier(MaxAttempts - 2) <= 10 * IncrementRate
    PROVE  Spec => []ReplacementAccepted
<1>1. Init => SubmissionInv
  BY SubmissionInit DEF Init
<1>2. SubmissionInv /\ [Next]_vars => SubmissionInv'
  BY SubmissionNext, PartSteps
<1>3. SubmissionInv => ReplacementAccepted
  <2> SUFFICES ASSUME SubmissionInv, sending.pc = "sending", ~sending.fell,
                      sending.estimate.fee >= 5, sending.estimate.tip >= 5,
                      NEW t \in mempool, t.call = calls
               PROVE  Submission!Outbids(Submission!Transaction, t)
    BY DEF ReplacementAccepted, Submission!ReplacementAccepted, Submission!EnoughToRaise, Submission!Rivals
  <2>1. PICK run \in SendingRuns : run = sending
    BY DEF SubmissionInv, PendingInv
  <2>2. /\ run.attempt \in 0..MaxAttempts - 1 /\ run.attempt > 0 /\ run.estimate \in Fees
        /\ run.estimate.fee \in Nat /\ run.estimate.tip \in Nat
        /\ Within(t, run.estimate, run.attempt - 1)
        /\ run.fee = Submission!Scaled(run.estimate.fee, Submission!GasMultiplier(run.attempt))
        /\ run.tip = Submission!Scaled(run.estimate.tip, Submission!GasMultiplier(run.attempt))
        /\ t.fee \in Nat /\ t.tip \in Nat
    BY <2>1 DEF SubmissionInv, PendingInv, FeesInv, SendingRuns, Fees, Submission!Transactions
  <2>3. PICK last \in Nat : last = run.attempt - 1 /\ last <= MaxAttempts - 2
    BY <2>2, SubmissionConstants
  <2>4. PICK m \in Nat : m = Submission!GasMultiplier(last)
    BY MultiplierProperties
  <2>5. Submission!GasMultiplier(run.attempt) = m + IncrementRate
    BY <2>2, <2>3, <2>4, MultiplierProperties
  <2>6. m <= 10 * IncrementRate
    <3>1. PICK n \in Nat : n = MaxAttempts - 2
      BY <2>3, SubmissionConstants
    <3>2. last * IncrementRate <= n * IncrementRate
      BY <2>3, <3>1, SubmissionConstants, ProductGrows
    <3>3. 10 + n * IncrementRate <= 10 * IncrementRate
      BY <3>1 DEF Submission!GasMultiplier
    <3> DEFINE p == last * IncrementRate
               q == n * IncrementRate
    <3>4. p \in Nat /\ q \in Nat
      BY SubmissionConstants
    <3>5. m = 10 + p
      BY <2>4 DEF Submission!GasMultiplier
    <3> HIDE DEF p, q
    <3>6. p <= q /\ 10 + q <= 10 * IncrementRate
      BY <3>2, <3>3 DEF p, q
    <3> QED
      BY <3>4, <3>5, <3>6, SubmissionConstants
  <2>7. ASSUME NEW x \in Nat, x >= 5, NEW old \in Nat, 10 * old <= x * m
        PROVE  /\ Submission!Scaled(x, m + IncrementRate) > old
               /\ Submission!Scaled(x, m + IncrementRate) >= Submission!Scaled(old, 11)
    <3> DEFINE p == x * m
               q == x * IncrementRate
               new == Submission!Scaled(x, m + IncrementRate)
               bid == Submission!Scaled(old, 11)
    <3>1. p \in Nat /\ q \in Nat /\ x * (m + IncrementRate) = p + q
      BY SubmissionConstants
    <3>2. q >= 10
      <4>1. 5 * IncrementRate <= q
        BY <2>7, SubmissionConstants, ProductGrows
      <4> QED
        BY <3>1, <4>1, SubmissionConstants DEF Submission!EnoughToRaise
    <3>3. p <= 10 * q
      <4>1. x * m <= x * (10 * IncrementRate)
        BY <2>6, SubmissionConstants, ProductGrows
      <4>2. x * (10 * IncrementRate) = 10 * (x * IncrementRate)
        BY SubmissionConstants
      <4> QED
        BY <4>1, <4>2
    <3>4. new \in Nat /\ \A k \in Nat : k <= new <=> 10 * k <= p + q
      <4>1. m + IncrementRate \in Nat
        BY SubmissionConstants
      <4>2. new \in Nat /\ \A k \in Nat : k <= new <=> 10 * k <= x * (m + IncrementRate)
        BY <4>1, ScaledProperties
      <4> HIDE DEF new, p, q
      <4> QED
        BY <3>1, <4>2
    <3>5. bid \in Nat /\ \A k \in Nat : k <= bid <=> 10 * k <= old * 11
      BY ScaledProperties
    <3>6. 10 * old <= p
      BY <2>7
    <3> HIDE DEF p, q, new, bid
    <3>7. old + 1 <= new
      BY <3>1, <3>2, <3>4, <3>6
    <3>8. 10 * bid <= p + q
      <4>1. bid <= bid
        BY <3>5
      <4>2. 10 * bid <= old * 11
        BY <3>5, <4>1
      <4> QED
        BY <3>1, <3>3, <3>5, <3>6, <4>2
    <3>9. bid <= new
      BY <3>4, <3>5, <3>8
    <3> QED
      BY <3>4, <3>5, <3>7, <3>9 DEF new, bid
  <2>8. 10 * t.fee <= run.estimate.fee * m /\ 10 * t.tip <= run.estimate.tip * m
    BY <2>2, <2>3, <2>4 DEF Within
  <2>9. Submission!Transaction.fee = run.fee /\ Submission!Transaction.tip = run.tip
    BY <2>1 DEF Submission!Transaction
  <2>10. /\ run.fee > t.fee /\ run.fee >= Submission!Scaled(t.fee, 11)
         /\ run.tip > t.tip /\ run.tip >= Submission!Scaled(t.tip, 11)
    BY <2>1, <2>2, <2>5, <2>7, <2>8
  <2> QED
    BY <2>9, <2>10 DEF Submission!Outbids
<1> QED
  BY <1>1, <1>2, <1>3, PTL DEF Spec

\* A call that returns has each block's logs exactly once and in order,
\* whatever the interval, the length of the ranges and the failures.
THEOREM LogsAreExact == Spec => []EventsExact
<1>1. Init => RangesInv
  BY RangesInit DEF Init
<1>2. RangesInv /\ [Next]_vars => RangesInv'
  BY RangesNext, PartSteps
<1>3. RangesInv => EventsExact
  BY DEF RangesInv, EventsExact
<1> QED
  BY <1>1, <1>2, <1>3, PTL DEF Spec

\* Whatever requests fail and however the runs of the sync overlap, the file
\* gives each coin its own contract's decimals, or none; only a coin of which
\* a call failed once, or whose contract gives 0, has the default.
THEOREM DecimalsAreTrue == Spec => []DecimalsTrueUnlessFailed
<1>1. Init => SyncInv
  BY SyncInit DEF Init
<1>2. SyncInv /\ [Next]_vars => SyncInv'
  BY SyncNext, PartSteps
<1>3. SyncInv => DecimalsTrueUnlessFailed
  BY DEF SyncInv, Truthful, DecimalsTrueUnlessFailed, Feed!DecimalsTrueUnlessFailed
<1> QED
  BY <1>1, <1>2, <1>3, PTL DEF Spec

\* Through every cache, with lists that grow while they are walked, a walk
\* has every token once and in order: that of the names, of the filter or, as
\* long as no new file has tokens in another order, of the file.  The filters
\* that are asked for name no token twice and no two of them begin with the
\* same token: of those the cache keeps one page for both.
THEOREM WalkIsComplete ==
    ASSUME FiltersDiffer
    PROVE  Spec => []WalkComplete
<1>1. Init => ApiInv
  BY ApiInit DEF Init
<1>2. ApiInv /\ [Next]_vars => ApiInv'
  BY ApiNext, PartSteps
<1>3. ApiInv => WalkComplete
  <2> SUFFICES ASSUME ApiInv, NEW c \in Clients, Api!Steady(client[c].query.filter)
               PROVE  /\ Api!IsInjective(client[c].seen)
                      /\ client[c].pc = "done" =>
                           client[c].since \cap Api!Wanted(client[c].query.filter) \subseteq Api!ToSet(client[c].seen)
                      /\ endpoint = "maps" => Api!IsAscending(client[c].seen)
    BY DEF WalkComplete, Api!WalkComplete
  <2>1. PICK walk \in ApiWalks, tokens \in Seq(ApiTokens), byName \in BOOLEAN :
          walk = client[c] /\ tokens = tokenList /\ IsInjective(tokens) /\ byName = (endpoint = "maps")
    BY DEF ApiInv, ApiTypes
  <2> DEFINE filter == walk.query.filter
             seen == walk.seen
             R == OrderOf(filter, byName, tokens)
             W == ToSet(tokens) \cap Api!Wanted(filter)
  <2>2. /\ seen \in Seq(W) /\ RespectsOrder(seen, R)
        /\ walk.pc = "done" => walk.since \cap Api!Wanted(filter) \subseteq ToSet(seen)
    BY <2>1 DEF ApiInv, GoodNow, OrderNow, WalkGood, Progress, Finished
  <2>3. filter \in Seq(ApiTokens) /\ IsInjective(filter)
    <3>1. filter \in Filters \cup {<<>>}
      BY <2>1 DEF ApiWalks, ApiQueries
    <3>2. <<>> \in Seq(ApiTokens) /\ IsInjective(<<>>)
      BY DEF IsInjective
    <3> QED
      BY <3>1, <3>2, ApiConstants DEF FiltersDiffer
  <2>4. IsOrderOf(R, W) /\ W \subseteq ApiTokens
    BY <2>1, <2>3, OrderOfWanted, WantedTokens
  <2>5. seen \in Seq(ApiTokens)
    BY <2>2, <2>4, SeqGrows
  <2> HIDE DEF filter, seen, R, W
  <2>6. DOMAIN seen = 1..Len(seen) /\ Len(seen) \in Nat /\ \A i \in 1..Len(seen) : seen[i] \in W
    BY <2>2
  <2>7. \A i, j \in 1..Len(seen) : seen[i] = seen[j] => i = j
    <3> SUFFICES ASSUME NEW i \in 1..Len(seen), NEW j \in 1..Len(seen), i < j PROVE seen[i] # seen[j]
      BY <2>6
    <3>1. <<seen[i], seen[j]>> \in R /\ seen[i] \in W /\ seen[j] \in W
      BY <2>2, <2>6 DEF RespectsOrder
    <3> QED
      BY <2>4, <3>1 DEF IsOrderOf
  <2>8. Api!IsInjective(client[c].seen)
    BY <2>1, <2>6, <2>7 DEF Api!IsInjective, seen
  <2>9. endpoint = "maps" => IsAscending(seen)
    <3> SUFFICES ASSUME byName PROVE IsAscending(seen)
      BY <2>1
    <3>1. RespectsOrder(seen, OrderOf(filter, TRUE, tokens))
      BY <2>2 DEF R
    <3> QED
      BY <2>5, <3>1, AscendingRespects
  <2> QED
    BY <2>1, <2>2, <2>8, <2>9, ApiLists DEF seen, filter
<1> QED
  BY <1>1, <1>2, <1>3, PTL DEF Spec
=============================================================================
