---------------------------- MODULE MinerProofs ----------------------------
(***************************************************************************)
(* The secrets of a position never get lost, for every length of the list, *)
(* every timing of the loop and any number of crashes; and every list that *)
(* reaches the ledger or the file is a whole one.                          *)
(***************************************************************************)
EXTENDS Miner, SequenceTheorems, TLAPS

\* The list about to be submitted is on disk too.
Inv ==
  /\ SecretsAreOnDisk
  /\ pc \in {"submit", "register"} => tx.list \in file

-----------------------------------------------------------------------------
\* Writing keeps the lists that are alive.
LEMMA WritingKeeps ==
  ASSUME SecretsAreOnDisk, NEW list, WriteAhead(list), UNCHANGED ledger
  PROVE  SecretsAreOnDisk' /\ list \in file'
<1>1. list \in file' /\ file \cap Alive \subseteq file'
  BY DEF WriteAhead
<1>2. position' = position /\ pending' = pending
  BY DEF ledger
<1>3. position' # NotRegistered => position' \in file'
  BY <1>1, <1>2 DEF SecretsAreOnDisk, Alive, NotRegistered
<1>4. \A t \in pending' : t.list \in file'
  BY <1>1, <1>2 DEF SecretsAreOnDisk, Alive
<1>. QED
  BY <1>1, <1>3, <1>4 DEF SecretsAreOnDisk, NotRegistered

\* A registration writes its list before it is submitted.
LEMMA WriteRegistrationKeeps ==
  ASSUME Inv, WriteRegistration
  PROVE  Inv'
<1>1. PICK list \in [1..ListLength -> FreshSecrets] :
        /\ WriteAhead(list)
        /\ tx' = [kind |-> "register", list |-> list, upper |-> NoLimit]
  BY DEF WriteRegistration
<1>2. UNCHANGED ledger
  BY DEF WriteRegistration
<1>3. SecretsAreOnDisk' /\ list \in file'
  BY <1>1, <1>2, WritingKeeps DEF Inv
<1>. QED
  BY <1>1, <1>3 DEF Inv

\* A block's list is written before the block is submitted.
LEMMA BuildKeeps ==
  ASSUME Inv, Build
  PROVE  Inv'
<1>1. UNCHANGED ledger
  BY DEF Build
<1>2. CASE pc' = "sleep" /\ UNCHANGED file
  BY <1>1, <1>2 DEF Inv, SecretsAreOnDisk, ledger
<1>3. CASE \E lag \in 0..MaxLag, fresh \in FreshSecrets :
             LET list == Rotated(position, fresh) IN
             /\ WriteAhead(list)
             /\ tx' = [kind |-> "mine", list |-> list, upper |-> clock - lag + Width]
  <2>1. PICK lag \in 0..MaxLag, fresh \in FreshSecrets :
          /\ WriteAhead(Rotated(position, fresh))
          /\ tx' = [kind |-> "mine", list |-> Rotated(position, fresh),
                    upper |-> clock - lag + Width]
    BY <1>3
  <2>2. SecretsAreOnDisk' /\ Rotated(position, fresh) \in file'
    BY <1>1, <2>1, WritingKeeps DEF Inv
  <2>. QED
    BY <2>1, <2>2 DEF Inv
<1>. QED
  BY <1>2, <1>3 DEF Build, Fail, Goto

\* Every step keeps the secrets.
LEMMA StepKeeps ==
  ASSUME Inv, [Next]_vars
  PROVE  Inv'
<1>1. CASE WriteRegistration
  BY <1>1, WriteRegistrationKeeps
<1>2. CASE SubmitRegistration
  <2>1. tx.list \in file /\ file' = file /\ position' = position /\ pc' = "sleep"
    BY <1>2 DEF SubmitRegistration, Inv, Goto
  <2>2. pending' \subseteq pending \cup {tx}
    BY <1>2 DEF SubmitRegistration
  <2>. QED
    BY <2>1, <2>2 DEF Inv, SecretsAreOnDisk, NotRegistered
<1>3. CASE Look
  <2>1. file' = file /\ UNCHANGED ledger /\ pc' \in {"build", "sleep"}
    BY <1>3 DEF Look, Goto, Fail
  <2>. QED
    BY <2>1 DEF Inv, SecretsAreOnDisk, ledger, NotRegistered
<1>4. CASE Build
  BY <1>4, BuildKeeps
<1>5. CASE Submit
  <2>1. tx.list \in file /\ file' = file /\ position' = position
    BY <1>5 DEF Submit, Inv
  <2>2. pending' \subseteq pending \cup {tx} /\ pc' \in {"wait", "sleep"}
    BY <1>5 DEF Submit, Goto, Fail
  <2>. QED
    BY <2>1, <2>2 DEF Inv, SecretsAreOnDisk, NotRegistered
<1>6. CASE Commit
  BY <1>6 DEF Commit, Fail, Goto, Inv, SecretsAreOnDisk, ledger, NotRegistered
<1>7. CASE Crash \/ Restart
  BY <1>7 DEF Crash, Restart, Goto, Inv, SecretsAreOnDisk, ledger, NotRegistered
<1>8. CASE \E t \in pending : Include(t)
  <2>1. PICK t \in pending : Include(t)
    BY <1>8
  <2>2. position' = t.list /\ pending' = {} /\ UNCHANGED <<file, pc, tx>>
    BY <2>1 DEF Include, ChainMoves
  <2>. QED
    BY <2>1, <2>2 DEF Inv, SecretsAreOnDisk
<1>9. CASE \E t \in pending : Drop(t)
  <2>1. pending' \subseteq pending /\ UNCHANGED <<position, file, pc, tx>>
    BY <1>9 DEF Drop
  <2>. QED
    BY <2>1 DEF Inv, SecretsAreOnDisk, NotRegistered
<1>10. CASE OthersTransact
  BY <1>10 DEF OthersTransact, ChainMoves, Inv, SecretsAreOnDisk, NotRegistered
<1>11. CASE Tick
  <2>1. pending' \subseteq pending /\ UNCHANGED <<position, file, pc, tx>>
    BY <1>11 DEF Tick
  <2>. QED
    BY <2>1 DEF Inv, SecretsAreOnDisk, NotRegistered
<1>12. CASE UNCHANGED vars
  BY <1>12 DEF vars, ledger, Inv, SecretsAreOnDisk, NotRegistered
<1>. QED
  BY <1>1, <1>2, <1>3, <1>4, <1>5, <1>6, <1>7, <1>8, <1>9, <1>10, <1>11, <1>12
     DEF Next, MinerStep, Registration

\* Whatever crashes, is lost or comes late, the miner has the secrets of its
\* position.
THEOREM SecretsStayOnDisk == Spec => []SecretsAreOnDisk
<1>1. Init => Inv
  BY DEF Init, Inv, SecretsAreOnDisk, NotRegistered
<1>2. Inv /\ [Next]_vars => Inv'
  BY StepKeeps
<1>3. Inv => SecretsAreOnDisk
  BY DEF Inv
<1>. QED
  BY <1>1, <1>2, <1>3, PTL DEF Spec

-----------------------------------------------------------------------------
(* Whole lists.                                                            *)

\* A block is built only for a position that was found, and positions stay; what is
\* submitted and waited for was built.
TypeInv ==
  /\ TypeOK
  /\ pc = "build" => position # NotRegistered
  /\ pc \in {"register", "submit", "wait"} => tx \in Transactions

\* The empty list of a missing position is never a list of hashes.
LEMMA ListsAreNotEmpty == NotRegistered \notin Lists
<1>1. ASSUME NotRegistered \in Lists
      PROVE  FALSE
  <2>1. NotRegistered \in [1..ListLength -> Secrets]
    BY <1>1 DEF Lists
  <2>2. DOMAIN NotRegistered = 1..ListLength
    BY <2>1
  <2>3. DOMAIN NotRegistered = {}
    BY DEF NotRegistered
  <2>4. 1 \in 1..ListLength
    BY ListAssumption
  <2>. QED
    BY <2>2, <2>3, <2>4
<1>. QED
  BY <1>1

\* Rotation keeps the length of a list.
LEMMA RotatedIsList ==
  ASSUME NEW list \in Lists, NEW fresh \in Secrets
  PROVE  Rotated(list, fresh) \in Lists
<1>1. /\ list \in Seq(Secrets)
      /\ list # << >>
      /\ Len(list) = ListLength
  <2>1. list \in [1..ListLength -> Secrets] /\ ListLength \in Nat \ {0}
    BY ListAssumption DEF Lists
  <2>2. list \in Seq(Secrets)
    BY <2>1
  <2>3. Len(list) = ListLength
    BY <2>1, <2>2, LenProperties
  <2>. QED
    BY <2>1, <2>2, <2>3, LenProperties
<1>2. /\ Tail(list) \in Seq(Secrets)
      /\ Len(Tail(list)) = ListLength - 1
  BY <1>1, HeadTailProperties
<1>3. /\ Rotated(list, fresh) \in Seq(Secrets)
      /\ Len(Rotated(list, fresh)) = ListLength
  BY <1>2, AppendProperties, ListAssumption DEF Rotated
<1>. QED
  BY <1>3, LenProperties, ElementOfSeq DEF Lists

\* The length of the slot leader interval.
LEMMA IntervalIsPositive == IntervalTicks \in Nat \ {0}
<1>1. \A m, n \in Nat \ {0} : m * n \in Nat \ {0}
  OBVIOUS
<1>. QED
  BY <1>1, TimesAssumption DEF IntervalTicks

\* The list that is appended is a whole one, made of new secrets.
LEMMA WrittenLists ==
  ASSUME TypeOK, NEW list \in Lists, WriteAhead(list)
  PROVE  file' \subseteq Lists
BY DEF WriteAhead, TypeOK

LEMMA RegistrationTypes ==
  ASSUME TypeInv, WriteRegistration \/ SubmitRegistration
  PROVE  TypeInv'
<1>1. StepTime \in Nat /\ 0 \in Nat
  BY TimesAssumption
<1>2. CASE WriteRegistration
  <2>1. PICK list \in [1..ListLength -> FreshSecrets] :
          /\ WriteAhead(list)
          /\ tx' = [kind |-> "register", list |-> list, upper |-> NoLimit]
    BY <1>2 DEF WriteRegistration
  <2>2. list \in Lists
    BY DEF Lists, FreshSecrets
  <2>3. file' \subseteq Lists
    BY <2>1, <2>2, WrittenLists DEF TypeInv
  <2>4. tx' \in Transactions
    <3>1. NoLimit \in 1..NoLimit
      BY IntervalIsPositive DEF NoLimit
    <3>. QED
      BY <2>1, <2>2, <3>1 DEF Transactions
  <2>6. view' \in [current : BOOLEAN, in_slot : BOOLEAN, leads : BOOLEAN]
    BY <1>2 DEF WriteRegistration, NoView
  <2>7. pc' = "register" /\ timer' \in Nat
    BY <1>1, <1>2 DEF WriteRegistration, Goto
  <2>8. UNCHANGED <<clock, mined, elected, position, pending, committed, attached, faults>>
    BY <1>2 DEF WriteRegistration, ledger
  <2>. QED
    BY <2>3, <2>4, <2>6, <2>7, <2>8 DEF TypeInv, TypeOK
<1>3. CASE SubmitRegistration
  <2>1. /\ UNCHANGED <<clock, mined, elected, position, file, view, tx, attached, faults>>
        /\ pc' = "sleep" /\ timer' \in Nat
    BY <1>1, <1>3 DEF SubmitRegistration, Goto
  <2>2. pending' \subseteq pending \cup {tx} /\ committed' \in {committed, tx.list}
    BY <1>3 DEF SubmitRegistration
  <2>3. tx \in Transactions /\ tx.list \in Lists
    BY <1>3 DEF SubmitRegistration, TypeInv, Transactions
  <2>4. pending' \subseteq Transactions /\ committed' \in Lists \cup {NotRegistered}
    BY <2>2, <2>3 DEF TypeInv, TypeOK
  <2>. QED
    BY <2>1, <2>4 DEF TypeInv, TypeOK
<1>. QED
  BY <1>2, <1>3

LEMMA LookTypes ==
  ASSUME TypeInv, Look
  PROVE  TypeInv'
<1>1. /\ UNCHANGED <<clock, mined, elected, position, pending, file, committed, faults>>
      /\ tx' = NoTx /\ attached' = FALSE
  BY DEF Look, ledger
<1>2. {StepTime, Retry} \subseteq Nat
  BY TimesAssumption
<1>3. /\ pc' \in {"build", "sleep"} /\ timer' \in Nat
      /\ pc' = "build" => position \in file
  BY <1>2 DEF Look, Goto, Fail, FindsPosition
<1>4. view' \in [current : BOOLEAN, in_slot : BOOLEAN, leads : BOOLEAN]
  <2>1. elected \in BOOLEAN /\ mined \in BOOLEAN
    BY DEF TypeInv, TypeOK
  <2>2. AtIntervalStart \in BOOLEAN
    BY DEF AtIntervalStart
  <2>3. (elected /\ ~ mined) \in BOOLEAN
    OBVIOUS
  <2>4. \/ view' = [current |-> TRUE, in_slot |-> AtIntervalStart,
                    leads |-> elected /\ ~ mined]
        \/ view' = NoView
    BY DEF Look
  <2>5. NoView \in [current : BOOLEAN, in_slot : BOOLEAN, leads : BOOLEAN]
    BY DEF NoView
  <2>6. [current |-> TRUE, in_slot |-> AtIntervalStart, leads |-> elected /\ ~ mined]
          \in [current : BOOLEAN, in_slot : BOOLEAN, leads : BOOLEAN]
    BY <2>2, <2>3
  <2>. QED
    BY <2>4, <2>5, <2>6
<1>5. position \in file => position # NotRegistered
  BY ListsAreNotEmpty DEF TypeInv, TypeOK
<1>. QED
  BY <1>1, <1>3, <1>4, <1>5 DEF TypeInv, TypeOK

LEMMA BuildTypes ==
  ASSUME TypeInv, Build
  PROVE  TypeInv'
<1>1. UNCHANGED <<clock, mined, elected, position, pending, committed, view, attached, faults>>
  BY DEF Build, ledger
<1>2. StepTime \in Nat /\ Retry \in Nat /\ Width \in Nat
  BY TimesAssumption
<1>3. CASE Fail /\ UNCHANGED <<file, tx>>
  BY <1>1, <1>2, <1>3 DEF Fail, Goto, TypeInv, TypeOK
<1>4. ASSUME NEW lag \in 0..MaxLag, NEW fresh \in FreshSecrets,
             InInterval(clock - lag, (clock - lag) + Width),
             WriteAhead(Rotated(position, fresh)),
             tx' = [kind |-> "mine", list |-> Rotated(position, fresh),
                    upper |-> (clock - lag) + Width],
             Goto("submit", StepTime)
      PROVE  TypeInv'
  <2>1. position \in Lists
    BY DEF Build, TypeInv, TypeOK
  <2>2. Rotated(position, fresh) \in Lists
    BY <2>1, RotatedIsList DEF FreshSecrets
  <2>3. file' \subseteq Lists
    BY <1>4, <2>2, WrittenLists DEF TypeInv
  <2>4. (clock - lag) + Width \in 1..NoLimit
    <3>1. clock \in Nat /\ lag \in Nat /\ IntervalTicks \in Nat
      BY TimesAssumption, IntervalIsPositive DEF TypeInv, TypeOK
    <3>. QED
      BY <1>2, <1>4, <3>1 DEF InInterval, NoLimit
  <2>5. tx' \in Transactions
    BY <1>4, <2>2, <2>4 DEF Transactions
  <2>6. pc' = "submit" /\ timer' \in Nat
    BY <1>2, <1>4 DEF Goto
  <2>. QED
    BY <1>1, <2>3, <2>5, <2>6 DEF TypeInv, TypeOK
<1>5. \/ Fail /\ UNCHANGED <<file, tx>>
      \/ \E lag \in 0..MaxLag, fresh \in FreshSecrets :
           /\ InInterval(clock - lag, (clock - lag) + Width)
           /\ WriteAhead(Rotated(position, fresh))
           /\ tx' = [kind |-> "mine", list |-> Rotated(position, fresh),
                     upper |-> (clock - lag) + Width]
           /\ Goto("submit", StepTime)
  BY DEF Build
<1>. QED
  BY <1>3, <1>4, <1>5

LEMMA SubmitTypes ==
  ASSUME TypeInv, Submit
  PROVE  TypeInv'
<1>1. /\ UNCHANGED <<clock, mined, elected, position, file, committed, view, tx, attached>>
      /\ pending' \subseteq pending \cup {tx}
      /\ tx \in Transactions
  BY DEF Submit, TypeInv
<1>2. /\ pc' \in {"wait", "sleep"}
      /\ timer' \in Nat
  <2>1. CommitTime \in Nat /\ Retry \in Nat
    BY TimesAssumption
  <2>. QED
    BY <2>1 DEF Submit, Goto, Fail
<1>3. faults' \in 0..MaxFaults
  <2>1. faults' = faults \/ Fault
    BY DEF Submit
  <2>2. faults \in 0..MaxFaults /\ MaxFaults \in Nat
    BY TimesAssumption DEF TypeInv, TypeOK
  <2>. QED
    BY <2>1, <2>2 DEF Fault
<1>. QED
  BY <1>1, <1>2, <1>3 DEF TypeInv, TypeOK

LEMMA CommitTypes ==
  ASSUME TypeInv, Commit
  PROVE  TypeInv'
<1>1. /\ UNCHANGED <<clock, mined, elected, position, pending, file, view, tx, attached, faults>>
      /\ committed' \in {committed, tx.list}
      /\ tx \in Transactions
  BY DEF Commit, ledger, TypeInv
<1>2. pc' = "sleep" /\ timer' \in Nat
  BY TimesAssumption DEF Commit, Fail, Goto
<1>3. tx.list \in Lists
  BY <1>1 DEF Transactions
<1>. QED
  BY <1>1, <1>2, <1>3 DEF TypeInv, TypeOK

LEMMA FaultTypes ==
  ASSUME TypeInv, Crash \/ Restart
  PROVE  TypeInv'
<1>1. UNCHANGED <<clock, mined, elected, position, pending, file, committed>>
  BY DEF Crash, Restart, ledger
<1>2. CASE Crash
  <2>1. /\ pc' = "down" /\ timer' = 0 /\ view' = NoView /\ tx' = NoTx
        /\ attached' = FALSE /\ Fault
    BY <1>2 DEF Crash, Goto
  <2>2. view' \in [current : BOOLEAN, in_slot : BOOLEAN, leads : BOOLEAN]
    BY <2>1 DEF NoView
  <2>3. faults' \in 0..MaxFaults
    BY <2>1, TimesAssumption DEF Fault, TypeInv, TypeOK
  <2>. QED
    BY <1>1, <2>1, <2>2, <2>3 DEF TypeInv, TypeOK
<1>3. CASE Restart
  BY <1>1, <1>3 DEF Restart, Goto, TypeInv, TypeOK
<1>. QED
  BY <1>2, <1>3

\* Steps of the ledger.
LEMMA LedgerTypes ==
  ASSUME TypeInv,
         \/ \E t \in pending : Include(t)
         \/ \E t \in pending : Drop(t)
         \/ OthersTransact
  PROVE  TypeInv'
<1>1. view \in [current : BOOLEAN, in_slot : BOOLEAN, leads : BOOLEAN]
  BY DEF TypeInv, TypeOK
<1>2. [view EXCEPT !.current = FALSE]
        \in [current : BOOLEAN, in_slot : BOOLEAN, leads : BOOLEAN]
  BY <1>1
<1>3. ASSUME ChainMoves
      PROVE  /\ pending' = {} /\ elected' \in BOOLEAN
             /\ view' \in [current : BOOLEAN, in_slot : BOOLEAN, leads : BOOLEAN]
  BY <1>2, <1>3, RivalsAssumption DEF ChainMoves
<1>4. ASSUME NEW t \in pending, Include(t)
      PROVE  TypeInv'
  <2>1. ChainMoves /\ UNCHANGED <<clock, file, committed, pc, timer, tx, faults>>
    BY <1>4 DEF Include
  <2>2. position' = t.list /\ t.list \in Lists /\ t.list # NotRegistered
    BY <1>4, ListsAreNotEmpty DEF Include, TypeInv, TypeOK, Transactions
  <2>3. mined' \in BOOLEAN /\ attached' \in BOOLEAN
    BY <1>4 DEF Include
  <2>. QED
    BY <1>3, <2>1, <2>2, <2>3 DEF TypeInv, TypeOK
<1>5. ASSUME NEW t \in pending, Drop(t)
      PROVE  TypeInv'
  BY <1>5 DEF Drop, TypeInv, TypeOK
<1>6. CASE OthersTransact
  <2>1. /\ ChainMoves /\ mined' \in BOOLEAN
        /\ UNCHANGED <<clock, position, file, committed, pc, timer, tx, attached, faults>>
    BY <1>6 DEF OthersTransact, TypeInv, TypeOK
  <2>. QED
    BY <1>3, <2>1 DEF TypeInv, TypeOK
<1>. QED
  BY <1>4, <1>5, <1>6

LEMMA TickTypes ==
  ASSUME TypeInv, Tick
  PROVE  TypeInv'
<1>1. /\ UNCHANGED <<elected, position, file, committed, pc, tx, attached, faults>>
      /\ pending' \subseteq pending
  BY DEF Tick
<1>2. clock' \in 0..(IntervalTicks - 1)
  BY IntervalIsPositive DEF Tick, TypeInv, TypeOK
<1>3. mined' \in BOOLEAN
  BY DEF Tick
<1>4. timer' \in Nat
  BY DEF Tick, TypeInv, TypeOK
<1>5. view' \in [current : BOOLEAN, in_slot : BOOLEAN, leads : BOOLEAN]
  <2>1. view' = [view EXCEPT !.in_slot = view.in_slot /\ clock' # 0]
    BY DEF Tick
  <2>2. (view.in_slot /\ clock' # 0) \in BOOLEAN
    OBVIOUS
  <2>. QED
    BY <2>1, <2>2 DEF TypeInv, TypeOK
<1>. QED
  BY <1>1, <1>2, <1>3, <1>4, <1>5 DEF TypeInv, TypeOK

LEMMA StepTypes ==
  ASSUME TypeInv, [Next]_vars
  PROVE  TypeInv'
<1>1. CASE Registration
  BY <1>1, RegistrationTypes DEF Registration
<1>2. CASE MinerStep
  BY <1>2, LookTypes, BuildTypes, SubmitTypes, CommitTypes DEF MinerStep
<1>3. CASE Crash \/ Restart
  BY <1>3, FaultTypes
<1>4. CASE \/ \E t \in pending : Include(t)
           \/ \E t \in pending : Drop(t)
           \/ OthersTransact
  BY <1>4, LedgerTypes
<1>5. CASE Tick
  BY <1>5, TickTypes
<1>6. CASE UNCHANGED vars
  BY <1>6 DEF vars, ledger, TypeInv, TypeOK
<1>. QED
  BY <1>1, <1>2, <1>3, <1>4, <1>5, <1>6 DEF Next

\* The file, the transactions and the position hold whole lists of hashes only: a
\* rotation is as long as the list it replaces (mine.py, util.py).
THEOREM MinerTypeCorrectness == Spec => []TypeOK
<1>1. Init => TypeInv
  <2>. SUFFICES ASSUME Init
                PROVE  TypeInv
    OBVIOUS
  <2>1. clock \in 0..(IntervalTicks - 1)
    BY IntervalIsPositive DEF Init
  <2>2. view \in [current : BOOLEAN, in_slot : BOOLEAN, leads : BOOLEAN]
    BY DEF Init, NoView
  <2>3. elected \in BOOLEAN
    BY RivalsAssumption DEF Init
  <2>4. faults \in 0..MaxFaults
    BY TimesAssumption DEF Init
  <2>. QED
    BY <2>1, <2>2, <2>3, <2>4 DEF Init, TypeInv, TypeOK
<1>2. TypeInv /\ [Next]_vars => TypeInv'
  BY StepTypes
<1>3. TypeInv => TypeOK
  BY DEF TypeInv
<1>. QED
  BY <1>1, <1>2, <1>3, PTL DEF Spec

=============================================================================
