------------------------------- MODULE Miner -------------------------------
(***************************************************************************)
(* The mining loop of one stake holder (offchain/stakechain/mine.py) on a  *)
(* v1 chain, its secrets file (offchain/util.py), and the ledger it talks  *)
(* to.                                                                     *)
(*                                                                         *)
(* A position commits to a list of hashes; who holds the secrets behind    *)
(* them can attach a block, which reveals the first and appends the hash   *)
(* of a fresh one.  The secrets exist only in an append-only file of the   *)
(* miner.  A hash stands for its secret here.                              *)
(*                                                                         *)
(* Every transaction spends the chain UTxO, so the inclusion of one makes  *)
(* all others that are under way invalid.  Time is counted in ticks within *)
(* one slot leader interval.  A tick is many ledger slots long, which      *)
(* makes the "+ 1" of the code's validity_start disappear.                 *)
(***************************************************************************)
EXTENDS Integers, Sequences, SequencesExt

CONSTANTS
  Secrets,        \* 32 byte values the miner can draw
  ListLength,     \* length of committed_hashes, 5 in the code
  SlotLength,     \* params.slot_length
  Interval,       \* params.slot_leader_interval
  Width,          \* tx_validity_width
  Retry,          \* retry_interval
  CommitTime,     \* commit_interval
  StepTime,       \* the longest that a step of an attempt takes
  MaxLag,         \* how far the last ledger block may lie behind the clock
  Rivals,         \* others use the chain
  MaxFaults       \* bound: crashes of the loop and lost answers of the node

ASSUME TimesAssumption ==
  /\ {SlotLength, Interval, Width, Retry, CommitTime} \subseteq Nat \ {0}
  /\ {StepTime, MaxLag, MaxFaults} \subseteq Nat
ASSUME ListAssumption == ListLength \in Nat \ {0}
ASSUME RivalsAssumption == Rivals \in BOOLEAN

VARIABLES
  clock,      \* ticks since the slot leader interval began
  mined,      \* the chain already has a block of this interval
  elected,    \* the position is slot leader number 0 of the next block
  position,   \* committed_hashes of the position on the ledger
  pending,    \* transactions submitted and not yet included
  file,       \* the lists in the secrets file
  committed,  \* the newest list in the file that is not a write-ahead
  pc,         \* what the loop does next
  timer,      \* ticks until it must do so
  view,       \* what the attempt under way knows of the ledger
  tx,         \* the transaction of that attempt
  attached,   \* it has been included
  faults      \* counts crashes and lost answers

ledger == <<clock, mined, elected, position, pending>>
vars == <<ledger, file, committed, pc, timer, view, tx, attached, faults>>

IntervalTicks == SlotLength * Interval

Lists == [1..ListLength -> Secrets]
NotRegistered == <<>>
NoLimit == IntervalTicks + 1

\* A registration has no validity interval.
Transactions ==
  [kind : {"register", "mine"}, list : Lists, upper : 1..NoLimit]
NoTx == [kind |-> "none", list |-> NotRegistered, upper |-> NoLimit]

NoView == [current |-> FALSE, in_slot |-> FALSE, leads |-> FALSE]

-----------------------------------------------------------------------------
(***************************************************************************)
(* Broken variants of the definitions below, one plausible bug each.       *)
(***************************************************************************)
Bug_FileOverwritten(list) == file' = {list}
Bug_CommittedOnly == position = committed /\ committed # NotRegistered
Bug_NoRetry == pc' = "stopped" /\ timer' = 0

-----------------------------------------------------------------------------
(* The secrets file.                                                       *)

\* Lists that are the position's, or may become so.
Alive == {position, tx.list} \cup {t.list : t \in pending}

SecretsOf(lists) == UNION {ToSet(list) : list \in lists}

\* write_ahead_hash_secrets appends.  The model forgets the lists that no
\* transaction can bring to the ledger any more.
WriteAhead(list) == file' = (file \cap Alive) \cup {list}

\* secrets.token_bytes never returns a secret that is in use.
FreshSecrets == Secrets \ SecretsOf(file \cup Alive)

\* stakeholder_secrets[1:] + [a fresh one]
Rotated(list, fresh) == Append(Tail(list), fresh)

-----------------------------------------------------------------------------
(* Steps of the loop.                                                      *)

Goto(step, time) == pc' = step /\ timer' = time

\* Whatever raises, the loop sleeps and tries again.
Fail == Goto("sleep", Retry)

Fault == faults < MaxFaults /\ faults' = faults + 1

Init ==
  /\ clock = 0
  /\ mined = FALSE
  /\ elected \in IF Rivals THEN BOOLEAN ELSE {TRUE}
  /\ position = NotRegistered
  /\ pending = {}
  /\ file = {}
  /\ committed = NotRegistered
  /\ pc = "sleep"
  /\ timer = 0
  /\ view = NoView
  /\ tx = NoTx
  /\ attached = FALSE
  /\ faults = 0

\* stakeholder/init.py: ListLength fresh secrets, written before the submission.
\* The operator runs it while the loop sleeps, again if the transaction got lost.
WriteRegistration ==
  /\ pc = "sleep"
  /\ position = NotRegistered
  /\ pending = {}
  /\ \E list \in [1..ListLength -> FreshSecrets] :
       /\ IsInjective(list)
       /\ WriteAhead(list)
       /\ tx' = [kind |-> "register", list |-> list, upper |-> NoLimit]
  /\ view' = [NoView EXCEPT !.current = TRUE]
  /\ Goto("register", StepTime)
  /\ UNCHANGED <<ledger, committed, attached, faults>>

\* The list is marked committed as soon as the node has answered.
SubmitRegistration ==
  /\ pc = "register"
  /\ IF view.current
       THEN pending' = pending \cup {tx} /\ committed' = tx.list
       ELSE UNCHANGED <<pending, committed>>
  /\ Goto("sleep", 0)
  /\ UNCHANGED <<clock, mined, elected, position, file, view, tx, attached, faults>>

\* The clock is in the first slot of a slot leader interval: another slot number
\* is refused by the chain script.
AtIntervalStart == clock < SlotLength

\* The position is found by its secrets: all lists of the file are tried.
FindsPosition == position \in file

\* The chain and the position are read, the slot is taken from the clock.
Look ==
  /\ pc = "sleep"
  /\ timer = 0
  /\ IF FindsPosition
       THEN /\ Goto("build", StepTime)
            /\ view' = [current |-> TRUE, in_slot |-> AtIntervalStart,
                        leads |-> elected /\ ~ mined]
       ELSE Fail /\ view' = NoView
  /\ tx' = NoTx
  /\ attached' = FALSE
  /\ UNCHANGED <<ledger, file, committed, faults>>

\* check_slot_of_tx: strictly within the slot leader interval.
InInterval(lower, upper) == 0 < lower /\ upper <= IntervalTicks

\* The transaction is built, which runs the scripts and raises if they fail, and
\* the rotated list is written.
Build ==
  /\ pc = "build"
  /\ \E lag \in 0..MaxLag :
       LET lower == clock - lag
           upper == lower + Width
       IN  IF view.in_slot /\ view.leads /\ InInterval(lower, upper)
             THEN \E fresh \in FreshSecrets :
                    LET list == Rotated(position, fresh) IN
                    /\ WriteAhead(list)
                    /\ tx' = [kind |-> "mine", list |-> list, upper |-> upper]
                    /\ Goto("submit", StepTime)
             ELSE Fail /\ UNCHANGED <<file, tx>>
  /\ UNCHANGED <<ledger, committed, view, attached, faults>>

\* The node takes the transaction if its inputs are unspent and it is not too
\* late.  Its answer may get lost.
Submit ==
  /\ pc = "submit"
  /\ \/ /\ view.current /\ view.in_slot /\ clock < tx.upper
        /\ pending' = pending \cup {tx}
        /\ \/ Goto("wait", CommitTime) /\ UNCHANGED faults
           \/ Fail /\ Fault
     \/ /\ ~ (view.current /\ view.in_slot /\ clock < tx.upper)
        /\ Fail
        /\ UNCHANGED <<pending, faults>>
  /\ UNCHANGED <<clock, mined, elected, position, file, committed, view, tx,
                 attached>>

\* utxo_by_tx_id: a transaction that was included is found, unless its output is
\* already spent again.
MayBeFound == attached

\* After the wait the list is marked committed, or the check raises.
Commit ==
  /\ pc = "wait"
  /\ timer = 0
  /\ \/ MayBeFound /\ committed' = tx.list
     \/ UNCHANGED committed
  /\ Fail
  /\ UNCHANGED <<ledger, file, view, tx, attached, faults>>

MinerStep == Look \/ Build \/ Submit \/ Commit
Registration == WriteRegistration \/ SubmitRegistration

\* Only the ledger and the file survive.
Crash ==
  /\ pc # "down"
  /\ Fault
  /\ Goto("down", 0)
  /\ view' = NoView
  /\ tx' = NoTx
  /\ attached' = FALSE
  /\ UNCHANGED <<ledger, file, committed>>

Restart ==
  /\ pc = "down"
  /\ Goto("sleep", 0)
  /\ UNCHANGED <<ledger, file, committed, view, tx, attached, faults>>

-----------------------------------------------------------------------------
(* The ledger.                                                             *)

\* The chain UTxO is spent: what was built or submitted before is void.
ChainMoves ==
  /\ pending' = {}
  /\ view' = [view EXCEPT !.current = FALSE]
  /\ elected' \in IF Rivals THEN BOOLEAN ELSE {TRUE}

Include(t) ==
  /\ t \in pending
  /\ t.kind = "register" => position = NotRegistered
  /\ ChainMoves
  /\ position' = t.list
  /\ mined' = (mined \/ t.kind = "mine")
  /\ attached' = (attached \/ t = tx)
  /\ UNCHANGED <<clock, file, committed, pc, timer, tx, faults>>

\* A transaction is lost, or another one is included in its place.
Drop(t) ==
  /\ t \in pending
  /\ pending' = pending \ {t}
  /\ UNCHANGED <<clock, mined, elected, position, file, committed, pc, timer, view,
                 tx, attached, faults>>

\* Somebody else registers, leaves, updates stake, or attaches a block.
OthersTransact ==
  /\ Rivals
  /\ ChainMoves
  /\ mined' \in {mined, TRUE}
  /\ UNCHANGED <<clock, position, file, committed, pc, timer, tx, attached, faults>>

\* A step of the loop that is due happens before time goes on.
Due == timer = 0 /\ pc \in {"sleep", "register", "build", "submit", "wait"}

\* Validity intervals end within the slot leader interval.
Tick ==
  /\ ~ Due
  /\ clock' = (clock + 1) % IntervalTicks
  /\ mined' = (mined /\ clock' # 0)
  /\ pending' = {t \in pending : clock + 1 < t.upper}
  /\ view' = [view EXCEPT !.in_slot = @ /\ clock' # 0]
  /\ timer' = IF timer = 0 THEN 0 ELSE timer - 1
  /\ UNCHANGED <<elected, position, file, committed, pc, tx, attached, faults>>

-----------------------------------------------------------------------------
Next ==
  \/ Registration
  \/ MinerStep
  \/ Crash
  \/ Restart
  \/ \E t \in pending : Include(t)
  \/ \E t \in pending : Drop(t)
  \/ OthersTransact
  \/ Tick

Spec == Init /\ [][Next]_vars

\* Time passes, the loop runs and is restarted, and a node does not lose each of
\* infinitely many transactions.
Fairness ==
  /\ WF_vars(Tick)
  /\ WF_vars(MinerStep)
  /\ WF_vars(Restart)
  /\ SF_vars(Registration)
  /\ SF_vars(\E t \in pending : Include(t))

FairSpec == Spec /\ Fairness

-----------------------------------------------------------------------------
TypeOK ==
  /\ clock \in 0..(IntervalTicks - 1)
  /\ {mined, elected, attached} \subseteq BOOLEAN
  /\ {position, committed} \subseteq Lists \cup {NotRegistered}
  /\ pending \subseteq Transactions
  /\ file \subseteq Lists
  /\ pc \in {"sleep", "register", "build", "submit", "wait", "down"}
  /\ timer \in Nat
  /\ view \in [current : BOOLEAN, in_slot : BOOLEAN, leads : BOOLEAN]
  /\ tx \in Transactions \cup {NoTx}
  /\ faults \in 0..MaxFaults

\* The secrets of the position are in the file, whenever the loop crashed and
\* however late a transaction is included: otherwise the stake holder could not
\* attach a block any more (mine.py:393, "may lead to need to recover the pool
\* secrets").
SecretsAreOnDisk ==
  /\ position # NotRegistered => position \in file
  /\ \A t \in pending : t.list \in file

\* A block of the position: its list is rotated.
Attached == position # NotRegistered /\ position' # position

\* Once the others leave the chain alone and the position is the slot leader, it
\* attaches blocks for ever, whatever transactions and answers are lost and
\* wherever the loop crashes.
KeepsMining ==
  <>[][~ OthersTransact]_vars /\ <>[]elected => []<><<Attached>>_vars

=============================================================================
