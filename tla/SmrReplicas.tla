---------------------------- MODULE SmrReplicas ----------------------------
(***************************************************************************)
(* Replicas of one of the repository's state machines.  The log of batches  *)
(* that consensus delivers is the same for all of them; each replica works   *)
(* through it at its own pace, by its own clock, with its own random numbers *)
(* and its own hash maps, starts again from nothing or from the serialized   *)
(* state of another one, and may be cloned.                                  *)
(* A workload says which machine is replicated and which batches come.       *)
(***************************************************************************)
EXTENDS Integers, Sequences, FiniteSets, SequencesExt, Functions

CONSTANTS Replicas, None, Workloads,
          Accounts, Keys, Values,           \* what the commands speak of
          MinInt, MaxInt, MaxAmount,        \* the machines' integers, and a limit
          max_keys,
          MaxLog, MaxSnapshots, MaxRestarts, MaxLocal  \* bounds

ASSUME SmrAssumption ==
  /\ {MinInt, MaxInt, MaxAmount} \subseteq Int
  /\ MinInt < 0 /\ 0 < MaxAmount /\ MaxAmount <= MaxInt
  /\ max_keys \in Nat /\ {MaxLog, MaxSnapshots, MaxRestarts, MaxLocal} \subseteq Nat

\* Account ids have a bounded length (validate_account_id), and None is not an account.
ASSUME AccountsAssumption ==
  /\ IsFiniteSet(Accounts) /\ None \notin Accounts
  /\ None \notin [balance : Int, transaction_count : Nat,
                  created_at : Nat, last_transaction_at : Nat]

\* None is not an entry of the store either.
ASSUME EntriesAssumption ==
  None \notin [value : Values, version : Nat, created_at : Nat, updated_at : Nat]

VARIABLES
  workload,   \* the machine, the batches that consensus may deliver, a bound on the clocks
  log,        \* batches delivered
  state,      \* per replica: the machine's state, or None after a panic
  applied,    \* per replica: batches applied
  answers,    \* per replica and batch: the answers given, None if it was skipped
  now,        \* per replica: the clock (SystemTime::now)
  snapshot,   \* the state serialized last: [bytes, applied], or None
  taken, restarts, local  \* calls made, for the bounds

vars == <<workload, log, state, applied, answers, now, snapshot, taken, restarts, local>>

Counter == INSTANCE CounterSMR
Bank    == INSTANCE BankingSMR
Store   == INSTANCE KVStoreSMR WITH enable_notifications <- TRUE
Text    == INSTANCE KVStateMachines

Machines == {"counter", "bank", "checked_bank", "store", "in_memory", "simple"}
Banks    == {"bank", "checked_bank"}
machine  == workload.machine

\* The commands that the machines' command types hold; amounts are i64.
BankOps ==
  {"CreateAccount", "Deposit", "Withdraw", "Transfer", "GetBalance", "GetAccount",
   "ListAccounts", "GetTransactionHistory"}
IsCommand(m, c) ==
  CASE m = "counter" -> /\ c.op \in {"Increment", "Decrement", "Set", "Get", "Reset"}
                        /\ c.value \in MinInt..MaxInt
    [] m \in Banks   -> /\ c.op \in BankOps
                        /\ c.op \in {"CreateAccount", "Deposit", "Withdraw", "Transfer"}
                             => c.amount \in MinInt..MaxInt
                        /\ c.op = "GetTransactionHistory" => c.limit \in Nat \cup {None}
    [] m = "store"     -> c.op \in {"Set", "Get", "Exists", "Delete"}
    [] m = "in_memory" -> c.op \in {"SET", "GET", "DEL", "malformed"} /\ c.utf8 \in BOOLEAN
    [] m = "simple"    -> /\ c.op \in {"SET", "GET", "DEL", "LIST", "COUNT", "malformed"}
                          /\ c.utf8 \in BOOLEAN

ASSUME WorkloadsAssumption ==
  \A w \in Workloads : /\ w.machine \in Machines
                       /\ \A b \in w.batches : /\ b \in Seq(ToSet(b))
                                               /\ \A j \in DOMAIN b : IsCommand(w.machine, b[j])

New(m) == CASE m = "counter"   -> Counter!new
            [] m \in Banks     -> Bank!new
            [] m = "store"     -> Store!new
            [] m = "in_memory" -> Text!in_memory_new
            [] m = "simple"    -> Text!simple_new

\* env: what the process adds to a command, its clock, its random numbers and the
\* order of its hash map
apply_command(m, s, c, env) ==
  CASE m = "counter"   -> Counter!apply_command(s, c)
    [] m \in Banks     -> Bank!apply_command(s, c, env, m = "checked_bank")
    [] m = "store"     -> Store!apply_command(s, c, env.now)
    [] m = "in_memory" -> Text!in_memory_apply_command(s, c)
    [] m = "simple"    -> Text!simple_apply_command(s, c, env.order)

serialize_state(m, s) ==
  CASE m = "counter"   -> Counter!serialize_state(s)
    [] m \in Banks     -> Bank!serialize_state(s)
    [] m = "store"     -> Store!serialize_state(s)
    [] m = "in_memory" -> Text!in_memory_snapshot(s)
    [] m = "simple"    -> Text!simple_snapshot(s)

deserialize_state(m, s, bytes) ==
  CASE m = "counter"   -> Counter!deserialize_state(s, bytes)
    [] m \in Banks     -> Bank!deserialize_state(s, bytes)
    [] m = "store"     -> Store!deserialize_state(s, bytes)
    [] m = "in_memory" -> Text!in_memory_restore(s, bytes)
    [] m = "simple"    -> Text!simple_restore(s, bytes)

\* apply_commands of both interfaces: one command after the other.  An Err, which
\* only SimpleKVStateMachine returns, ends the batch and its answers are lost;
\* a panic ends the replica.
apply_commands(m, s, batch, env) ==
  LET done[i \in 0..Len(batch)] ==
        IF i = 0 THEN [state |-> s, status |-> "ok", answers |-> <<>>]
        ELSE LET before == done[i - 1]
                 one    == apply_command(m, before.state, batch[i], env)
             IN  IF before.status # "ok" THEN before
                 ELSE [state |-> one.state, status |-> one.status,
                       answers |-> IF one.status = "ok" THEN Append(before.answers, one.answer)
                                   ELSE <<>>]
  IN  done[Len(batch)]

NoAnswers == [i \in 1..MaxLog |-> None]

Init ==
  /\ workload \in Workloads
  /\ log = <<>>
  /\ state = [r \in Replicas |-> New(machine)]
  /\ applied = [r \in Replicas |-> 0]
  /\ answers = [r \in Replicas |-> NoAnswers]
  /\ now = [r \in Replicas |-> 0]
  /\ snapshot = None /\ taken = 0 /\ restarts = 0 /\ local = 0

Up(r) == state[r] # None

\* Consensus delivers one more batch.
deliver(b) ==
  /\ Len(log) < MaxLog
  /\ log' = Append(log, b)
  /\ UNCHANGED <<workload, state, applied, answers, now, snapshot, taken, restarts, local>>

\* The orders in which a hash map may come across what a machine lists
Orders ==
  LET listed == IF machine \in Banks THEN Accounts ELSE IF machine = "simple" THEN Keys ELSE {}
  IN  Injection(listed, 1..Cardinality(listed))

\* Every process has a seed of its own for its hash maps, and random numbers of its own.
apply(r) ==
  /\ Up(r) /\ applied[r] < Len(log)
  /\ applied' = [applied EXCEPT ![r] = @ + 1]
  /\ \E order \in Orders :
       LET env  == [now |-> now[r], process |-> <<r, restarts>>, order |-> order]
           done == apply_commands(machine, state[r], log[applied[r] + 1], env)
       IN  /\ state' = [state EXCEPT ![r] = IF done.status = "panic" THEN None ELSE done.state]
           /\ answers' = [answers EXCEPT ![r][applied[r] + 1] = done.answers]
  /\ UNCHANGED <<workload, log, now, snapshot, taken, restarts, local>>

\* The machines that read the clock are the bank and the store.
tick(r) ==
  /\ machine \in Banks \cup {"store"} /\ now[r] < workload.ticks
  /\ now' = [now EXCEPT ![r] = @ + 1]
  /\ UNCHANGED <<workload, log, state, applied, answers, snapshot, taken, restarts, local>>

serialize(r) ==
  /\ Up(r) /\ taken < MaxSnapshots
  /\ snapshot' = [bytes |-> serialize_state(machine, state[r]), applied |-> applied[r]]
  /\ taken' = taken + 1
  /\ UNCHANGED <<workload, log, state, applied, answers, now, restarts, local>>

\* A replica that lags behind takes over the serialized state.
deserialize(r) ==
  /\ Up(r) /\ snapshot # None /\ applied[r] < snapshot.applied
  /\ state' = [state EXCEPT ![r] = deserialize_state(machine, @, snapshot.bytes)]
  /\ applied' = [applied EXCEPT ![r] = snapshot.applied]
  /\ UNCHANGED <<workload, log, answers, now, snapshot, taken, restarts, local>>

\* A replica ends and begins again with a new machine.
restart(r) ==
  /\ restarts < MaxRestarts
  /\ restarts' = restarts + 1
  /\ state' = [state EXCEPT ![r] = New(machine)]
  /\ applied' = [applied EXCEPT ![r] = 0]
  /\ answers' = [answers EXCEPT ![r] = NoAnswers]
  /\ UNCHANGED <<workload, log, now, snapshot, taken, local>>

\* The store is used besides the log: the machine is replaced by its clone, or
\* the owner takes a snapshot of the underlying store.
use_store(r) ==
  /\ machine = "store" /\ Up(r) /\ local < MaxLocal
  /\ local' = local + 1
  /\ \/ state' = [state EXCEPT ![r] = Store!clone(@)]
     \/ state' = [state EXCEPT ![r] = Store!create_snapshot(@)]
  /\ UNCHANGED <<workload, log, applied, answers, now, snapshot, taken, restarts>>

Next ==
  \/ \E b \in workload.batches : deliver(b)
  \/ \E r \in Replicas : \/ apply(r) \/ tick(r) \/ serialize(r) \/ deserialize(r)
                         \/ restart(r) \/ use_store(r)

Spec == Init /\ [][Next]_vars

-----------------------------------------------------------------------------
(* What the replicas have in common, and what they do not                   *)

\* "given the same state and command, it must always produce the same response and
\* resulting state" (StateMachine::apply_command in rabia-core/src/smr.rs), and
\* is_deterministic, which the machines answer with true: replicas that have worked
\* through the same batches serialize the same state, and give the same answers.
\* The bank, the store and the machine that lists its keys do not keep to it.
Deterministic ==
  \A r, q \in Replicas :
    /\ Up(r) /\ Up(q) /\ applied[r] = applied[q]
         => serialize_state(machine, state[r]) = serialize_state(machine, state[q])
    /\ \A i \in 1..Len(log) :
         answers[r][i] # None /\ answers[q][i] # None => answers[r][i] = answers[q][i]

\* An account without created_at and last_transaction_at, which are the replica's clock
Settled(account) ==
  IF account = None THEN None
  ELSE [balance |-> account.balance, transaction_count |-> account.transaction_count]

\* A transaction without its time and its random id, but with its place in the ledger
Movement(tx) == [place |-> tx.transaction_id[2], from_account |-> tx.from_account,
                 to_account |-> tx.to_account, amount |-> tx.amount]

\* An entry of the store without created_at and updated_at
Stored(entry) ==
  IF entry = None THEN None ELSE [value |-> entry.value, version |-> entry.version]

\* What clients can see of a state
Content(s) ==
  CASE machine = "counter" -> s.value
    [] machine \in Banks   -> <<s.accounts, s.transactions>>
    [] machine \in {"store", "in_memory", "simple"} -> s.data

\* What the log determines of a state: all of it but for clock readings and random
\* transaction ids, which are part of it too (see Deterministic), for the store's
\* statistics, and for the store's version once it was used besides the log
Replicated(s) ==
  CASE machine \in {"counter", "in_memory", "simple"} -> s
    [] machine \in Banks -> [accounts |-> [a \in Accounts |-> Settled(s.accounts[a])],
                             transactions |-> [i \in DOMAIN s.transactions |->
                                                 Movement(s.transactions[i])],
                             operation_count |-> s.operation_count]
    [] machine = "store" -> [data |-> [k \in Keys |-> Stored(s.data[k])],
                             version |-> IF local = 0 THEN s.version ELSE 0]

\* Replicas that have worked through the same batches hold the same balances, counts,
\* values and versions, whatever their pace, their clocks, their restarts and the
\* states they took over, and the same transactions in the same order: what a replica
\* makes up by itself (its clock's readings and its transaction ids, in which their
\* states do differ) has no bearing on anything else in the state.
ReplicasAgree ==
  \A r, q \in Replicas :
    Up(r) /\ Up(q) /\ applied[r] = applied[q] => Replicated(state[r]) = Replicated(state[q])

\* What two replicas' answers to a command have in common.  Left out are the clock
\* readings in accounts, the random ids of transactions, and the order of a list of a
\* hash map's contents.  A history, which is ordered by the replica's own clock, comes
\* down to the set of its transactions, and to their number if there is a limit, since
\* it is cut in that order.
Shared(c, a) ==
  CASE c.op \in {"CreateAccount", "GetAccount"}         -> <<a.success, Settled(a.data)>>
    [] c.op \in {"Deposit", "Withdraw", "Transfer"}     -> <<a.success, a.data>>
    [] c.op = "ListAccounts" ->
         [id \in DOMAIN a.data.accounts |-> Settled(a.data.accounts[id])]
    [] c.op = "GetTransactionHistory" ->
         IF c.limit = None THEN {Movement(a.data[p]) : p \in DOMAIN a.data} ELSE Len(a.data)
    [] c.op = "LIST" -> {pair[1] : pair \in a.text}
    [] OTHER -> a
Common(i, as) == [j \in DOMAIN as |-> Shared(log[i][j], as[j])]

\* Two replicas that both applied a batch gave the same answers to it, but for what
\* Shared leaves out (see Deterministic): the same commands succeeded, with the same
\* balances and values, and a state taken over answers like one built command by
\* command.
AnswersAgree ==
  \A r, q \in Replicas : \A i \in 1..Len(log) :
    answers[r][i] # None /\ answers[q][i] # None
      => Common(i, answers[r][i]) = Common(i, answers[q][i])

\* The commands of the first k batches that open account a, by their places in the
\* log, and what the first of them, which is the one that is carried out, pays in
Openings(k, a) ==
  {at \in UNION {{i} \X (1..Len(log[i])) : i \in 1..k} :
     LET c == log[at[1]][at[2]] IN c.op = "CreateAccount" /\ c.id = a /\ c.amount >= 0}
Opening(k, a) ==
  LET first == CHOOSE at \in Openings(k, a) : \A o \in Openings(k, a) :
                 at[1] < o[1] \/ (at[1] = o[1] /\ at[2] <= o[2])
  IN  log[first[1]][first[2]].amount

Total(amounts) == Bank!Sum(amounts, DOMAIN amounts)

\* The books balance: an account exists exactly if it was opened, and it holds what
\* it was opened with, what the transactions brought and less what they took (in the
\* integers of the machine); each transaction is counted on the accounts it moves.
Ledger ==
  machine \in Banks =>
    \A r \in Replicas : Up(r) => \A a \in Accounts :
      LET all == state[r].transactions
          moved == [i \in DOMAIN all |-> (IF all[i].to_account = a THEN all[i].amount ELSE 0)
                                         - (IF all[i].from_account = a THEN all[i].amount ELSE 0)]
      IN  IF Openings(applied[r], a) = {} THEN state[r].accounts[a] = None
          ELSE /\ state[r].accounts[a].balance
                    = Bank!Wrapped(Opening(applied[r], a) + Total(moved))
               /\ state[r].accounts[a].transaction_count
                    = Cardinality({i \in DOMAIN all : a \in {all[i].from_account, all[i].to_account}})

\* What was ever paid in: the opening balances and the deposits
Issued(r) ==
  LET all == state[r].transactions IN
  Total([a \in Accounts |-> IF Openings(applied[r], a) = {} THEN 0 ELSE Opening(applied[r], a)])
  + Total([i \in DOMAIN all |-> IF all[i].from_account = None THEN all[i].amount ELSE 0])

\* No account is overdrawn, and a transfer neither makes nor loses money, as long
\* as what was paid in fits the machine's integers or the build checks for overflow.
Solvent ==
  machine \in Banks =>
    \A r \in Replicas :
      Up(r) /\ (machine = "checked_bank" \/ Issued(r) <= MaxInt) =>
        LET all   == state[r].transactions
            spent == [i \in DOMAIN all |-> IF all[i].to_account = None THEN all[i].amount ELSE 0]
        IN  /\ \A a \in Accounts : state[r].accounts[a] # None => state[r].accounts[a].balance >= 0
            /\ Bank!total_value(state[r]) = Issued(r) - Total(spent)

\* A batch of which every command was refused leaves what clients see as it was: no
\* machine does half of a command before it finds out that it must refuse it.
RefusedChangesNothing ==
  [][\A r \in Replicas :
       LET i == applied'[r]
           refused(as) == \A j \in DOMAIN as : ~as[j].success
       IN  (/\ i = applied[r] + 1 /\ answers'[r] # answers[r] /\ Up(r)'
            /\ IF answers'[r][i] = <<>> THEN Len(log[i]) = 1 ELSE refused(answers'[r][i]))
           => Content(state'[r]) = Content(state[r])]_vars
=============================================================================
