----------------------------- MODULE BankingSMR -----------------------------
(***************************************************************************)
(* The ledger of examples/banking_smr/src/lib.rs.  What a command takes from *)
(* the process it runs in is env: now is SystemTime::now, process stands for *)
(* its source of random numbers, and order[a] < order[b] says that its hash  *)
(* map comes across account a before b.  Account ids that                    *)
(* validate_account_id refuses are the ones outside Accounts.                *)
(***************************************************************************)
EXTENDS Integers, Sequences, FiniteSets

CONSTANTS Accounts, None,
          MinInt, MaxInt,   \* i64::MIN and i64::MAX
          MaxAmount         \* the limit of validate_amount

\* BankingState::default
new == [accounts |-> [a \in Accounts |-> None], transactions |-> <<>>, operation_count |-> 0]

\* BankingResponse, without the wording
success_with_transaction(s, data, id) ==
  [state |-> s, status |-> "ok",
   answer |-> [success |-> TRUE, data |-> data, transaction_id |-> id]]
Success(s, data) == success_with_transaction(s, data, None)
Error(s) ==
  [state |-> s, status |-> "ok",
   answer |-> [success |-> FALSE, data |-> None, transaction_id |-> None]]

validate_amount(amount)  == 0 < amount /\ amount <= MaxAmount
validate_account_id(id)  == id \in Accounts
Exists(s, id)            == id \in Accounts /\ s.accounts[id] # None
Balance(s, id)           == s.accounts[id].balance

\* The sum of v[x] for all x in S
Sum(v, S) ==
  LET sum[T \in SUBSET S] ==
        IF T = {} THEN 0 ELSE LET x == CHOOSE x \in T : TRUE IN v[x] + sum[T \ {x}]
  IN  sum[S]

\* The balances of all accounts together
total_value(s) == Sum([a \in Accounts |-> IF Exists(s, a) THEN Balance(s, a) ELSE 0], Accounts)

\* Two's complement: the value that an i64 holds after an unchecked operation
Wrapped(v) == ((v - MinInt) % (MaxInt - MinInt + 1)) + MinInt
Fits(v)    == v \in MinInt..MaxInt

\* Account::new
Account(balance, now) ==
  [balance |-> balance, transaction_count |-> 0, created_at |-> now, last_transaction_at |-> now]

update_balance(s, id, balance, now) ==
  [s EXCEPT !.accounts[id] = [balance |-> balance, transaction_count |-> @.transaction_count + 1,
                              created_at |-> @.created_at, last_transaction_at |-> now]]

\* Uuid::new_v4: no other process, and no other transaction of this one, has the same.
generate_transaction_id(s, env) == <<env.process, Len(s.transactions) + 1>>

\* mutant: transactions without a source are not kept
record_sourced(s, from, to, amount, env) ==
  IF from = None THEN s
  ELSE [s EXCEPT !.transactions = Append(@, [transaction_id |-> generate_transaction_id(s, env),
                                             from_account |-> from, to_account |-> to,
                                             amount |-> amount, timestamp |-> env.now])]

record(s, from, to, amount, env) ==
  [s EXCEPT !.transactions = Append(@, [transaction_id |-> generate_transaction_id(s, env),
                                        from_account |-> from, to_account |-> to,
                                        amount |-> amount, timestamp |-> env.now])]

CreateAccount(s, id, initial_balance, env) ==
  LET account == Account(initial_balance, env.now) IN
  IF validate_account_id(id) /\ initial_balance >= 0 /\ ~Exists(s, id)
  THEN Success([s EXCEPT !.accounts[id] = account], account)
  ELSE Error(s)

Deposit(s, id, amount, env) ==
  IF validate_amount(amount) /\ Exists(s, id) /\ Fits(Balance(s, id) + amount)
  THEN LET balance == Balance(s, id) + amount IN
       success_with_transaction(
         record(update_balance(s, id, balance, env.now), None, id, amount, env),
         balance, generate_transaction_id(s, env))
  ELSE Error(s)

\* mutant: the balance is not looked at
Withdraw_overdrawn(s, id, amount, env) ==
  IF validate_amount(amount) /\ Exists(s, id)
  THEN LET balance == Wrapped(Balance(s, id) - amount) IN
       success_with_transaction(
         record(update_balance(s, id, balance, env.now), id, None, amount, env),
         balance, generate_transaction_id(s, env))
  ELSE Error(s)

Withdraw(s, id, amount, env) ==
  IF validate_amount(amount) /\ Exists(s, id) /\ Balance(s, id) >= amount
  THEN LET balance == Balance(s, id) - amount IN
       success_with_transaction(
         record(update_balance(s, id, balance, env.now), id, None, amount, env),
         balance, generate_transaction_id(s, env))
  ELSE Error(s)

\* mutant: the source is debited before the destination is looked up
Transfer_debiting(s, from, to, amount, env, overflow_checks) ==
  IF ~(validate_amount(amount) /\ from # to /\ Exists(s, from) /\ Balance(s, from) >= amount)
  THEN Error(s)
  ELSE LET debited == update_balance(s, from, Balance(s, from) - amount, env.now) IN
       IF ~Exists(s, to) THEN Error(debited)
       ELSE LET credited == update_balance(debited, to, Wrapped(Balance(s, to) + amount), env.now)
            IN  success_with_transaction(record(credited, from, to, amount, env), None,
                                         generate_transaction_id(s, env))

\* The sum on the destination is not checked: a build with overflow checks
\* panics there, after the source was debited; others wrap.
Transfer(s, from, to, amount, env, overflow_checks) ==
  IF ~(/\ validate_amount(amount) /\ from # to /\ Exists(s, from) /\ Exists(s, to)
       /\ Balance(s, from) >= amount)
  THEN Error(s)
  ELSE LET debited == update_balance(s, from, Balance(s, from) - amount, env.now)
           sum     == Balance(s, to) + amount
       IN  IF ~Fits(sum) /\ overflow_checks
           THEN [state |-> debited, status |-> "panic", answer |-> None]
           ELSE success_with_transaction(
                  record(update_balance(debited, to, Wrapped(sum), env.now), from, to, amount, env),
                  None, generate_transaction_id(s, env))

\* Which transactions GetTransactionHistory shows: a stable sort by timestamp, newest
\* first, cut at the limit, so that those of one moment stay in the order in which
\* they were made.
\* Position p holds the transaction that p - 1 others come before.
History(s, id, limit) ==
  LET mine    == {i \in DOMAIN s.transactions :
                    id \in {None, s.transactions[i].from_account, s.transactions[i].to_account}}
      time(i) == s.transactions[i].timestamp
      rank(i) == Cardinality({j \in mine : \/ time(j) > time(i)
                                           \/ time(j) = time(i) /\ j < i})
      all     == Cardinality(mine)
      shown   == IF limit = None THEN all ELSE IF limit < all THEN limit ELSE all
  IN  [p \in 1..shown |-> CHOOSE i \in mine : rank(i) = p - 1]

GetBalance(s, id) == IF Exists(s, id) THEN Success(s, Balance(s, id)) ELSE Error(s)
GetAccount(s, id) == IF Exists(s, id) THEN Success(s, s.accounts[id]) ELSE Error(s)

\* The values of a hash map, and which of them comes before which
ListAccounts(s, env) ==
  LET held == {a \in Accounts : Exists(s, a)} IN
  Success(s, [accounts |-> [a \in held |-> s.accounts[a]],
              order |-> {pair \in held \X held : env.order[pair[1]] < env.order[pair[2]]}])

GetTransactionHistory(s, id, limit) ==
  LET shown == History(s, id, limit) IN
  Success(s, [p \in DOMAIN shown |-> s.transactions[shown[p]]])

\* overflow_checks: does the build panic on overflow, or wrap?
apply_command(state, c, env, overflow_checks) ==
  LET s == [state EXCEPT !.operation_count = @ + 1] IN
  CASE c.op = "CreateAccount" -> CreateAccount(s, c.id, c.amount, env)
    [] c.op = "Deposit"       -> Deposit(s, c.id, c.amount, env)
    [] c.op = "Withdraw"      -> Withdraw(s, c.id, c.amount, env)
    [] c.op = "Transfer"      -> Transfer(s, c.id, c.to, c.amount, env, overflow_checks)
    [] c.op = "GetBalance"    -> GetBalance(s, c.id)
    [] c.op = "GetAccount"    -> GetAccount(s, c.id)
    [] c.op = "ListAccounts"  -> ListAccounts(s, env)
    [] c.op = "GetTransactionHistory" -> GetTransactionHistory(s, c.id, c.limit)

\* serialize_state and deserialize_state carry the whole state.
serialize_state(s)      == s
deserialize_state(s, b) == b
=============================================================================
