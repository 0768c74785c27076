------------------------- MODULE SmrReplicasProofs -------------------------
(***************************************************************************)
(* Proofs about SmrReplicas: replicas in the same place of the log are in    *)
(* the same state and gave the same answers, what was refused changed        *)
(* nothing, and a bank's books balance.                                      *)
(***************************************************************************)
EXTENDS SmrReplicas, FiniteSetTheorems, WellFoundedInduction, TLAPS

-----------------------------------------------------------------------------
(* Induction: a set of counterexamples has a least element                  *)

\* The well-ordering of the naturals.
LEMMA LeastNumber ==
  ASSUME NEW T \in SUBSET Nat, T # {}
  PROVE  \E n \in T : \A k \in T : n <= k
<1>1. IsWellFoundedOn(OpToRel(<, Nat), Nat)
  BY NatLessThanWellFounded
<1>2. PICK n \in T : \A y \in T : ~(<<y, n>> \in OpToRel(<, Nat))
  BY <1>1, WFMin
<1>3. \A y \in T : ~(y < n)
  BY <1>2 DEF OpToRel
<1> QED  BY <1>3

\* A set that has 0 and, with every number below n, the next one, has all up to n.
LEMMA UpwardsTo ==
  ASSUME NEW n \in Nat, NEW S, 0 \in S, \A i \in 1..n : i - 1 \in S => i \in S
  PROVE  0..n \subseteq S
<1> DEFINE T == {i \in 0..n : i \notin S}
<1>1. SUFFICES ASSUME T # {}  PROVE FALSE
  OBVIOUS
<1>2. T \in SUBSET Nat
  OBVIOUS
<1>3. PICK k \in T : \A i \in T : k <= i
  BY <1>1, <1>2, LeastNumber
<1>4. k \in 1..n /\ k - 1 \in 0..n /\ k - 1 \notin T
  BY <1>3
<1> QED  BY <1>3, <1>4

-----------------------------------------------------------------------------
(* A batch, command by command                                              *)

Begun(s) == [state |-> s, status |-> "ok", answers |-> <<>>]

\* What one more command makes of a batch that is worked on.
GoneOn(m, before, c, env) ==
  LET one == apply_command(m, before.state, c, env) IN
  IF before.status # "ok" THEN before
  ELSE [state |-> one.state, status |-> one.status,
        answers |-> IF one.status = "ok" THEN Append(before.answers, one.answer) ELSE <<>>]

\* f is the course of the batch: f[i] is what there is after i commands.
IsCourse(f, m, s, batch, env, n) ==
  f = [i \in 0..n |-> IF i = 0 THEN Begun(s) ELSE GoneOn(m, f[i - 1], batch[i], env)]

\* apply_commands has a course, and returns what there is at its end.
LEMMA CourseExists ==
  ASSUME NEW m, NEW s, NEW batch, NEW env, Len(batch) \in Nat
  PROVE  \E f : /\ IsCourse(f, m, s, batch, env, Len(batch))
                /\ apply_commands(m, s, batch, env) = f[Len(batch)]
<1>1. \E f : IsCourse(f, m, s, batch, env, Len(batch))
  <2> DEFINE S == {n \in Nat : \E f : IsCourse(f, m, s, batch, env, n)}
  <2>1. 0 \in S
    <3> DEFINE f == [i \in 0..0 |-> Begun(s)]
    <3>1. f = [i \in 0..0 |-> IF i = 0 THEN Begun(s) ELSE GoneOn(m, f[i - 1], batch[i], env)]
      OBVIOUS
    <3> QED  BY <3>1 DEF IsCourse
  <2>2. ASSUME NEW n \in Nat, n > 0, n - 1 \in S  PROVE n \in S
    <3>1. PICK f : IsCourse(f, m, s, batch, env, n - 1)
      BY <2>2
    <3> DEFINE g == [i \in 0..n |-> IF i = 0 THEN Begun(s)
                                    ELSE GoneOn(m, f[i - 1], batch[i], env)]
    <3>2. \A i \in 0..(n - 1) : f[i] = IF i = 0 THEN Begun(s) ELSE GoneOn(m, f[i - 1], batch[i], env)
      BY <3>1 DEF IsCourse
    <3>3. \A i \in 0..(n - 1) : g[i] = f[i]
      BY <2>2, <3>2
    <3>4. \A i \in 1..n : i - 1 \in 0..(n - 1)
      BY <2>2
    <3>5. g = [i \in 0..n |-> IF i = 0 THEN Begun(s) ELSE GoneOn(m, g[i - 1], batch[i], env)]
      <4>1. \A i \in 0..n : (IF i = 0 THEN Begun(s) ELSE GoneOn(m, f[i - 1], batch[i], env))
                            = IF i = 0 THEN Begun(s) ELSE GoneOn(m, g[i - 1], batch[i], env)
        <5>1. ASSUME NEW i \in 0..n, i # 0  PROVE f[i - 1] = g[i - 1]
          BY <3>3, <3>4, <5>1, SMTT(30)
        <5> HIDE DEF g
        <5> QED  BY <5>1
      <4> QED  BY <4>1
    <3> QED  BY <3>5 DEF IsCourse
  <2>3. 0..Len(batch) \subseteq S
    <3>1. \A i \in 1..Len(batch) : i - 1 \in S => i \in S
      BY <2>2
    <3> HIDE DEF S
    <3> QED  BY <2>1, <3>1, UpwardsTo
  <2>4. Len(batch) \in 0..Len(batch)
    OBVIOUS
  <2> QED  BY <2>3, <2>4
<1> DEFINE g == CHOOSE f : IsCourse(f, m, s, batch, env, Len(batch))
<1>2. IsCourse(g, m, s, batch, env, Len(batch))
  BY <1>1
<1>3. apply_commands(m, s, batch, env) = g[Len(batch)]
  BY Zenon DEF apply_commands, IsCourse, Begun, GoneOn
<1> QED  BY <1>2, <1>3

\* The command at place i of a course, carried out.
One(f, m, batch, env, i) == apply_command(m, f[i - 1].state, batch[i], env)

\* A course begins with the state it is given and goes on command by command.
LEMMA CourseBegins ==
  ASSUME NEW m, NEW s, NEW batch, NEW env, NEW n \in Nat, NEW f, IsCourse(f, m, s, batch, env, n)
  PROVE  f[0] = Begun(s)
BY DEF IsCourse

\* What every command of a course makes of what was there before it.
LEMMA CourseGoesOn ==
  ASSUME NEW m, NEW s, NEW batch, NEW env, NEW n \in Nat, NEW f, IsCourse(f, m, s, batch, env, n)
  PROVE  \A i \in 1..n : f[i] = GoneOn(m, f[i - 1], batch[i], env)
<1>1. \A i \in 0..n : f[i] = IF i = 0 THEN Begun(s) ELSE GoneOn(m, f[i - 1], batch[i], env)
  BY DEF IsCourse
<1>2. ASSUME NEW i \in 1..n  PROVE f[i] = GoneOn(m, f[i - 1], batch[i], env)
  BY <1>1
<1> QED  BY <1>2

\* As long as all goes well there is an answer to every command; if not, there is none.
AnswersUpTo(f, m, batch, env, i) ==
  /\ f[i].status # "ok" => f[i].answers = <<>>
  /\ f[i].status = "ok" =>
       /\ f[i].answers = [j \in 1..i |-> One(f, m, batch, env, j).answer]
       /\ \A j \in 1..i : f[j - 1].status = "ok" /\ One(f, m, batch, env, j).status = "ok"

\* That is so after every command of a course.
LEMMA CourseAnswers ==
  ASSUME NEW m, NEW s, NEW batch, NEW env, NEW n \in Nat, NEW f, IsCourse(f, m, s, batch, env, n)
  PROVE  \A i \in 0..n : AnswersUpTo(f, m, batch, env, i)
<1> DEFINE a == [i \in 1..n |-> One(f, m, batch, env, i).answer]
           P(i) == /\ f[i].status # "ok" => f[i].answers = <<>>
                   /\ f[i].status = "ok" =>
                        /\ f[i].answers = [j \in 1..i |-> a[j]]
                        /\ \A j \in 1..i : /\ f[j - 1].status = "ok"
                                           /\ One(f, m, batch, env, j).status = "ok"
           S == {i \in 0..n : P(i)}
<1>1. 0 \in S
  <2>1. f[0].status = "ok" /\ f[0].answers = <<>>
    <3>1. f[0] = Begun(s)
      BY CourseBegins
    <3> QED  BY <3>1 DEF Begun
  <2>2. [j \in 1..0 |-> a[j]] = <<>> /\ \A j \in 1..0 : FALSE
    OBVIOUS
  <2> QED  BY <2>1, <2>2
<1>2. ASSUME NEW i \in 1..n, i - 1 \in S  PROVE i \in S
  <2> DEFINE o == One(f, m, batch, env, i)
  <2>1. /\ f[i - 1].status # "ok" => f[i] = f[i - 1]
        /\ f[i - 1].status = "ok" =>
             /\ f[i].status = o.status
             /\ f[i].answers = IF o.status = "ok" THEN Append(f[i - 1].answers, o.answer) ELSE <<>>
    <3>1. f[i] = GoneOn(m, f[i - 1], batch[i], env)
      BY CourseGoesOn
    <3> QED  BY <3>1 DEF GoneOn, One
  <2>2. P(i - 1)
    BY <1>2
  <2>3. CASE f[i - 1].status # "ok"
    BY <2>1, <2>2, <2>3
  <2>4. CASE f[i - 1].status = "ok" /\ o.status # "ok"
    BY <2>1, <2>2, <2>4
  <2>5. CASE f[i - 1].status = "ok" /\ o.status = "ok"
    <3>1. f[i - 1].answers = [j \in 1..(i - 1) |-> a[j]]
      BY <2>2, <2>5
    <3>2. f[i].answers = Append([j \in 1..(i - 1) |-> a[j]], o.answer) /\ f[i].status = "ok"
      BY <2>1, <2>5, <3>1
    <3>3. a[i] = o.answer
      OBVIOUS
    <3> HIDE DEF a, o
    <3>4. Append([j \in 1..(i - 1) |-> a[j]], o.answer) = [j \in 1..i |-> a[j]]
      <4> DEFINE U == {a[j] : j \in 1..n}
                 q == [j \in 1..(i - 1) |-> a[j]]
      <4>1. q \in Seq(U) /\ Len(q) = i - 1 /\ a[i] \in U
        <5>1. i - 1 \in Nat /\ \A j \in 1..(i - 1) : a[j] \in U
          OBVIOUS
        <5>2. q \in [1..(i - 1) -> U]
          BY <5>1
        <5> QED  BY <5>1, <5>2
      <4>2. \A j \in 1..(i - 1) : q[j] = a[j]
        OBVIOUS
      <4> HIDE DEF q, U
      <4>3. /\ Append(q, a[i]) \in Seq(U) /\ Len(Append(q, a[i])) = i
            /\ \A j \in 1..i : Append(q, a[i])[j] = a[j]
        BY <4>1, <4>2
      <4>4. Append(q, a[i]) = [j \in 1..i |-> Append(q, a[i])[j]]
        BY <4>3
      <4>5. [j \in 1..i |-> Append(q, a[i])[j]] = [j \in 1..i |-> a[j]]
        BY <4>3
      <4> QED  BY <3>3, <4>4, <4>5 DEF q
    <3>5. \A j \in 1..i : f[j - 1].status = "ok" /\ One(f, m, batch, env, j).status = "ok"
      <4>1. \A j \in 1..(i - 1) : f[j - 1].status = "ok" /\ One(f, m, batch, env, j).status = "ok"
        BY <2>2, <2>5
      <4>2. f[i - 1].status = "ok" /\ One(f, m, batch, env, i).status = "ok"
        BY <2>5 DEF o
      <4> QED  BY <4>1, <4>2
    <3>6. P(i)
      BY <3>2, <3>4, <3>5
    <3> QED  BY <3>6
  <2> QED  BY <2>3, <2>4, <2>5
<1>3. 0..n \subseteq S
  <2> HIDE DEF S
  <2> QED  BY <1>1, <1>2, UpwardsTo
<1>4. \A i \in 0..n : [j \in 1..i |-> a[j]] = [j \in 1..i |-> One(f, m, batch, env, j).answer]
  OBVIOUS
<1> QED  BY <1>3, <1>4 DEF AnswersUpTo

-----------------------------------------------------------------------------
(* What a command does to a bank                                            *)

AccountType == [balance : MinInt..MaxInt, transaction_count : Nat,
                created_at : Nat, last_transaction_at : Nat]
AccountsOf  == [Accounts -> AccountType \cup {None}]
Parties     == Accounts \cup {None}
Processes   == (Replicas \cup {None}) \X Nat
Transaction == [transaction_id : Processes \X Nat, from_account : Parties, to_account : Parties,
                amount : 1..MaxAmount, timestamp : Nat]
BankState   == [accounts : AccountsOf, transactions : Seq(Transaction), operation_count : Nat]

\* What a process may add to a command
IsEnv(env) == env.now \in Nat /\ env.process \in Processes

BankOf(A, T, n) == [accounts |-> A, transactions |-> T, operation_count |-> n]
Acct(b, k, c, l) ==
  [balance |-> b, transaction_count |-> k, created_at |-> c, last_transaction_at |-> l]

\* The id of the transaction that comes after T, and that transaction
NextId(T, env) == <<env.process, Len(T) + 1>>
Entry(T, from, to, amount, env) ==
  [transaction_id |-> NextId(T, env), from_account |-> from, to_account |-> to,
   amount |-> amount, timestamp |-> env.now]

\* The accounts after update_balance
Moved(A, id, b, env) ==
  [A EXCEPT ![id] = Acct(b, A[id].transaction_count + 1, A[id].created_at, env.now)]

Valid(amount) == 0 < amount /\ amount <= MaxAmount
Held(A, id)   == id \in Accounts /\ A[id] # None

\* When a command is carried out
CanOpen(A, c)     == c.id \in Accounts /\ c.amount >= 0 /\ A[c.id] = None
CanDeposit(A, c)  == Valid(c.amount) /\ Held(A, c.id) /\ A[c.id].balance + c.amount \in MinInt..MaxInt
CanWithdraw(A, c) == Valid(c.amount) /\ Held(A, c.id) /\ A[c.id].balance >= c.amount
CanTransfer(A, c) == /\ Valid(c.amount) /\ c.id # c.to /\ Held(A, c.id) /\ Held(A, c.to)
                     /\ A[c.id].balance >= c.amount
Debited(A, c, env) == Moved(A, c.id, A[c.id].balance - c.amount, env)
Overflows(A, c)    == A[c.to].balance + c.amount \notin MinInt..MaxInt

\* update_balance, record and the new account on a state taken apart.
LEMMA UpdateBalance ==
  ASSUME NEW A, NEW T, NEW n, NEW id, NEW b, NEW env
  PROVE  Bank!update_balance(BankOf(A, T, n), id, b, env.now) = BankOf(Moved(A, id, b, env), T, n)
BY DEF Bank!update_balance, BankOf, Moved, Acct

\* generate_transaction_id counts the transactions there are.
LEMMA GenerateId ==
  ASSUME NEW A, NEW T, NEW n, NEW env
  PROVE  Bank!generate_transaction_id(BankOf(A, T, n), env) = NextId(T, env)
BY DEF Bank!generate_transaction_id, BankOf, NextId

\* record puts the transaction at the end.
LEMMA Record ==
  ASSUME NEW A, NEW T, NEW n, NEW from, NEW to, NEW amount, NEW env
  PROVE  Bank!record(BankOf(A, T, n), from, to, amount, env)
           = BankOf(A, Append(T, Entry(T, from, to, amount, env)), n)
<1> DEFINE s == BankOf(A, T, n)
           t == Entry(T, from, to, amount, env)
<1>1. Bank!generate_transaction_id(s, env) = NextId(T, env)
  BY GenerateId
<1>2. [s EXCEPT !.transactions = Append(@, t)] = BankOf(A, Append(T, t), n)
  <2> HIDE DEF t
  <2> QED  BY DEF BankOf
<1> HIDE DEF s
<1>3. Bank!record(s, from, to, amount, env) = [s EXCEPT !.transactions = Append(@, t)]
  BY <1>1, Zenon DEF Bank!record, Entry
<1> HIDE DEF t
<1> QED  BY <1>2, <1>3, Zenon DEF s, t

\* What an unchecked sum becomes is an i64.
LEMMA WrappedFits ==
  ASSUME NEW v \in Int  PROVE Bank!Wrapped(v) \in MinInt..MaxInt
<1> DEFINE w == MaxInt - MinInt + 1
<1>1. w \in Nat /\ w > 0 /\ v - MinInt \in Int
  BY SmrAssumption
<1>2. (v - MinInt) % w \in 0..(w - 1)
  BY <1>1
<1> QED  BY <1>2, SmrAssumption DEF Bank!Wrapped

Reply(data, id)   == [success |-> TRUE, data |-> data, transaction_id |-> id]
Refusal           == [success |-> FALSE, data |-> None, transaction_id |-> None]
Done(s, data, id) == [state |-> s, status |-> "ok", answer |-> Reply(data, id)]
Refused(s)        == [state |-> s, status |-> "ok", answer |-> Refusal]

\* CreateAccount opens an account that is not there.
LEMMA CreateAccountDone ==
  ASSUME NEW A, NEW T, NEW n, NEW c, c.op = "CreateAccount", NEW env, NEW x
  PROVE  Bank!apply_command(BankOf(A, T, n), c, env, x)
           = IF CanOpen(A, c)
             THEN Done(BankOf([A EXCEPT ![c.id] = Acct(c.amount, 0, env.now, env.now)], T, n + 1),
                       Acct(c.amount, 0, env.now, env.now), None)
             ELSE Refused(BankOf(A, T, n + 1))
<1>1. Bank!apply_command(BankOf(A, T, n), c, env, x)
        = Bank!CreateAccount(BankOf(A, T, n + 1), c.id, c.amount, env)
  BY DEF Bank!apply_command, BankOf
<1> DEFINE s == BankOf(A, T, n + 1)
<1>2. /\ Bank!Account(c.amount, env.now) = Acct(c.amount, 0, env.now, env.now)
      /\ [s EXCEPT !.accounts[c.id] = Acct(c.amount, 0, env.now, env.now)]
           = BankOf([A EXCEPT ![c.id] = Acct(c.amount, 0, env.now, env.now)], T, n + 1)
  BY DEF BankOf, Bank!Account, Acct
<1>3. s.accounts = A
  BY DEF BankOf
<1> HIDE DEF s
<1> QED  BY <1>1, <1>2, <1>3 DEF Bank!CreateAccount, Bank!validate_account_id, Bank!Exists,
               Bank!Success, Bank!success_with_transaction, Bank!Error, CanOpen, Done, Refused, Reply, Refusal, s

\* Deposit adds to the balance if the sum fits.
LEMMA DepositDone ==
  ASSUME NEW A, NEW T, NEW n, NEW c, c.op = "Deposit", NEW env, NEW x
  PROVE  Bank!apply_command(BankOf(A, T, n), c, env, x)
           = IF CanDeposit(A, c)
             THEN Done(BankOf(Moved(A, c.id, A[c.id].balance + c.amount, env),
                              Append(T, Entry(T, None, c.id, c.amount, env)), n + 1),
                       A[c.id].balance + c.amount, NextId(T, env))
             ELSE Refused(BankOf(A, T, n + 1))
<1> DEFINE s == BankOf(A, T, n + 1)
           b == A[c.id].balance + c.amount
<1>1. Bank!apply_command(BankOf(A, T, n), c, env, x) = Bank!Deposit(s, c.id, c.amount, env)
  BY DEF Bank!apply_command, BankOf
<1>2. Bank!record(Bank!update_balance(s, c.id, b, env.now), None, c.id, c.amount, env)
        = BankOf(Moved(A, c.id, b, env), Append(T, Entry(T, None, c.id, c.amount, env)), n + 1)
  BY UpdateBalance, Record
<1>3. s.accounts = A
  BY DEF BankOf
<1>4. Bank!generate_transaction_id(s, env) = NextId(T, env)
  BY GenerateId
<1> HIDE DEF s
<1> QED  BY <1>1, <1>2, <1>3, <1>4 DEF Bank!Deposit, Bank!validate_amount, Bank!Exists, Bank!Fits, Bank!Balance,
               Bank!Success, Bank!success_with_transaction, Bank!Error, CanDeposit, Valid, Held, Done, Refused, Reply, Refusal, s

\* Withdraw takes from the balance if it is large enough.
LEMMA WithdrawDone ==
  ASSUME NEW A, NEW T, NEW n, NEW c, c.op = "Withdraw", NEW env, NEW x
  PROVE  Bank!apply_command(BankOf(A, T, n), c, env, x)
           = IF CanWithdraw(A, c)
             THEN Done(BankOf(Debited(A, c, env), Append(T, Entry(T, c.id, None, c.amount, env)), n + 1),
                       A[c.id].balance - c.amount, NextId(T, env))
             ELSE Refused(BankOf(A, T, n + 1))
<1> DEFINE s == BankOf(A, T, n + 1)
           b == A[c.id].balance - c.amount
<1>1. Bank!apply_command(BankOf(A, T, n), c, env, x) = Bank!Withdraw(s, c.id, c.amount, env)
  BY DEF Bank!apply_command, BankOf
<1>2. Bank!record(Bank!update_balance(s, c.id, b, env.now), c.id, None, c.amount, env)
        = BankOf(Moved(A, c.id, b, env), Append(T, Entry(T, c.id, None, c.amount, env)), n + 1)
  BY UpdateBalance, Record
<1>3. s.accounts = A
  BY DEF BankOf
<1>4. Bank!generate_transaction_id(s, env) = NextId(T, env)
  BY GenerateId
<1> HIDE DEF s
<1> QED  BY <1>1, <1>2, <1>3, <1>4 DEF Bank!Withdraw, Bank!validate_amount, Bank!Exists, Bank!Balance,
               Bank!Success, Bank!success_with_transaction, Bank!Error, CanWithdraw, Debited, Valid, Held, Done, Refused, Reply, Refusal, s

\* A Transfer command counts as an operation and is carried out by transfer.
LEMMA TransferCalled ==
  ASSUME NEW A, NEW T, NEW n, NEW c, c.op = "Transfer", NEW env, NEW x \in BOOLEAN
  PROVE  Bank!apply_command(BankOf(A, T, n), c, env, x)
           = Bank!Transfer(BankOf(A, T, n + 1), c.id, c.to, c.amount, env, x)
BY DEF Bank!apply_command, BankOf

\* Transfer moves the amount; a sum that does not fit panics after the debit, or wraps.
LEMMA TransferDone ==
  ASSUME NEW A, NEW T, NEW n, NEW c, c.op = "Transfer", NEW env, NEW x \in BOOLEAN
  PROVE  Bank!apply_command(BankOf(A, T, n), c, env, x)
           = IF ~CanTransfer(A, c) THEN Refused(BankOf(A, T, n + 1))
             ELSE IF Overflows(A, c) /\ x
             THEN [state |-> BankOf(Debited(A, c, env), T, n + 1), status |-> "panic", answer |-> None]
             ELSE Done(BankOf(Moved(Debited(A, c, env), c.to, Bank!Wrapped(A[c.to].balance + c.amount), env),
                              Append(T, Entry(T, c.id, c.to, c.amount, env)), n + 1), None, NextId(T, env))
<1> DEFINE s == BankOf(A, T, n + 1)
           b == A[c.id].balance - c.amount
           w == Bank!Wrapped(A[c.to].balance + c.amount)
<1>1. Bank!apply_command(BankOf(A, T, n), c, env, x)
        = Bank!Transfer(s, c.id, c.to, c.amount, env, x)
  BY DEF Bank!apply_command, BankOf
<1>2. Bank!update_balance(s, c.id, b, env.now) = BankOf(Debited(A, c, env), T, n + 1)
  BY UpdateBalance DEF Debited
<1>3. Bank!record(Bank!update_balance(BankOf(Debited(A, c, env), T, n + 1), c.to, w, env.now),
                  c.id, c.to, c.amount, env)
        = BankOf(Moved(Debited(A, c, env), c.to, w, env), Append(T, Entry(T, c.id, c.to, c.amount, env)), n + 1)
  BY UpdateBalance, Record
<1>4. s.accounts = A
  BY DEF BankOf
<1>5. Bank!generate_transaction_id(s, env) = NextId(T, env)
  BY GenerateId
<1> HIDE DEF s
<1> QED  BY <1>1, <1>2, <1>3, <1>4, <1>5 DEF Bank!Transfer, Bank!validate_amount, Bank!Exists, Bank!Balance,
               Bank!Fits, Bank!Success, Bank!success_with_transaction, Bank!Error, CanTransfer, Overflows, Valid, Held, Done, Refused, Reply, Refusal, s

\* The three outcomes of Transfer, one by one.
LEMMA TransferRefused ==
  ASSUME NEW A, NEW T, NEW n, NEW c, c.op = "Transfer", NEW env, NEW x \in BOOLEAN, ~CanTransfer(A, c)
  PROVE  Bank!apply_command(BankOf(A, T, n), c, env, x) = Refused(BankOf(A, T, n + 1))
BY TransferDone

\* With overflow checks a sum that does not fit panics.
LEMMA TransferPanics ==
  ASSUME NEW A, NEW T, NEW n, NEW c, c.op = "Transfer", NEW env, NEW x \in BOOLEAN, CanTransfer(A, c),
         Overflows(A, c), x
  PROVE  Bank!apply_command(BankOf(A, T, n), c, env, x)
           = [state |-> BankOf(Debited(A, c, env), T, n + 1), status |-> "panic", answer |-> None]
<1> DEFINE s == BankOf(A, T, n + 1)
<1>1. Bank!apply_command(BankOf(A, T, n), c, env, x)
        = Bank!Transfer(s, c.id, c.to, c.amount, env, x)
  BY TransferCalled
<1>2. Bank!update_balance(s, c.id, A[c.id].balance - c.amount, env.now) = BankOf(Debited(A, c, env), T, n + 1)
  BY UpdateBalance DEF Debited
<1>3. s.accounts = A
  BY DEF BankOf
<1> HIDE DEF s
<1> QED  BY <1>1, <1>2, <1>3 DEF Bank!Transfer, Bank!validate_amount, Bank!Exists, Bank!Balance,
               Bank!Fits, CanTransfer, Overflows, Valid, Held, s

\* Otherwise the amount is moved.
LEMMA TransferMoves ==
  ASSUME NEW A, NEW T, NEW n, NEW c, c.op = "Transfer", NEW env, NEW x \in BOOLEAN, CanTransfer(A, c),
         ~(Overflows(A, c) /\ x)
  PROVE  Bank!apply_command(BankOf(A, T, n), c, env, x)
           = Done(BankOf(Moved(Debited(A, c, env), c.to, Bank!Wrapped(A[c.to].balance + c.amount), env),
                         Append(T, Entry(T, c.id, c.to, c.amount, env)), n + 1), None, NextId(T, env))
<1> DEFINE s == BankOf(A, T, n + 1)
           w == Bank!Wrapped(A[c.to].balance + c.amount)
<1>1. Bank!apply_command(BankOf(A, T, n), c, env, x)
        = Bank!Transfer(s, c.id, c.to, c.amount, env, x)
  BY DEF Bank!apply_command, BankOf
<1>2. Bank!update_balance(s, c.id, A[c.id].balance - c.amount, env.now) = BankOf(Debited(A, c, env), T, n + 1)
  BY UpdateBalance DEF Debited
<1>3. Bank!record(Bank!update_balance(BankOf(Debited(A, c, env), T, n + 1), c.to, w, env.now),
                  c.id, c.to, c.amount, env)
        = BankOf(Moved(Debited(A, c, env), c.to, w, env), Append(T, Entry(T, c.id, c.to, c.amount, env)), n + 1)
  BY UpdateBalance, Record
<1>4. s.accounts = A
  BY DEF BankOf
<1>5. Bank!generate_transaction_id(s, env) = NextId(T, env)
  BY GenerateId
<1> HIDE DEF s
<1> QED  BY <1>1, <1>2, <1>3, <1>4, <1>5 DEF Bank!Transfer, Bank!validate_amount, Bank!Exists, Bank!Balance,
               Bank!Fits, Bank!Success, Bank!success_with_transaction, Bank!Error, CanTransfer, Overflows, Valid, Held, Done, Reply, s

\* The queries count as operations and change nothing else.
LEMMA GetBalanceDone ==
  ASSUME NEW A, NEW T, NEW n, NEW c, c.op = "GetBalance", NEW env, NEW x
  PROVE  Bank!apply_command(BankOf(A, T, n), c, env, x)
           = IF Held(A, c.id) THEN Done(BankOf(A, T, n + 1), A[c.id].balance, None)
             ELSE Refused(BankOf(A, T, n + 1))
<1> DEFINE s == BankOf(A, T, n + 1)
<1>1. Bank!apply_command(BankOf(A, T, n), c, env, x) = Bank!GetBalance(s, c.id)
  BY DEF Bank!apply_command, BankOf
<1>2. s.accounts = A
  BY DEF BankOf
<1> HIDE DEF s
<1> QED  BY <1>1, <1>2 DEF Bank!GetBalance, Bank!Exists, Bank!Balance, Bank!Success,
               Bank!success_with_transaction, Bank!Error, Held, Done, Refused, Reply, Refusal, s

\* GetAccount answers with the account as it is.
LEMMA GetAccountDone ==
  ASSUME NEW A, NEW T, NEW n, NEW c, c.op = "GetAccount", NEW env, NEW x
  PROVE  Bank!apply_command(BankOf(A, T, n), c, env, x)
           = IF Held(A, c.id) THEN Done(BankOf(A, T, n + 1), A[c.id], None)
             ELSE Refused(BankOf(A, T, n + 1))
<1> DEFINE s == BankOf(A, T, n + 1)
<1>1. Bank!apply_command(BankOf(A, T, n), c, env, x) = Bank!GetAccount(s, c.id)
  BY DEF Bank!apply_command, BankOf
<1>2. s.accounts = A
  BY DEF BankOf
<1> HIDE DEF s
<1> QED  BY <1>1, <1>2 DEF Bank!GetAccount, Bank!Exists, Bank!Success,
               Bank!success_with_transaction, Bank!Error, Held, Done, Refused, Reply, Refusal, s

\* The accounts there are, and what ListAccounts answers
There(A) == {a \in Accounts : A[a] # None}
Listing(A, env) ==
  [accounts |-> [a \in There(A) |-> A[a]],
   order |-> {pair \in There(A) \X There(A) : env.order[pair[1]] < env.order[pair[2]]}]

\* ListAccounts answers with the accounts there are.
LEMMA ListAccountsDone ==
  ASSUME NEW A, NEW T, NEW n, NEW c, c.op = "ListAccounts", NEW env, NEW x
  PROVE  Bank!apply_command(BankOf(A, T, n), c, env, x) = Done(BankOf(A, T, n + 1), Listing(A, env), None)
<1> DEFINE s == BankOf(A, T, n + 1)
<1>1. Bank!apply_command(BankOf(A, T, n), c, env, x) = Bank!ListAccounts(s, env)
  BY DEF Bank!apply_command, BankOf
<1>2. s.accounts = A
  BY DEF BankOf
<1> HIDE DEF s
<1>3. {a \in Accounts : Bank!Exists(s, a)} = There(A)
  BY <1>2 DEF Bank!Exists, There
<1>4. Bank!ListAccounts(s, env) = Done(s, Listing(A, env), None)
  BY <1>2, <1>3, Zenon
     DEF Bank!ListAccounts, Bank!Success, Bank!success_with_transaction, Done, Reply, Listing
<1> QED  BY <1>1, <1>4 DEF s

\* What GetTransactionHistory answers
Page(A, T, n, c) ==
  LET shown == Bank!History(BankOf(A, T, n), c.id, c.limit) IN [p \in DOMAIN shown |-> T[shown[p]]]

\* GetTransactionHistory answers with a history of the ledger as it is.
LEMMA HistoryDone ==
  ASSUME NEW A, NEW T, NEW n, NEW c, c.op = "GetTransactionHistory", NEW env, NEW x
  PROVE  Bank!apply_command(BankOf(A, T, n), c, env, x)
           = Done(BankOf(A, T, n + 1), Page(A, T, n + 1, c), None)
<1> DEFINE s == BankOf(A, T, n + 1)
<1>1. Bank!apply_command(BankOf(A, T, n), c, env, x) = Bank!GetTransactionHistory(s, c.id, c.limit)
  BY DEF Bank!apply_command, BankOf
<1>2. s.transactions = T
  BY DEF BankOf
<1> HIDE DEF s
<1>3. Bank!GetTransactionHistory(s, c.id, c.limit)
        = Done(s, [p \in DOMAIN Bank!History(s, c.id, c.limit) |->
                     T[Bank!History(s, c.id, c.limit)[p]]], None)
  BY <1>2, Zenon DEF Bank!GetTransactionHistory, Bank!Success, Bank!success_with_transaction, Done, Reply
<1> QED  BY <1>1, <1>3 DEF Page, s

-----------------------------------------------------------------------------
(* A transaction history has every transaction once, whatever the clocks say *)

Mine(T, id) == {i \in DOMAIN T : id \in {None, T[i].from_account, T[i].to_account}}
Before(T, M, i) == {j \in M : \/ T[j].timestamp > T[i].timestamp
                              \/ T[j].timestamp = T[i].timestamp /\ j < i}
Rank(T, M, i) == Cardinality(Before(T, M, i))

\* The transactions of a ledger, and those of them that concern an account, are finitely
\* many.
LEMMA MineFinite ==
  ASSUME NEW T \in Seq(Transaction), NEW M \in SUBSET DOMAIN T
  PROVE  IsFiniteSet(M) /\ Cardinality(M) \in Nat
<1>1. DOMAIN T = 1..Len(T) /\ Len(T) \in Nat
  OBVIOUS
<1>2. IsFiniteSet(1..Len(T))
  BY <1>1, FS_Interval
<1>3. IsFiniteSet(M)
  BY <1>1, <1>2, FS_Subset
<1> QED  BY <1>3, FS_CardinalityType

\* No two transactions have the same place in the order, and every place is taken.
LEMMA RanksAreFilled ==
  ASSUME NEW T \in Seq(Transaction), NEW M \in SUBSET DOMAIN T
  PROVE  /\ \A i, j \in M : Rank(T, M, i) = Rank(T, M, j) => i = j
         /\ \A i \in M : Rank(T, M, i) + 1 \in 1..Cardinality(M)
         /\ \A p \in 1..Cardinality(M) : \E i \in M : Rank(T, M, i) = p - 1
<1> DEFINE n == Cardinality(M)
           r == [i \in M |-> Rank(T, M, i)]
<1>0. IsFiniteSet(M) /\ n \in Nat
  BY MineFinite
<1>1. \A i \in M : i \in Nat /\ T[i].timestamp \in Nat
  <2>1. \A i \in M : i \in 1..Len(T) /\ T[i] \in Transaction
    OBVIOUS
  <2> QED  BY <2>1 DEF Transaction
<1>2. ASSUME NEW i \in M  PROVE Rank(T, M, i) \in 0..(n - 1)
  <2>1. Before(T, M, i) \in SUBSET M /\ Before(T, M, i) # M
    <3>1. i \notin Before(T, M, i)
      BY <1>1 DEF Before
    <3> QED  BY <3>1 DEF Before
  <2>2. IsFiniteSet(Before(T, M, i)) /\ Rank(T, M, i) <= n /\ Rank(T, M, i) # n
    BY <2>1, <1>0, FS_Subset DEF Rank
  <2>3. Rank(T, M, i) \in Nat
    BY <2>2, FS_CardinalityType DEF Rank
  <2> QED  BY <1>0, <2>2, <2>3
<1>3. ASSUME NEW i \in M, NEW j \in M, i \in Before(T, M, j)  PROVE Rank(T, M, i) # Rank(T, M, j)
  <2>1. Before(T, M, i) \in SUBSET Before(T, M, j)
    BY <1>1, <1>3 DEF Before
  <2>2. i \notin Before(T, M, i)
    BY <1>1 DEF Before
  <2>3. Before(T, M, j) \in SUBSET M
    BY DEF Before
  <2>4. IsFiniteSet(Before(T, M, j))
    BY <1>0, <2>3, FS_Subset
  <2> QED  BY <1>3, <2>1, <2>2, <2>4, FS_Subset DEF Rank
<1>4. ASSUME NEW i \in M, NEW j \in M, i # j  PROVE i \in Before(T, M, j) \/ j \in Before(T, M, i)
  BY <1>1, <1>4 DEF Before
<1>5. \A i, j \in M : Rank(T, M, i) = Rank(T, M, j) => i = j
  BY <1>3, <1>4
<1>6. r \in Injection(M, 0..(n - 1))
  BY <1>2, <1>5 DEF Injection, IsInjective
<1>7. IsFiniteSet(0..(n - 1)) /\ Cardinality(0..(n - 1)) = n
  <2> HIDE DEF n
  <2>1. n - 1 \in Int /\ (0 > n - 1 <=> n = 0) /\ (n - 1) - 0 + 1 = n
    BY <1>0
  <2> QED  BY <2>1, FS_Interval
<1>8. r \in Surjection(M, 0..(n - 1))
  BY <1>6, <1>7, FS_Injection
<1>9. \A p \in 1..n : \E i \in M : Rank(T, M, i) = p - 1
  <2>1. \A k \in 0..(n - 1) : \E i \in M : r[i] = k
    BY <1>8 DEF Surjection
  <2>2. \A p \in 1..n : p - 1 \in 0..(n - 1)
    BY <1>0
  <2> QED  BY <2>1, <2>2
<1> QED  BY <1>0, <1>2, <1>5, <1>9

\* How many of the transactions in M a history with that limit has
Shown(M, limit) ==
  IF limit = None THEN Cardinality(M) ELSE IF limit < Cardinality(M) THEN limit ELSE Cardinality(M)

\* A history without a limit has exactly the transactions that concern the account; one
\* with a limit has as many of them as it allows.
LEMMA HistoryShows ==
  ASSUME NEW A, NEW T \in Seq(Transaction), NEW n, NEW id, NEW limit \in Nat \cup {None}
  PROVE  /\ limit = None => ToSet(Bank!History(BankOf(A, T, n), id, limit)) = Mine(T, id)
         /\ DOMAIN Bank!History(BankOf(A, T, n), id, limit) = 1..Shown(Mine(T, id), limit)
         /\ Shown(Mine(T, id), limit) \in Nat
<1> DEFINE M == Mine(T, id)
           all == Cardinality(M)
           shown == IF limit = None THEN all ELSE IF limit < all THEN limit ELSE all
           h == Bank!History(BankOf(A, T, n), id, limit)
           g == [p \in 1..shown |-> CHOOSE i \in M : Rank(T, M, i) = p - 1]
<1>1. M \in SUBSET DOMAIN T
  BY DEF Mine
<1>2. all \in Nat /\ shown \in Nat
  BY <1>1, MineFinite
<1>3. BankOf(A, T, n).transactions = T
  BY DEF BankOf
<1>4. h = g
  <2> DEFINE N(U)  == Cardinality(Mine(U, id))
             S(U)  == IF limit = None THEN N(U) ELSE IF limit < N(U) THEN limit ELSE N(U)
             G(U)  == [p \in 1..S(U) |-> CHOOSE i \in Mine(U, id) : Rank(U, Mine(U, id), i) = p - 1]
  <2>1. \A s : Bank!History(s, id, limit) = G(s.transactions)
    BY Zenon DEF Bank!History, Mine, Rank, Before, Bank!Cardinality, Cardinality
  <2>2. h = G(BankOf(A, T, n).transactions)
    BY <2>1
  <2> QED  BY <1>3, <2>2, Zenon
<1>5. DOMAIN g = 1..shown /\ Len(g) = shown
  BY <1>2
<1>6. ASSUME limit = None  PROVE ToSet(g) = M
  <2>1. shown = all
    BY <1>6
  <2>2. /\ \A i, j \in M : Rank(T, M, i) = Rank(T, M, j) => i = j
        /\ \A i \in M : Rank(T, M, i) + 1 \in 1..all
        /\ \A p \in 1..all : \E i \in M : Rank(T, M, i) = p - 1
    BY <1>1, RanksAreFilled
  <2> HIDE DEF M, all
  <2>3. \A p \in 1..all : g[p] \in M /\ Rank(T, M, g[p]) = p - 1
    <3>1. SUFFICES ASSUME NEW p \in 1..all  PROVE g[p] \in M /\ Rank(T, M, g[p]) = p - 1
      OBVIOUS
    <3>2. \E i \in M : Rank(T, M, i) = p - 1
      BY <2>2
    <3>3. g[p] = CHOOSE i \in M : Rank(T, M, i) = p - 1
      BY <2>1
    <3> HIDE DEF g
    <3> QED  BY <3>2, <3>3
  <2>4. ASSUME NEW i \in M  PROVE g[Rank(T, M, i) + 1] = i
    <3> DEFINE p == Rank(T, M, i) + 1
    <3>1. p \in 1..all /\ Rank(T, M, i) \in Int
      <4>1. p \in 1..all
        BY <2>2
      <4>2. Rank(T, M, i) \in Nat
        <5>1. Before(T, M, i) \in SUBSET M /\ IsFiniteSet(M)
          BY <1>1, MineFinite DEF Before
        <5> QED  BY <5>1, FS_Subset, FS_CardinalityType DEF Rank
      <4> QED  BY <4>1, <4>2
    <3>2. g[p] \in M /\ Rank(T, M, g[p]) = Rank(T, M, i)
      BY <2>3, <3>1
    <3> QED  BY <2>2, <3>2
  <2> HIDE DEF g
  <2>5. ToSet(g) = {g[p] : p \in 1..all}
    BY <1>5, <2>1 DEF ToSet
  <2>6. \A i \in M : Rank(T, M, i) + 1 \in 1..all /\ g[Rank(T, M, i) + 1] = i
    BY <2>2, <2>4
  <2> QED  BY <2>3, <2>5, <2>6
<1> QED  BY <1>2, <1>4, <1>5, <1>6 DEF Shown

\* What GetTransactionHistory answers: without a limit the transactions that concern the
\* account, and else as many as the limit allows.
LEMMA PageShows ==
  ASSUME NEW A, NEW T \in Seq(Transaction), NEW n, NEW c, c.limit \in Nat \cup {None}
  PROVE  /\ c.limit = None => {Movement(Page(A, T, n, c)[p]) : p \in DOMAIN Page(A, T, n, c)}
                                = {Movement(T[i]) : i \in Mine(T, c.id)}
         /\ Len(Page(A, T, n, c)) = Shown(Mine(T, c.id), c.limit)
<1> DEFINE id == c.id
           limit == c.limit
           h == Bank!History(BankOf(A, T, n), id, limit)
           g == Page(A, T, n, c)
           k == Shown(Mine(T, id), limit)
<1>1. (limit = None => ToSet(h) = Mine(T, id)) /\ DOMAIN h = 1..k /\ k \in Nat
  <2>1. limit \in Nat \cup {None}
    OBVIOUS
  <2> HIDE DEF id, limit
  <2> QED  BY <2>1, HistoryShows
<1>2. g = [p \in DOMAIN h |-> T[h[p]]]
  BY DEF Page
<1> HIDE DEF g, h, k
<1>3. ToSet(h) = {h[p] : p \in DOMAIN h}
  BY DEF ToSet
<1>4. DOMAIN g = DOMAIN h /\ \A p \in DOMAIN h : g[p] = T[h[p]]
  BY <1>2
<1>5. {Movement(g[p]) : p \in DOMAIN g} = {Movement(T[i]) : i \in ToSet(h)}
  <2>1. {Movement(g[p]) : p \in DOMAIN g} = {Movement(T[h[p]]) : p \in DOMAIN h}
    BY <1>4
  <2> QED  BY <1>3, <2>1
<1>6. g \in [1..k -> {g[p] : p \in 1..k}] /\ Len(g) = k
  <2>1. g = [p \in 1..k |-> T[h[p]]]
    BY <1>1, <1>2
  <2> QED  BY <1>1, <2>1
<1> QED  BY <1>1, <1>5, <1>6 DEF g, h, k

-----------------------------------------------------------------------------
(* Two banks that differ only in what their processes made up               *)

\* The same transactions but for their times and ids
SameEntries(T, U) ==
  /\ Len(T) = Len(U)
  /\ \A i \in 1..Len(T) : /\ T[i].transaction_id[2] = U[i].transaction_id[2]
                          /\ T[i].from_account = U[i].from_account
                          /\ T[i].to_account = U[i].to_account
                          /\ T[i].amount = U[i].amount

\* The same accounts but for their times
SameAccounts(A, B) ==
  \A a \in Accounts : /\ A[a] = None <=> B[a] = None
                      /\ A[a] # None => /\ A[a].balance = B[a].balance
                                        /\ A[a].transaction_count = B[a].transaction_count
SameBank(s, t) ==
  /\ SameAccounts(s.accounts, t.accounts) /\ s.operation_count = t.operation_count
  /\ SameEntries(s.transactions, t.transactions)

\* The same answer, but for what Shared leaves out
SameAnswer(c, a, b) == Shared(c, a) = Shared(c, b)

IsBankCommand(c) ==
  /\ c.op \in BankOps
  /\ c.op \in {"CreateAccount", "Deposit", "Withdraw", "Transfer"} => c.amount \in MinInt..MaxInt
  /\ c.op = "GetTransactionHistory" => c.limit \in Nat \cup {None}

\* A bank's state, taken apart.
LEMMA BankParts ==
  ASSUME NEW s \in BankState
  PROVE  /\ s = BankOf(s.accounts, s.transactions, s.operation_count)
         /\ s.accounts \in AccountsOf
         /\ s.transactions \in Seq(Transaction) /\ s.operation_count \in Nat
BY DEF BankState, BankOf

\* A transaction is of its type.
LEMMA EntryTyped ==
  ASSUME NEW T \in Seq(Transaction), NEW from \in Parties, NEW to \in Parties,
         NEW amount \in 1..MaxAmount, NEW env, IsEnv(env)
  PROVE  Entry(T, from, to, amount, env) \in Transaction /\ Len(T) \in Nat
<1>1. Len(T) + 1 \in Nat /\ Len(T) \in Nat /\ env.now \in Nat /\ env.process \in Processes
  BY DEF IsEnv
<1>2. NextId(T, env) \in Processes \X Nat
  BY <1>1 DEF NextId
<1> QED  BY <1>1, <1>2 DEF Entry, Transaction

\* Ledgers that are the same stay so when the same transaction is recorded in both.
LEMMA AppendSame ==
  ASSUME NEW T \in Seq(Transaction), NEW U \in Seq(Transaction), SameEntries(T, U),
         NEW from \in Parties, NEW to \in Parties, NEW amount \in 1..MaxAmount,
         NEW env, IsEnv(env), NEW other, IsEnv(other)
  PROVE  /\ Append(T, Entry(T, from, to, amount, env)) \in Seq(Transaction)
         /\ SameEntries(Append(T, Entry(T, from, to, amount, env)), Append(U, Entry(U, from, to, amount, other)))
<1> DEFINE d == Entry(T, from, to, amount, env)
           e == Entry(U, from, to, amount, other)
<1>1. /\ d.transaction_id[2] = e.transaction_id[2] /\ d.from_account = e.from_account
      /\ d.to_account = e.to_account /\ d.amount = e.amount
  BY DEF Entry, NextId, SameEntries
<1>2. d \in Transaction /\ e \in Transaction
  BY EntryTyped
<1> HIDE DEF d, e
<1>3. /\ Append(T, d) \in Seq(Transaction) /\ Len(Append(T, d)) = Len(T) + 1
      /\ Len(Append(U, e)) = Len(U) + 1
      /\ \A i \in 1..Len(T) : Append(T, d)[i] = T[i]
      /\ \A i \in 1..Len(U) : Append(U, e)[i] = U[i]
      /\ Append(T, d)[Len(T) + 1] = d /\ Append(U, e)[Len(U) + 1] = e
  BY <1>2
<1>4. SameEntries(Append(T, d), Append(U, e))
  <2>1. ASSUME NEW i \in 1..(Len(T) + 1), i # Len(T) + 1  PROVE i \in 1..Len(T)
    BY <2>1
  <2> QED  BY <1>1, <1>3, <2>1 DEF SameEntries
<1> QED  BY <1>3, <1>4 DEF d, e

\* An account record is of its type, and None is none.
LEMMA AcctTyped ==
  ASSUME NEW b \in MinInt..MaxInt, NEW k \in Nat, NEW c \in Nat, NEW l \in Nat
  PROVE  Acct(b, k, c, l) \in AccountType /\ Acct(b, k, c, l) # None
<1>1. Acct(b, k, c, l) \in AccountType
  BY DEF Acct, AccountType
<1>2. AccountType \subseteq [balance : Int, transaction_count : Nat, created_at : Nat, last_transaction_at : Nat]
  BY SmrAssumption DEF AccountType
<1> QED  BY <1>1, <1>2, AccountsAssumption

\* A balance is an i64.
LEMMA BalanceTyped ==
  ASSUME NEW A \in AccountsOf, NEW id, Held(A, id)
  PROVE  /\ A[id].balance \in Int /\ MinInt <= A[id].balance /\ A[id].balance <= MaxInt
         /\ A[id].transaction_count \in Nat /\ A[id].created_at \in Nat /\ A[id] \in AccountType
<1>1. A[id] \in AccountType
  BY DEF Held, AccountsOf
<1> QED  BY <1>1, SmrAssumption DEF AccountType

\* An account keeps its type when its balance is updated.
LEMMA MovedTyped ==
  ASSUME NEW A \in AccountsOf, NEW id \in Accounts, A[id] # None,
         NEW b \in MinInt..MaxInt, NEW env, IsEnv(env)
  PROVE  /\ Moved(A, id, b, env) \in AccountsOf
         /\ Moved(A, id, b, env)[id] = Acct(b, A[id].transaction_count + 1, A[id].created_at, env.now)
         /\ Moved(A, id, b, env)[id] # None
         /\ Moved(A, id, b, env)[id].balance = b
         /\ Moved(A, id, b, env)[id].transaction_count = A[id].transaction_count + 1
         /\ \A a \in Accounts : a # id => Moved(A, id, b, env)[a] = A[a]
<1> DEFINE e == Acct(b, A[id].transaction_count + 1, A[id].created_at, env.now)
<1>1. A[id].transaction_count + 1 \in Nat /\ A[id].created_at \in Nat /\ env.now \in Nat
  <2>1. Held(A, id)
    BY DEF Held
  <2> QED  BY <2>1, BalanceTyped DEF IsEnv
<1>2. e \in AccountType /\ e # None
  BY <1>1, AcctTyped
<1>3. e.balance = b /\ e.transaction_count = A[id].transaction_count + 1
  BY DEF Acct
<1>4. Moved(A, id, b, env) = [A EXCEPT ![id] = e]
  BY DEF Moved
<1> HIDE DEF e
<1>5. /\ [A EXCEPT ![id] = e] \in AccountsOf /\ [A EXCEPT ![id] = e][id] = e
      /\ \A a \in Accounts : a # id => [A EXCEPT ![id] = e][a] = A[a]
  BY <1>2 DEF AccountsOf
<1> QED  BY <1>2, <1>3, <1>4, <1>5 DEF e

\* Accounts that are the same stay so when the same balance is written into both.
LEMMA MovedSame ==
  ASSUME NEW A \in AccountsOf, NEW B \in AccountsOf, SameAccounts(A, B), NEW id \in Accounts,
         A[id] # None, NEW b \in MinInt..MaxInt, NEW env, IsEnv(env), NEW other, IsEnv(other)
  PROVE  SameAccounts(Moved(A, id, b, env), Moved(B, id, b, other))
<1>1. B[id] # None /\ A[id].transaction_count = B[id].transaction_count
  BY DEF SameAccounts
<1> DEFINE C == Moved(A, id, b, env)
           D == Moved(B, id, b, other)
<1>2. /\ C[id] # None /\ C[id].balance = b /\ C[id].transaction_count = A[id].transaction_count + 1
      /\ \A a \in Accounts : a # id => C[a] = A[a]
  BY MovedTyped
<1>3. /\ D[id] # None /\ D[id].balance = b /\ D[id].transaction_count = B[id].transaction_count + 1
      /\ \A a \in Accounts : a # id => D[a] = B[a]
  BY <1>1, MovedTyped
<1> HIDE DEF C, D
<1>4. SameAccounts(C, D)
  BY <1>1, <1>2, <1>3 DEF SameAccounts
<1> QED  BY <1>4 DEF C, D

\* What a bank looks at before it carries out a command is the same.
LEMMA SameCan ==
  ASSUME NEW A, NEW B, SameAccounts(A, B), NEW c
  PROVE  /\ CanOpen(A, c) <=> CanOpen(B, c)
         /\ CanDeposit(A, c) <=> CanDeposit(B, c)
         /\ CanWithdraw(A, c) <=> CanWithdraw(B, c)
         /\ CanTransfer(A, c) <=> CanTransfer(B, c)
         /\ \A id : /\ Held(A, id) <=> Held(B, id)
                    /\ Held(A, id) => A[id].balance = B[id].balance
<1>1. \A id : /\ Held(A, id) <=> Held(B, id)
              /\ Held(A, id) => A[id].balance = B[id].balance
  BY DEF SameAccounts, Held
<1>2. CanOpen(A, c) <=> CanOpen(B, c)
  BY DEF CanOpen, SameAccounts
<1>3. CanDeposit(A, c) <=> CanDeposit(B, c)
  BY <1>1 DEF CanDeposit
<1>4. CanWithdraw(A, c) <=> CanWithdraw(B, c)
  BY <1>1 DEF CanWithdraw
<1>5. CanTransfer(A, c) <=> CanTransfer(B, c)
  BY <1>1 DEF CanTransfer
<1> QED  BY <1>1, <1>2, <1>3, <1>4, <1>5

\* What two answers share that carry an account.
LEMMA SharedAccount ==
  ASSUME NEW c, c.op \in {"CreateAccount", "GetAccount"}, NEW d, NEW e, NEW i, NEW j,
         Settled(d) = Settled(e)
  PROVE  SameAnswer(c, Reply(d, i), Reply(e, j))
<1>1. \A a : Shared(c, a) = <<a.success, Settled(a.data)>>
  BY DEF Shared
<1>2. /\ Reply(d, i).success = Reply(e, j).success
      /\ Reply(d, i).data = d /\ Reply(e, j).data = e
  BY DEF Reply
<1> QED  BY <1>1, <1>2, Zenon DEF SameAnswer

\* What two answers share to a command that makes a transaction: all but its id.
LEMMA SharedTransaction ==
  ASSUME NEW c, c.op \in {"Deposit", "Withdraw", "Transfer"}, NEW d, NEW i, NEW j
  PROVE  SameAnswer(c, Reply(d, i), Reply(d, j))
<1>1. \A a : Shared(c, a) = <<a.success, a.data>>
  BY DEF Shared
<1>2. /\ Reply(d, i).success = Reply(d, j).success
      /\ Reply(d, i).data = d /\ Reply(d, j).data = d
  BY DEF Reply
<1> QED  BY <1>1, <1>2, Zenon DEF SameAnswer

\* What an answer shares that lists the accounts.
LEMMA SharedListing ==
  ASSUME NEW c, c.op = "ListAccounts", NEW d, NEW i
  PROVE  Shared(c, Reply(d, i)) = [a \in DOMAIN d.accounts |-> Settled(d.accounts[a])]
<1> DEFINE x == Reply(d, i)
<1>1. x.data = d
  BY DEF Reply
<1> HIDE DEF x
<1>2. Shared(c, x) = [a \in DOMAIN x.data.accounts |-> Settled(x.data.accounts[a])]
  BY DEF Shared
<1>3. Shared(c, x) = [a \in DOMAIN d.accounts |-> Settled(d.accounts[a])]
  BY <1>1, <1>2, Zenon
<1> QED  BY <1>3 DEF x

\* What an answer shares that is a history.
LEMMA SharedHistory ==
  ASSUME NEW c, c.op = "GetTransactionHistory", NEW d, NEW i
  PROVE  Shared(c, Reply(d, i)) = IF c.limit = None THEN {Movement(d[p]) : p \in DOMAIN d} ELSE Len(d)
<1>1. \A a, e : a.data = e =>
        Shared(c, a) = IF c.limit = None THEN {Movement(e[p]) : p \in DOMAIN e} ELSE Len(e)
  <2>1. \A a : Shared(c, a)
                 = IF c.limit = None THEN {Movement(a.data[p]) : p \in DOMAIN a.data} ELSE Len(a.data)
    BY DEF Shared
  <2> QED  BY <2>1
<1>2. Reply(d, i).data = d
  BY DEF Reply
<1> QED  BY <1>1, <1>2, Zenon

\* What a command of a bank does is the same whatever its process adds: the state it
\* leaves but for times and ids, whether it panics, and the answer but for what Shared
\* leaves out.
SameOutcome(c, p, q) ==
  /\ p.state \in BankState /\ SameBank(p.state, q.state)
  /\ p.status = q.status /\ SameAnswer(c, p.answer, q.answer)

\* A bank's state, put together.
LEMMA BankTogether ==
  ASSUME NEW A \in AccountsOf, NEW B \in AccountsOf, SameAccounts(A, B), NEW T \in Seq(Transaction),
         NEW U \in Seq(Transaction), SameEntries(T, U), NEW n \in Nat
  PROVE  /\ BankOf(A, T, n + 1) \in BankState /\ BankOf(A, T, n) \in BankState
         /\ SameBank(BankOf(A, T, n + 1), BankOf(B, U, n + 1))
BY DEF BankOf, BankState, SameBank

\* Outcomes that share the answer, and the states but for times and ids.
LEMMA SameAfterAll ==
  ASSUME NEW A \in AccountsOf, NEW B \in AccountsOf, SameAccounts(A, B), NEW T \in Seq(Transaction),
         NEW U \in Seq(Transaction), SameEntries(T, U), NEW n \in Nat, NEW c
  PROVE  /\ SameOutcome(c, Refused(BankOf(A, T, n + 1)), Refused(BankOf(B, U, n + 1)))
         /\ \A d, e, i, j :
              SameAnswer(c, Reply(d, i), Reply(e, j))
                => SameOutcome(c, Done(BankOf(A, T, n + 1), d, i), Done(BankOf(B, U, n + 1), e, j))
         /\ SameOutcome(c, [state |-> BankOf(A, T, n + 1), status |-> "panic", answer |-> None],
                        [state |-> BankOf(B, U, n + 1), status |-> "panic", answer |-> None])
<1> DEFINE k == BankOf(A, T, n + 1)
           l == BankOf(B, U, n + 1)
<1>1. k \in BankState /\ SameBank(k, l)
  BY BankTogether
<1> HIDE DEF k, l
<1>2. SameAnswer(c, Refusal, Refusal) /\ SameAnswer(c, None, None)
  BY DEF SameAnswer
<1>3. /\ SameOutcome(c, Refused(k), Refused(l))
      /\ \A d, e, i, j :
           SameAnswer(c, Reply(d, i), Reply(e, j)) => SameOutcome(c, Done(k, d, i), Done(l, e, j))
      /\ SameOutcome(c, [state |-> k, status |-> "panic", answer |-> None],
                     [state |-> l, status |-> "panic", answer |-> None])
  BY <1>1, <1>2 DEF SameOutcome, Refused, Done
<1> QED  BY <1>3 DEF k, l

\* The same transaction is recorded on both sides.
LEMMA SameAfterEntry ==
  ASSUME NEW A \in AccountsOf, NEW B \in AccountsOf, SameAccounts(A, B), NEW T \in Seq(Transaction),
         NEW U \in Seq(Transaction), SameEntries(T, U), NEW n \in Nat,
         NEW c, c.op \in {"Deposit", "Withdraw", "Transfer"},
         NEW from \in Parties, NEW to \in Parties, NEW amount \in 1..MaxAmount,
         NEW env, IsEnv(env), NEW other, IsEnv(other), NEW data
  PROVE  SameOutcome(c, Done(BankOf(A, Append(T, Entry(T, from, to, amount, env)), n + 1), data,
                             NextId(T, env)),
                     Done(BankOf(B, Append(U, Entry(U, from, to, amount, other)), n + 1), data,
                          NextId(U, other)))
<1> DEFINE V == Append(T, Entry(T, from, to, amount, env))
           W == Append(U, Entry(U, from, to, amount, other))
           i == NextId(T, env)
           j == NextId(U, other)
<1>1. V \in Seq(Transaction) /\ SameEntries(V, W)
  BY AppendSame
<1>2. W \in Seq(Transaction)
  <2>1. SameEntries(U, T)
    BY DEF SameEntries
  <2> QED  BY <2>1, AppendSame
<1> HIDE DEF V, W, i, j
<1>3. SameAnswer(c, Reply(data, i), Reply(data, j))
  BY SharedTransaction
<1>4. SameOutcome(c, Done(BankOf(A, V, n + 1), data, i), Done(BankOf(B, W, n + 1), data, j))
  BY <1>1, <1>2, <1>3, SameAfterAll
<1> QED  BY <1>4 DEF V, W, i, j

\* A command on two banks that are the same but for times and ids.
LEMMA BankSame ==
  ASSUME NEW s \in BankState, NEW t \in BankState, SameBank(s, t), NEW c, IsBankCommand(c),
         NEW env, IsEnv(env), NEW other, IsEnv(other), NEW x \in BOOLEAN
  PROVE  SameOutcome(c, Bank!apply_command(s, c, env, x), Bank!apply_command(t, c, other, x))
<1> DEFINE A == s.accounts
           B == t.accounts
           T == s.transactions
           U == t.transactions
           n == s.operation_count
           p == Bank!apply_command(s, c, env, x)
           q == Bank!apply_command(t, c, other, x)
<1>1. /\ s = BankOf(A, T, n) /\ t = BankOf(B, U, n) /\ SameEntries(T, U) /\ SameAccounts(A, B)
      /\ A \in AccountsOf /\ B \in AccountsOf
      /\ T \in Seq(Transaction) /\ U \in Seq(Transaction) /\ n \in Nat
  BY BankParts DEF SameBank
<1> HIDE DEF A, B, T, U, n
<1>2. p = Bank!apply_command(BankOf(A, T, n), c, env, x)
      /\ q = Bank!apply_command(BankOf(B, U, n), c, other, x)
  BY <1>1
<1>3. /\ SameOutcome(c, Refused(BankOf(A, T, n + 1)), Refused(BankOf(B, U, n + 1)))
      /\ \A d, e, i, j :
           SameAnswer(c, Reply(d, i), Reply(e, j))
             => SameOutcome(c, Done(BankOf(A, T, n + 1), d, i), Done(BankOf(B, U, n + 1), e, j))
  BY <1>1, SameAfterAll
<1>9. /\ CanOpen(A, c) <=> CanOpen(B, c)
      /\ CanDeposit(A, c) <=> CanDeposit(B, c)
      /\ CanWithdraw(A, c) <=> CanWithdraw(B, c)
      /\ CanTransfer(A, c) <=> CanTransfer(B, c)
      /\ \A id : /\ Held(A, id) <=> Held(B, id)
                 /\ Held(A, id) => A[id].balance = B[id].balance
  BY <1>1, SameCan
<1> SUFFICES SameOutcome(c, p, q)
  OBVIOUS
<1> HIDE DEF p, q
<1>4. CASE c.op = "CreateAccount"
  <2> DEFINE d == Acct(c.amount, 0, env.now, env.now)
             e == Acct(c.amount, 0, other.now, other.now)
             C == [A EXCEPT ![c.id] = d]
             D == [B EXCEPT ![c.id] = e]
  <2>1. CASE CanOpen(A, c)
    <3>1. p = Done(BankOf(C, T, n + 1), d, None)
      BY <1>2, <1>4, <2>1, CreateAccountDone
    <3>2. q = Done(BankOf(D, U, n + 1), e, None)
      <4>1. CanOpen(B, c)
        BY <1>9, <2>1
      <4> QED  BY <1>2, <1>4, <4>1, CreateAccountDone
    <3>3. /\ d \in AccountType /\ d # None /\ e \in AccountType /\ e # None
      <4>1. c.amount \in MinInt..MaxInt /\ env.now \in Nat /\ other.now \in Nat /\ 0 \in Nat
        BY <1>4 DEF IsBankCommand, IsEnv
      <4> QED  BY <4>1, AcctTyped
    <3>4. d.balance = e.balance /\ d.transaction_count = e.transaction_count
      BY DEF Acct
    <3>5. c.id \in Accounts
      BY <2>1 DEF CanOpen
    <3> HIDE DEF d, e
    <3>6. C \in AccountsOf /\ D \in AccountsOf
      BY <1>1, <3>3, <3>5 DEF AccountsOf
    <3>7. SameAccounts(C, D)
      <4>1. C[c.id] = d /\ D[c.id] = e /\ \A a \in Accounts : a # c.id => C[a] = A[a] /\ D[a] = B[a]
        BY <1>1, <3>5 DEF AccountsOf
      <4> HIDE DEF C, D
      <4> QED  BY <1>1, <3>3, <3>4, <4>1 DEF SameAccounts
    <3>8. SameAnswer(c, Reply(d, None), Reply(e, None))
      <4>1. Settled(d) = Settled(e)
        BY <3>3, <3>4 DEF Settled
      <4> QED  BY <1>4, <4>1, SharedAccount
    <3> HIDE DEF C, D
    <3> QED  BY <1>1, <3>1, <3>2, <3>6, <3>7, <3>8, SameAfterAll
  <2>2. CASE ~CanOpen(A, c)
    BY <1>2, <1>3, <1>4, <1>9, <2>2, CreateAccountDone
  <2> QED  BY <2>1, <2>2
<1>5. CASE c.op = "Deposit"
  <2> DEFINE b == A[c.id].balance + c.amount
  <2>1. CASE CanDeposit(A, c)
    <3>1. c.amount \in 1..MaxAmount /\ c.id \in Accounts /\ A[c.id] # None /\ b \in MinInt..MaxInt
      BY <1>5, <2>1, SmrAssumption DEF CanDeposit, Valid, Held, IsBankCommand
    <3>2. B[c.id] # None /\ B[c.id].balance = A[c.id].balance
      BY <1>1, <3>1 DEF SameAccounts
    <3>3. p = Done(BankOf(Moved(A, c.id, b, env), Append(T, Entry(T, None, c.id, c.amount, env)), n + 1),
                   b, NextId(T, env))
      BY <1>2, <1>5, <2>1, DepositDone
    <3>4. q = Done(BankOf(Moved(B, c.id, b, other), Append(U, Entry(U, None, c.id, c.amount, other)), n + 1),
                   b, NextId(U, other))
      BY <1>2, <1>5, <1>9, <2>1, <3>2, DepositDone
    <3> DEFINE C == Moved(A, c.id, b, env)
               D == Moved(B, c.id, b, other)
    <3>5. C \in AccountsOf /\ D \in AccountsOf /\ SameAccounts(C, D)
      BY <1>1, <3>1, <3>2, MovedTyped, MovedSame
    <3>6. None \in Parties /\ c.id \in Parties
      BY <3>1 DEF Parties
    <3> HIDE DEF C, D
    <3>7. /\ p = Done(BankOf(C, Append(T, Entry(T, None, c.id, c.amount, env)), n + 1), b, NextId(T, env))
          /\ q = Done(BankOf(D, Append(U, Entry(U, None, c.id, c.amount, other)), n + 1), b, NextId(U, other))
      BY <3>3, <3>4, Zenon DEF C, D
    <3> HIDE DEF b, p, q
    <3>8. c.op \in {"Deposit", "Withdraw", "Transfer"}
      BY <1>5
    <3> QED  BY <1>1, <3>1, <3>5, <3>6, <3>7, <3>8, SameAfterEntry
  <2>2. CASE ~CanDeposit(A, c)
    BY <1>2, <1>3, <1>5, <1>9, <2>2, DepositDone
  <2> QED  BY <2>1, <2>2
<1>6. CASE c.op = "Withdraw"
  <2> DEFINE b == A[c.id].balance - c.amount
  <2>1. CASE CanWithdraw(A, c)
    <3>1. c.amount \in 1..MaxAmount /\ c.id \in Accounts /\ A[c.id] # None
      BY <1>6, <2>1, SmrAssumption DEF CanWithdraw, Valid, Held, IsBankCommand
    <3>2. b \in MinInt..MaxInt
      <4>1. A[c.id].balance \in Int /\ A[c.id].balance <= MaxInt /\ A[c.id].balance >= c.amount
        BY <1>1, <2>1, BalanceTyped DEF CanWithdraw
      <4> QED  BY <3>1, <4>1, SmrAssumption
    <3>3. B[c.id] # None /\ B[c.id].balance = A[c.id].balance
      BY <1>1, <3>1 DEF SameAccounts
    <3> DEFINE C == Moved(A, c.id, b, env)
               D == Moved(B, c.id, b, other)
    <3>4. C = Debited(A, c, env) /\ D = Debited(B, c, other)
      BY <3>3 DEF Debited
    <3>5. p = Done(BankOf(C, Append(T, Entry(T, c.id, None, c.amount, env)), n + 1), b, NextId(T, env))
      BY <1>2, <1>6, <2>1, <3>4, WithdrawDone
    <3>6. q = Done(BankOf(D, Append(U, Entry(U, c.id, None, c.amount, other)), n + 1), b, NextId(U, other))
      <4>1. CanWithdraw(B, c) /\ B[c.id].balance - c.amount = b
        BY <1>9, <2>1, <3>3
      <4>2. q = Done(BankOf(Debited(B, c, other), Append(U, Entry(U, c.id, None, c.amount, other)), n + 1),
                     B[c.id].balance - c.amount, NextId(U, other))
        BY <1>2, <1>6, <4>1, WithdrawDone
      <4> HIDE DEF b, D
      <4> QED  BY <3>4, <4>1, <4>2, Zenon
    <3>7. C \in AccountsOf /\ D \in AccountsOf /\ SameAccounts(C, D)
      BY <1>1, <3>1, <3>2, <3>3, MovedTyped, MovedSame
    <3>8. None \in Parties /\ c.id \in Parties
      BY <3>1 DEF Parties
    <3> HIDE DEF C, D, b
    <3> QED  BY <1>1, <1>6, <3>1, <3>5, <3>6, <3>7, <3>8, SameAfterEntry
  <2>2. CASE ~CanWithdraw(A, c)
    BY <1>2, <1>3, <1>6, <1>9, <2>2, WithdrawDone
  <2> QED  BY <2>1, <2>2
<1>7. CASE c.op = "Transfer"
  <2> DEFINE b == A[c.id].balance - c.amount
             w == Bank!Wrapped(A[c.to].balance + c.amount)
             C == Debited(A, c, env)
             D == Debited(B, c, other)
             F == Moved(C, c.to, w, env)
             G == Moved(D, c.to, w, other)
  <2>1. CASE CanTransfer(A, c)
    <3>1. /\ c.amount \in 1..MaxAmount /\ c.id \in Accounts /\ A[c.id] # None
          /\ c.to \in Accounts /\ A[c.to] # None /\ c.id # c.to
      BY <1>7, <2>1, SmrAssumption DEF CanTransfer, Valid, Held, IsBankCommand
    <3>2. b \in MinInt..MaxInt
      BY <1>1, <2>1, <3>1, BalanceTyped, SmrAssumption, SMTT(30) DEF CanTransfer
    <3>3. /\ B[c.id] # None /\ B[c.id].balance = A[c.id].balance
          /\ B[c.to] # None /\ B[c.to].balance = A[c.to].balance
      BY <1>1, <3>1 DEF SameAccounts
    <3>4. C = Moved(A, c.id, b, env) /\ D = Moved(B, c.id, b, other)
      BY <3>3 DEF Debited
    <3> HIDE DEF C, D, b
    <3>5. C \in AccountsOf /\ D \in AccountsOf /\ SameAccounts(C, D)
      BY <1>1, <3>1, <3>2, <3>3, <3>4, MovedTyped, MovedSame
    <3>6. C[c.to] # None /\ D[c.to] # None
      <4>1. C[c.to] = A[c.to]
        BY <1>1, <3>1, <3>2, <3>4, MovedTyped
      <4> QED  BY <3>1, <3>5, <4>1 DEF SameAccounts
    <3>7. w \in MinInt..MaxInt
      <4>1. A[c.to].balance + c.amount \in Int
        BY <1>1, <2>1, <3>1, BalanceTyped DEF CanTransfer
      <4> QED  BY <4>1, WrappedFits
    <3>8. (Overflows(A, c) <=> Overflows(B, c)) /\ w = Bank!Wrapped(B[c.to].balance + c.amount)
      BY <3>3 DEF Overflows
    <3> HIDE DEF w
    <3>9. CASE Overflows(A, c) /\ x
      <4>1. p = [state |-> BankOf(C, T, n + 1), status |-> "panic", answer |-> None]
        BY <1>2, <1>7, <2>1, <3>9, TransferPanics DEF C
      <4>2. q = [state |-> BankOf(D, U, n + 1), status |-> "panic", answer |-> None]
        BY <1>2, <1>7, <1>9, <2>1, <3>8, <3>9, TransferPanics DEF D
      <4> QED  BY <1>1, <3>5, <4>1, <4>2, SameAfterAll
    <3>10. CASE ~(Overflows(A, c) /\ x)
      <4>1. p = Done(BankOf(F, Append(T, Entry(T, c.id, c.to, c.amount, env)), n + 1), None, NextId(T, env))
        BY <1>2, <1>7, <2>1, <3>10, TransferMoves DEF C, w
      <4>2. q = Done(BankOf(G, Append(U, Entry(U, c.id, c.to, c.amount, other)), n + 1), None, NextId(U, other))
        <5>1. CanTransfer(B, c) /\ ~(Overflows(B, c) /\ x)
          BY <1>9, <2>1, <3>8, <3>10
        <5>2. q = Done(BankOf(Moved(Debited(B, c, other), c.to, Bank!Wrapped(B[c.to].balance + c.amount), other),
                              Append(U, Entry(U, c.id, c.to, c.amount, other)), n + 1), None, NextId(U, other))
          BY <1>2, <1>7, <5>1, TransferMoves
        <5> QED  BY <3>8, <5>2 DEF D
      <4>3. c.id \in Parties /\ c.to \in Parties
        BY <3>1 DEF Parties
      <4>4. F \in AccountsOf /\ G \in AccountsOf /\ SameAccounts(F, G)
        BY <3>1, <3>5, <3>6, <3>7, MovedTyped, MovedSame
      <4> HIDE DEF F, G
      <4> QED  BY <1>1, <1>7, <3>1, <4>1, <4>2, <4>3, <4>4, SameAfterEntry
    <3> QED  BY <3>9, <3>10
  <2>2. CASE ~CanTransfer(A, c)
    BY <1>2, <1>3, <1>7, <1>9, <2>2, TransferRefused
  <2> QED  BY <2>1, <2>2
<1>8. CASE c.op \in {"GetBalance", "GetAccount", "ListAccounts", "GetTransactionHistory"}
  <2>1. CASE c.op = "GetBalance"
    <3>1. CASE Held(A, c.id)
      <4>0. Held(B, c.id) /\ A[c.id].balance = B[c.id].balance
        BY <1>9, <3>1
      <4>1. p = Done(BankOf(A, T, n + 1), A[c.id].balance, None)
        BY <1>2, <2>1, <3>1, GetBalanceDone
      <4>3. q = Done(BankOf(B, U, n + 1), B[c.id].balance, None)
        BY <1>2, <2>1, <4>0, GetBalanceDone
      <4>2. SameAnswer(c, Reply(A[c.id].balance, None), Reply(A[c.id].balance, None))
        BY DEF SameAnswer
      <4> QED  BY <1>3, <4>0, <4>1, <4>2, <4>3
    <3>2. CASE ~Held(A, c.id)
      BY <1>2, <1>3, <1>9, <2>1, <3>2, GetBalanceDone
    <3> QED  BY <3>1, <3>2
  <2>2. CASE c.op = "GetAccount"
    <3>1. CASE Held(A, c.id)
      <4>1. /\ p = Done(BankOf(A, T, n + 1), A[c.id], None)
            /\ q = Done(BankOf(B, U, n + 1), B[c.id], None)
        BY <1>2, <1>9, <2>2, <3>1, GetAccountDone
      <4>2. SameAnswer(c, Reply(A[c.id], None), Reply(B[c.id], None))
        <5>1. Settled(A[c.id]) = Settled(B[c.id])
          BY <1>1, <3>1 DEF Settled, SameAccounts, Held
        <5> QED  BY <2>2, <5>1, SharedAccount
      <4> QED  BY <1>3, <4>1, <4>2
    <3>2. CASE ~Held(A, c.id)
      BY <1>2, <1>3, <1>9, <2>2, <3>2, GetAccountDone
    <3> QED  BY <3>1, <3>2
  <2>3. CASE c.op = "ListAccounts"
    <3> DEFINE d == Listing(A, env)
               e == Listing(B, other)
    <3>1. p = Done(BankOf(A, T, n + 1), d, None) /\ q = Done(BankOf(B, U, n + 1), e, None)
      BY <1>2, <2>3, ListAccountsDone
    <3>2. There(A) = There(B) /\ \A a \in There(A) : Settled(A[a]) = Settled(B[a])
      BY <1>1 DEF There, SameAccounts, Settled
    <3>3. d.accounts = [a \in There(A) |-> A[a]] /\ e.accounts = [a \in There(B) |-> B[a]]
      BY DEF Listing
    <3> HIDE DEF d, e
    <3>4. SameAnswer(c, Reply(d, None), Reply(e, None))
      <4>1. /\ Shared(c, Reply(d, None)) = [a \in DOMAIN d.accounts |-> Settled(d.accounts[a])]
            /\ Shared(c, Reply(e, None)) = [a \in DOMAIN e.accounts |-> Settled(e.accounts[a])]
        BY <2>3, SharedListing
      <4>2. /\ [a \in DOMAIN d.accounts |-> Settled(d.accounts[a])] = [a \in There(A) |-> Settled(A[a])]
            /\ [a \in DOMAIN e.accounts |-> Settled(e.accounts[a])] = [a \in There(B) |-> Settled(B[a])]
        BY <3>3
      <4>3. [a \in There(A) |-> Settled(A[a])] = [a \in There(B) |-> Settled(B[a])]
        BY <3>2
      <4> QED  BY <4>1, <4>2, <4>3 DEF SameAnswer
    <3> QED  BY <1>3, <3>1, <3>4
  <2>4. CASE c.op = "GetTransactionHistory"
    <3> DEFINE h == Page(A, T, n + 1, c)
               k == Page(B, U, n + 1, c)
    <3>1. p = Done(BankOf(A, T, n + 1), h, None) /\ q = Done(BankOf(B, U, n + 1), k, None)
      BY <1>2, <2>4, HistoryDone
    <3>2. Mine(T, c.id) = Mine(U, c.id) /\ \A i \in Mine(T, c.id) : Movement(T[i]) = Movement(U[i])
      <4>1. DOMAIN T = 1..Len(T) /\ DOMAIN U = 1..Len(T)
        BY <1>1 DEF SameEntries
      <4>2. Mine(T, c.id) = Mine(U, c.id) /\ Mine(T, c.id) \subseteq 1..Len(T)
        BY <1>1, <4>1 DEF Mine, SameEntries
      <4>3. \A i \in 1..Len(T) : Movement(T[i]) = Movement(U[i])
        BY <1>1 DEF Movement, SameEntries
      <4> QED  BY <4>2, <4>3
    <3>3. c.limit \in Nat \cup {None}
      BY <2>4 DEF IsBankCommand
    <3>4. /\ c.limit = None => {Movement(h[i]) : i \in DOMAIN h} = {Movement(T[i]) : i \in Mine(T, c.id)}
          /\ Len(h) = Shown(Mine(T, c.id), c.limit)
      BY <1>1, <3>3, PageShows, Zenon
    <3>5. /\ c.limit = None => {Movement(k[i]) : i \in DOMAIN k} = {Movement(U[i]) : i \in Mine(U, c.id)}
          /\ Len(k) = Shown(Mine(U, c.id), c.limit)
      BY <1>1, <3>3, PageShows, Zenon
    <3> HIDE DEF h, k
    <3>6. SameAnswer(c, Reply(h, None), Reply(k, None))
      <4>1. /\ Shared(c, Reply(h, None))
                 = IF c.limit = None THEN {Movement(h[i]) : i \in DOMAIN h} ELSE Len(h)
            /\ Shared(c, Reply(k, None))
                 = IF c.limit = None THEN {Movement(k[i]) : i \in DOMAIN k} ELSE Len(k)
        BY <2>4, SharedHistory
      <4>2. {Movement(T[i]) : i \in Mine(T, c.id)} = {Movement(U[i]) : i \in Mine(U, c.id)}
        BY <3>2
      <4> QED  BY <3>2, <3>4, <3>5, <4>1, <4>2 DEF SameAnswer
    <3> QED  BY <1>3, <3>1, <3>6
  <2> QED  BY <1>8, <2>1, <2>2, <2>3, <2>4
<1> QED  BY <1>4, <1>5, <1>6, <1>7, <1>8 DEF IsBankCommand, BankOps

-----------------------------------------------------------------------------
(* The same for every machine                                               *)

StoreOf(d, v, o) == [data |-> d, version |-> v, total_operations |-> o]
TextOf(d, v)     == [data |-> d, version |-> v]
CounterOf(v, n)  == [value |-> v, operation_count |-> n]
SimpleOf(d, n)   == [data |-> d, operation_count |-> n]

EntryType == [value : Values, version : Nat, created_at : Nat, updated_at : Nat]
DataOf    == [Keys -> EntryType \cup {None}]

\* A state that the machine can have
Good(m, s) ==
  /\ m \in Banks => s \in BankState
  /\ m = "store" => s = StoreOf(s.data, s.version, s.total_operations) /\ s.data \in DataOf
  /\ m = "in_memory" => s = TextOf(s.data, s.version)
  /\ m = "counter" => s = CounterOf(s.value, s.operation_count)
  /\ m = "simple" => s = SimpleOf(s.data, s.operation_count)

\* The same entries but for their times
SameData(d, e) ==
  \A k \in Keys : /\ d[k] = None <=> e[k] = None
                  /\ d[k] # None => d[k].value = e[k].value /\ d[k].version = e[k].version

\* The states that Replicated does not tell apart; exact: the store was used by nothing
\* but the log, and its version counts.
Same(m, exact, s, t) ==
  IF m \in Banks THEN SameBank(s, t)
  ELSE IF m = "store" THEN SameData(s.data, t.data) /\ (exact => s.version = t.version)
  ELSE s = t

SameResult(m, exact, c, p, q) ==
  /\ Good(m, p.state) /\ Same(m, exact, p.state, q.state)
  /\ p.status = q.status /\ SameAnswer(c, p.answer, q.answer)

\* What set writes, and when it does
Written(d, k, v, time) ==
  [value |-> v, version |-> IF d[k] = None THEN 1 ELSE d[k].version + 1,
   created_at |-> IF d[k] = None THEN time ELSE d[k].created_at, updated_at |-> time]
KeysIn(d) == {k \in Keys : d[k] # None}
CanSet(d, c) == /\ c.key \in Keys /\ c.value \in Values
                /\ ~(d[c.key] = None /\ Store!Cardinality(KeysIn(d)) >= max_keys)

\* The parts of a store's state, and what set and delete count.
LEMMA StoreParts ==
  ASSUME NEW d, NEW v, NEW o
  PROVE  /\ StoreOf(d, v, o).data = d /\ Store!KeysOf(StoreOf(d, v, o)) = KeysIn(d)
         /\ Store!increment_operation_count(StoreOf(d, v, o)) = StoreOf(d, v, o + 1)
         /\ Store!notify(StoreOf(d, v, o)) = StoreOf(d, v + 1, o)
BY DEF StoreOf, Store!KeysOf, KeysIn, Store!increment_operation_count, Store!notify, Store!get_version

\* set, taken apart.
LEMMA SetDone ==
  ASSUME NEW d, NEW v, NEW o, NEW time, NEW c, c.op = "Set"
  PROVE  Store!apply_command(StoreOf(d, v, o), c, time)
           = IF CanSet(d, c)
             THEN Store!Result(StoreOf([d EXCEPT ![c.key] = Written(d, c.key, c.value, time)], v + 1, o + 1), TRUE)
             ELSE Store!Error(StoreOf(d, v, o))
<1> DEFINE s == StoreOf(d, v, o)
           e == [d EXCEPT ![c.key] = Written(d, c.key, c.value, time)]
<1>1. Store!apply_command(s, c, time) = Store!set(s, c.key, c.value, time)
  BY DEF Store!apply_command
<1>2. [s EXCEPT !.data[c.key] = Store!Entry(s, c.key, c.value, time)] = StoreOf(e, v, o)
  BY DEF StoreOf, Store!Entry, Written
<1>3. Store!notify(Store!increment_operation_count(StoreOf(e, v, o))) = StoreOf(e, v + 1, o + 1)
  BY StoreParts
<1>4. s.data = d /\ Store!KeysOf(s) = KeysIn(d)
  BY StoreParts
<1> HIDE DEF s, e
<1> QED  BY <1>1, <1>2, <1>3, <1>4
         DEF Store!set, Store!validate_key, Store!validate_value, CanSet, s, e

\* get and exists, taken apart.
LEMMA GetDone ==
  ASSUME NEW d, NEW v, NEW o, NEW time, NEW c, c.op \in {"Get", "Exists"}
  PROVE  Store!apply_command(StoreOf(d, v, o), c, time)
           = IF c.key \in Keys THEN Store!Result(StoreOf(d, v, o + 1), d[c.key] # None)
             ELSE Store!Error(StoreOf(d, v, o))
<1> DEFINE s == StoreOf(d, v, o)
<1>1. Store!apply_command(s, c, time) = IF c.op = "Get" THEN Store!get(s, c.key) ELSE Store!exists(s, c.key)
  BY DEF Store!apply_command
<1>2. /\ s.data = d /\ Store!KeysOf(s) = KeysIn(d)
      /\ Store!increment_operation_count(s) = StoreOf(d, v, o + 1)
  BY StoreParts
<1> HIDE DEF s
<1>3. c.key \in Keys => ((c.key \in KeysIn(d)) = (d[c.key] # None))
  BY DEF KeysIn
<1> QED  BY <1>1, <1>2, <1>3 DEF Store!get, Store!exists, Store!validate_key, s

\* What get, exists and delete answer
Found(s)  == Store!Result(s, TRUE)
Missed(s) == Store!Result(s, FALSE)

\* delete of a key that the store refuses.
LEMMA DeleteRefused ==
  ASSUME NEW d, NEW v, NEW o, NEW time, NEW c, c.op = "Delete", c.key \notin Keys
  PROVE  Store!apply_command(StoreOf(d, v, o), c, time) = Store!Error(StoreOf(d, v, o))
<1>1. Store!apply_command(StoreOf(d, v, o), c, time) = Store!delete(StoreOf(d, v, o), c.key)
  BY DEF Store!apply_command
<1> QED  BY <1>1 DEF Store!delete, Store!validate_key

\* delete of a key that is not there.
LEMMA DeleteMissed ==
  ASSUME NEW d, NEW v, NEW o, NEW time, NEW c, c.op = "Delete", c.key \in Keys, d[c.key] = None
  PROVE  Store!apply_command(StoreOf(d, v, o), c, time) = Missed(StoreOf(d, v, o + 1))
<1> DEFINE s == StoreOf(d, v, o)
<1>1. Store!apply_command(s, c, time) = Store!delete(s, c.key)
  BY DEF Store!apply_command
<1>2. s.data = d /\ Store!increment_operation_count(s) = StoreOf(d, v, o + 1)
  BY StoreParts
<1> HIDE DEF s
<1> QED  BY <1>1, <1>2 DEF Store!delete, Store!validate_key, Missed, s

\* delete of a key that is there.
LEMMA DeleteFound ==
  ASSUME NEW d, NEW v, NEW o, NEW time, NEW c, c.op = "Delete", c.key \in Keys, d[c.key] # None
  PROVE  Store!apply_command(StoreOf(d, v, o), c, time)
           = Found(StoreOf([d EXCEPT ![c.key] = None], v + 1, o + 1))
<1> DEFINE s == StoreOf(d, v, o)
           e == [d EXCEPT ![c.key] = None]
<1>1. Store!apply_command(s, c, time) = Store!delete(s, c.key)
  BY DEF Store!apply_command
<1>2. [s EXCEPT !.data[c.key] = None] = StoreOf(e, v, o)
  BY DEF StoreOf
<1>3. Store!notify(Store!increment_operation_count(StoreOf(e, v, o))) = StoreOf(e, v + 1, o + 1)
  BY StoreParts
<1>4. s.data = d
  BY StoreParts
<1> HIDE DEF s, e
<1> QED  BY <1>1, <1>2, <1>3, <1>4 DEF Store!delete, Store!validate_key, Found, s, e

\* What set writes is an entry, and the same on both sides but for the times.
LEMMA WrittenSame ==
  ASSUME NEW d \in DataOf, NEW e \in DataOf, SameData(d, e), NEW k \in Keys, NEW v \in Values,
         NEW time \in Nat, NEW other \in Nat
  PROVE  /\ [d EXCEPT ![k] = Written(d, k, v, time)] \in DataOf
         /\ SameData([d EXCEPT ![k] = Written(d, k, v, time)], [e EXCEPT ![k] = Written(e, k, v, other)])
<1>1. ASSUME NEW g \in DataOf, NEW now_ \in Nat
      PROVE  Written(g, k, v, now_) \in EntryType /\ Written(g, k, v, now_) # None
  <2>1. g[k] # None => g[k].version \in Nat /\ g[k].created_at \in Nat
    BY DEF DataOf, EntryType
  <2>2. Written(g, k, v, now_) \in EntryType
    BY <2>1 DEF Written, EntryType
  <2> QED  BY <2>2, EntriesAssumption DEF EntryType
<1> DEFINE x == Written(d, k, v, time)
           y == Written(e, k, v, other)
<1>2. x.value = y.value /\ x.version = y.version
  BY DEF Written, SameData
<1>3. x \in EntryType /\ x # None /\ y \in EntryType /\ y # None
  BY <1>1
<1> HIDE DEF x, y
<1>4. /\ [d EXCEPT ![k] = x] \in DataOf
      /\ [d EXCEPT ![k] = x][k] = x /\ [e EXCEPT ![k] = y][k] = y
      /\ \A l \in Keys : l # k => [d EXCEPT ![k] = x][l] = d[l] /\ [e EXCEPT ![k] = y][l] = e[l]
  BY <1>3 DEF DataOf
<1> DEFINE f == [d EXCEPT ![k] = x]
           g == [e EXCEPT ![k] = y]
<1> HIDE DEF f, g
<1>5. f[k] = x /\ g[k] = y /\ \A l \in Keys : l # k => f[l] = d[l] /\ g[l] = e[l]
  BY <1>4 DEF f, g
<1>6. SameData(f, g)
  BY <1>2, <1>3, <1>5 DEF SameData
<1> QED  BY <1>4, <1>6 DEF f, g, x, y

\* What delete leaves.
LEMMA DeletedSame ==
  ASSUME NEW d \in DataOf, NEW e \in DataOf, SameData(d, e), NEW k \in Keys
  PROVE  /\ [d EXCEPT ![k] = None] \in DataOf
         /\ SameData([d EXCEPT ![k] = None], [e EXCEPT ![k] = None])
<1> DEFINE f == [d EXCEPT ![k] = None]
           g == [e EXCEPT ![k] = None]
<1>1. f \in DataOf
  BY DEF DataOf
<1>2. f[k] = None /\ g[k] = None /\ \A l \in Keys : l # k => f[l] = d[l] /\ g[l] = e[l]
  BY DEF DataOf
<1> HIDE DEF f, g
<1>3. SameData(f, g)
  BY <1>2 DEF SameData
<1> QED  BY <1>1, <1>3 DEF f, g

\* A command on two stores that hold the same data but for the times.
LEMMA StoreSame ==
  ASSUME NEW d \in DataOf, NEW h \in DataOf, SameData(d, h), NEW v, NEW o, NEW w, NEW u,
         NEW exact, exact => v = w, NEW c, c.op \in {"Set", "Get", "Exists", "Delete"},
         NEW time \in Nat, NEW other \in Nat
  PROVE  SameResult("store", exact, c, Store!apply_command(StoreOf(d, v, o), c, time),
                    Store!apply_command(StoreOf(h, w, u), c, other))
<1> DEFINE p == Store!apply_command(StoreOf(d, v, o), c, time)
           q == Store!apply_command(StoreOf(h, w, u), c, other)
<1>0. /\ KeysIn(d) = KeysIn(h)
      /\ CanSet(d, c) <=> CanSet(h, c)
      /\ c.key \in Keys => (d[c.key] = None <=> h[c.key] = None)
  BY DEF KeysIn, CanSet, SameData
<1>1. \E e, f, i, j, k, l :
        /\ p.state = StoreOf(e, i, j) /\ q.state = StoreOf(f, k, l) /\ (exact => i = k)
        /\ e \in DataOf /\ SameData(e, f) /\ p.status = q.status /\ p.answer = q.answer
  <2>1. CASE c.op = "Set"
    <3>1. CASE CanSet(d, c)
      <4> DEFINE e == [d EXCEPT ![c.key] = Written(d, c.key, c.value, time)]
                 f == [h EXCEPT ![c.key] = Written(h, c.key, c.value, other)]
      <4>1. p = Store!Result(StoreOf(e, v + 1, o + 1), TRUE)
        BY <2>1, <3>1, SetDone
      <4>2. q = Store!Result(StoreOf(f, w + 1, u + 1), TRUE)
        <5>1. CanSet(h, c)
          BY <1>0, <3>1
        <5> QED  BY <2>1, <5>1, SetDone
      <4>3. e \in DataOf /\ SameData(e, f)
        <5>1. c.key \in Keys /\ c.value \in Values
          BY <3>1 DEF CanSet
        <5> QED  BY <5>1, WrittenSame
      <4> HIDE DEF p, q, e, f
      <4> QED  BY <4>1, <4>2, <4>3 DEF Store!Result
    <3>2. CASE ~CanSet(d, c)
      <4>1. p = Store!Error(StoreOf(d, v, o)) /\ q = Store!Error(StoreOf(h, w, u))
        <5>1. ~CanSet(h, c)
          BY <1>0, <3>2
        <5> QED  BY <2>1, <3>2, <5>1, SetDone
      <4> HIDE DEF p, q
      <4> QED  BY <4>1 DEF Store!Error
    <3> QED  BY <3>1, <3>2
  <2>2. CASE c.op \in {"Get", "Exists"}
    <3>1. CASE c.key \in Keys
      <4> DEFINE g == (d[c.key] # None)
      <4>1. p = Store!Result(StoreOf(d, v, o + 1), g)
        BY <2>2, <3>1, GetDone
      <4>2. q = Store!Result(StoreOf(h, w, u + 1), g)
        <5>1. q = Store!Result(StoreOf(h, w, u + 1), h[c.key] # None)
          BY <2>2, <3>1, GetDone
        <5>2. (h[c.key] # None) = g
          BY <1>0, <3>1
        <5> HIDE DEF q, g
        <5> QED  BY <5>1, <5>2
      <4> HIDE DEF p, q, g
      <4> QED  BY <4>1, <4>2 DEF Store!Result
    <3>2. CASE c.key \notin Keys
      <4>1. p = Store!Error(StoreOf(d, v, o)) /\ q = Store!Error(StoreOf(h, w, u))
        BY <2>2, <3>2, GetDone
      <4> HIDE DEF p, q
      <4> QED  BY <4>1 DEF Store!Error
    <3> QED  BY <3>1, <3>2
  <2>3. CASE c.op = "Delete"
    <3>1. CASE c.key \notin Keys
      <4>1. p = Store!Error(StoreOf(d, v, o)) /\ q = Store!Error(StoreOf(h, w, u))
        BY <2>3, <3>1, DeleteRefused
      <4> HIDE DEF p, q
      <4> QED  BY <4>1 DEF Store!Error
    <3>2. CASE c.key \in Keys /\ d[c.key] = None
      <4>0. h[c.key] = None
        BY <1>0, <3>2
      <4>1. p = Missed(StoreOf(d, v, o + 1)) /\ q = Missed(StoreOf(h, w, u + 1))
        BY <2>3, <3>2, <4>0, DeleteMissed
      <4> HIDE DEF p, q
      <4> QED  BY <4>1 DEF Missed, Store!Result
    <3>3. CASE c.key \in Keys /\ d[c.key] # None
      <4> DEFINE e == [d EXCEPT ![c.key] = None]
                 f == [h EXCEPT ![c.key] = None]
      <4>0. h[c.key] # None
        BY <1>0, <3>3
      <4>1. p = Found(StoreOf(e, v + 1, o + 1))
        BY <2>3, <3>3, DeleteFound
      <4>2. q = Found(StoreOf(f, w + 1, u + 1))
        BY <2>3, <3>3, <4>0, DeleteFound
      <4>3. e \in DataOf /\ SameData(e, f)
        BY <3>3, DeletedSame
      <4> HIDE DEF p, q, e, f
      <4> QED  BY <4>1, <4>2, <4>3 DEF Found, Store!Result
    <3> QED  BY <3>1, <3>2, <3>3
  <2> QED  BY <2>1, <2>2, <2>3
<1> HIDE DEF p, q
<1>2. PICK e, f, i, j, k, l :
        /\ p.state = StoreOf(e, i, j) /\ q.state = StoreOf(f, k, l) /\ (exact => i = k)
        /\ e \in DataOf /\ SameData(e, f) /\ p.status = q.status /\ p.answer = q.answer
  BY <1>1
<1>3. SameAnswer(c, p.answer, q.answer)
  BY <1>2 DEF SameAnswer
<1>4. p.state.data = e /\ q.state.data = f /\ p.state.version = i /\ q.state.version = k
      /\ p.state = StoreOf(p.state.data, p.state.version, p.state.total_operations)
  BY <1>2 DEF StoreOf
<1>5. SameResult("store", exact, c, p, q)
  BY <1>2, <1>3, <1>4 DEF SameResult, Good, Same, Banks
<1> QED  BY <1>5 DEF p, q

\* in_memory's state stays a record of data and version.
LEMMA TextGood ==
  ASSUME NEW s, Good("in_memory", s), NEW c, c.op \in {"SET", "GET", "DEL", "malformed"}
  PROVE  Good("in_memory", Text!in_memory_apply_command(s, c).state)
<1> DEFINE p == Text!in_memory_apply_command(s, c)
<1>1. s = TextOf(s.data, s.version)
  BY DEF Good
<1>2. \E e, w : p.state = TextOf(e, w)
  <2>1. CASE c.op \in {"SET", "DEL"}
    <3>1. p.state = s \/ p.state = TextOf([s.data EXCEPT ![c.key] = c.value], s.version + 1)
          \/ p.state = TextOf([s.data EXCEPT ![c.key] = None], s.version + 1)
      BY <2>1 DEF Text!in_memory_apply_command, Text!Ok, TextOf
    <3> HIDE DEF p
    <3> QED  BY <1>1, <3>1
  <2>2. CASE c.op \in {"GET", "malformed"}
    <3>1. p.state = s
      BY <2>2 DEF Text!in_memory_apply_command, Text!Ok
    <3> HIDE DEF p
    <3> QED  BY <1>1, <3>1
  <2> QED  BY <2>1, <2>2
<1> HIDE DEF p
<1>3. PICK e, w : p.state = TextOf(e, w)
  BY <1>2
<1>4. Good("in_memory", p.state)
  BY <1>3 DEF Good, TextOf, Banks
<1> QED  BY <1>4 DEF p

\* What the counter makes of a state taken apart: a refused command only counts.
LEMMA CounterDone ==
  ASSUME NEW v, NEW n, NEW c, c.op \in {"Increment", "Decrement", "Set", "Get", "Reset"}
  PROVE  LET p == Counter!apply_command(CounterOf(v, n), c)
         IN  /\ \E w : p.state = CounterOf(w, n + 1)
             /\ p.status = "ok" /\ (~p.answer.success => p.state = CounterOf(v, n + 1))
<1> DEFINE k == CounterOf(v, n + 1)
           p == Counter!apply_command(CounterOf(v, n), c)
<1>1. [CounterOf(v, n) EXCEPT !.operation_count = @ + 1] = k /\ CounterOf(v, n).value = v
  BY DEF CounterOf
<1>2. \A w : [k EXCEPT !.value = w] = CounterOf(w, n + 1)
  BY DEF CounterOf
<1> HIDE DEF k
<1>3. \/ p = Counter!Success(k) \/ p = Counter!Error(k)
      \/ \E w : p = Counter!Success(CounterOf(w, n + 1))
  <2>1. CASE c.op = "Increment"
    BY <1>1, <1>2, <2>1 DEF Counter!apply_command, Counter!Checked
  <2>2. CASE c.op = "Decrement"
    BY <1>1, <1>2, <2>2 DEF Counter!apply_command, Counter!Checked
  <2>3. CASE c.op \in {"Set", "Get", "Reset"}
    BY <1>1, <1>2, <2>3 DEF Counter!apply_command
  <2> QED  BY <2>1, <2>2, <2>3
<1> HIDE DEF p
<1>4. /\ \E w : p.state = CounterOf(w, n + 1)
      /\ p.status = "ok" /\ (~p.answer.success => p.state = k)
  BY <1>3 DEF Counter!Success, Counter!Error, k
<1> QED  BY <1>4 DEF p, k

\* What SimpleKVStateMachine makes of a state taken apart: a command that fails leaves
\* the data.
LEMMA SimpleDone ==
  ASSUME NEW d, NEW n, NEW c, c.op \in {"SET", "GET", "DEL", "LIST", "COUNT", "malformed"}, NEW order
  PROVE  LET p == Text!simple_apply_command(SimpleOf(d, n), c, order)
         IN  /\ \E e, k : p.state = SimpleOf(e, k)
             /\ \/ p.status = "ok" /\ p.answer.success
                \/ p.status = "err" /\ p.state.data = d
<1> DEFINE s == SimpleOf(d, n + 1)
           p == Text!simple_apply_command(SimpleOf(d, n), c, order)
<1>1. [SimpleOf(d, n) EXCEPT !.operation_count = @ + 1] = s /\ s.data = d /\ SimpleOf(d, n).data = d
  BY DEF SimpleOf
<1>2. \A k, v : [s EXCEPT !.data[k] = v] = SimpleOf([d EXCEPT ![k] = v], n + 1)
  BY DEF SimpleOf
<1> HIDE DEF s
<1>3. \/ \E text : p = Text!Ok(s, text)
      \/ \E e, text : p = Text!Ok(SimpleOf(e, n + 1), text)
      \/ p = Text!Err(s) \/ p = Text!Err(SimpleOf(d, n))
  <2> DEFINE keys == {k \in Keys : s.data[k] # None}
  <2>6. ~c.utf8 => p = Text!Err(SimpleOf(d, n))
    BY DEF Text!simple_apply_command
  <2>0. c.utf8 =>
          p = CASE c.op = "SET"       -> Text!Ok([s EXCEPT !.data[c.key] = c.value], c.value)
                [] c.op = "GET"       -> Text!Ok(s, s.data[c.key])
                [] c.op = "DEL"       -> Text!Ok([s EXCEPT !.data[c.key] = None], s.data[c.key])
                [] c.op = "COUNT"     -> Text!Ok(s, Text!Cardinality(keys))
                [] c.op = "LIST"      -> Text!Ok(s, Text!Listed(keys, order))
                [] c.op = "malformed" -> Text!Err(s)
    BY <1>1, Zenon DEF Text!simple_apply_command
  <2> HIDE DEF p, keys
  <2>5. CASE ~c.utf8
    BY <2>5, <2>6
  <2>1. CASE c.utf8 /\ c.op = "SET"
    <3>1. p = Text!Ok([s EXCEPT !.data[c.key] = c.value], c.value)
      BY <2>0, <2>1
    <3>2. [s EXCEPT !.data[c.key] = c.value] = SimpleOf([d EXCEPT ![c.key] = c.value], n + 1)
      BY <1>2
    <3>3. p = Text!Ok(SimpleOf([d EXCEPT ![c.key] = c.value], n + 1), c.value)
      BY <3>1, <3>2
    <3> QED  BY <3>3, Zenon
  <2>4. CASE c.utf8 /\ c.op = "DEL"
    <3>1. p = Text!Ok([s EXCEPT !.data[c.key] = None], s.data[c.key])
      BY <2>0, <2>4
    <3>2. [s EXCEPT !.data[c.key] = None] = SimpleOf([d EXCEPT ![c.key] = None], n + 1)
      BY <1>2
    <3>3. p = Text!Ok(SimpleOf([d EXCEPT ![c.key] = None], n + 1), s.data[c.key])
      BY <3>1, <3>2
    <3> QED  BY <3>3, Zenon
  <2>2. CASE c.utf8 /\ c.op \in {"GET", "COUNT", "LIST"}
    BY <2>0, <2>2
  <2>3. CASE c.utf8 /\ c.op = "malformed"
    BY <2>0, <2>3
  <2> QED  BY <2>1, <2>2, <2>3, <2>4, <2>5
<1> HIDE DEF p
<1>4. /\ \E e, k : p.state = SimpleOf(e, k)
      /\ \/ p.status = "ok" /\ p.answer.success
         \/ p.status = "err" /\ p.state.data = d
  BY <1>1, <1>3 DEF Text!Ok, Text!Err, s
<1> QED  BY <1>4 DEF p

\* However the keys are ordered, SimpleKVStateMachine does the same, and lists the same
\* keys.
LEMMA SimpleSame ==
  ASSUME NEW s, NEW c, NEW order, NEW another
  PROVE  LET p == Text!simple_apply_command(s, c, order)
             q == Text!simple_apply_command(s, c, another)
         IN  p.state = q.state /\ p.status = q.status /\ SameAnswer(c, p.answer, q.answer)
<1> DEFINE p == Text!simple_apply_command(s, c, order)
           q == Text!simple_apply_command(s, c, another)
<1>1. CASE ~c.utf8 \/ c.op # "LIST"
  <2>1. p = q
    BY <1>1 DEF Text!simple_apply_command
  <2> HIDE DEF p, q
  <2>2. p.state = q.state /\ p.status = q.status /\ SameAnswer(c, p.answer, q.answer)
    BY <2>1 DEF SameAnswer
  <2> QED  BY <2>2 DEF p, q
<1>2. CASE c.utf8 /\ c.op = "LIST"
  <2> DEFINE t == [s EXCEPT !.operation_count = @ + 1]
             keys == {k \in Keys : t.data[k] # None}
             f == Text!Listed(keys, order)
             g == Text!Listed(keys, another)
  <2>1. p = Text!Ok(t, f) /\ q = Text!Ok(t, g)
    BY <1>2 DEF Text!simple_apply_command
  <2>2. {pair[1] : pair \in f} = keys /\ {pair[1] : pair \in g} = keys
    <3>1. ASSUME NEW S, NEW o  PROVE {pair[1] : pair \in Text!Listed(S, o)} = S
      <4>1. \A k \in S : <<k, k>> \in Text!Listed(S, o) /\ <<k, k>>[1] = k
        BY DEF Text!Listed
      <4>2. \A pair \in Text!Listed(S, o) : pair[1] \in S
        BY DEF Text!Listed
      <4> QED  BY <4>1, <4>2
    <3> QED  BY <3>1
  <2> HIDE DEF p, q, t, f, g
  <2>3. p.state = q.state /\ p.status = q.status /\ p.answer.text = f /\ q.answer.text = g
    BY <2>1 DEF Text!Ok
  <2>4. \A a : Shared(c, a) = {pair[1] : pair \in a.text}
    BY <1>2 DEF Shared
  <2>5. SameAnswer(c, p.answer, q.answer)
    BY <2>2, <2>3, <2>4 DEF SameAnswer
  <2> QED  BY <2>3, <2>5 DEF p, q
<1> QED  BY <1>1, <1>2

\* An answer is the same as itself.
LEMMA SameAnswerRefl ==
  ASSUME NEW c, NEW a  PROVE SameAnswer(c, a, a)
BY DEF SameAnswer

\* No machine looks at anything but the replicated part of its state and the command.
LEMMA CommandSame ==
  ASSUME NEW m \in Machines, NEW exact, NEW c, IsCommand(m, c), NEW s, Good(m, s), NEW t, Good(m, t),
         Same(m, exact, s, t), NEW env, IsEnv(env), NEW other, IsEnv(other)
  PROVE  SameResult(m, exact, c, apply_command(m, s, c, env), apply_command(m, t, c, other))
<1> DEFINE p == apply_command(m, s, c, env)
           q == apply_command(m, t, c, other)
<1> SUFFICES SameResult(m, exact, c, p, q)
  OBVIOUS
<1>1. CASE m = "counter"
  <2>1. p = Counter!apply_command(s, c) /\ q = Counter!apply_command(t, c) /\ s = t
    BY <1>1 DEF apply_command, Same, Banks
  <2> HIDE DEF p, q
  <2>2. p = q
    BY <2>1
  <2>3. s = CounterOf(s.value, s.operation_count)
        /\ c.op \in {"Increment", "Decrement", "Set", "Get", "Reset"}
    BY <1>1 DEF Good, IsCommand, Banks
  <2>4. \E w : p.state = CounterOf(w, s.operation_count + 1)
    BY <2>1, <2>3, CounterDone
  <2>5. Good(m, p.state)
    BY <1>1, <2>4 DEF Good, CounterOf, Banks
  <2> QED  BY <1>1, <2>2, <2>5, SameAnswerRefl DEF SameResult, Same, Banks
<1>2. CASE m \in Banks
  <2> DEFINE x == m = "checked_bank"
  <2>1. p = Bank!apply_command(s, c, env, x) /\ q = Bank!apply_command(t, c, other, x)
    BY <1>2 DEF apply_command, Banks
  <2>2. IsBankCommand(c)
    BY <1>2 DEF IsCommand, IsBankCommand, Banks
  <2>3. s \in BankState /\ t \in BankState /\ SameBank(s, t) /\ x \in BOOLEAN
    BY <1>2 DEF Good, Same
  <2> HIDE DEF p, q, x
  <2>4. SameOutcome(c, p, q)
    BY <2>1, <2>2, <2>3, BankSame
  <2> QED  BY <1>2, <2>4 DEF SameOutcome, SameResult, Good, Same, Banks
<1>3. CASE m = "store"
  <2> DEFINE d == s.data  v == s.version  o == s.total_operations
             h == t.data  w == t.version  u == t.total_operations
             i == env.now  j == other.now
  <2>1. /\ s = StoreOf(d, v, o) /\ t = StoreOf(h, w, u) /\ (exact => v = w)
        /\ d \in DataOf /\ h \in DataOf /\ SameData(d, h) /\ i \in Nat /\ j \in Nat
    BY <1>3 DEF Good, Same, Banks, IsEnv
  <2>2. p = Store!apply_command(s, c, i) /\ q = Store!apply_command(t, c, j)
    BY <1>3 DEF apply_command, Banks
  <2>3. c.op \in {"Set", "Get", "Exists", "Delete"}
    BY <1>3 DEF IsCommand, Banks
  <2> HIDE DEF p, q, d, v, o, h, w, u, i, j
  <2> QED  BY <1>3, <2>1, <2>2, <2>3, StoreSame
<1>4. CASE m = "in_memory"
  <2>1. p = Text!in_memory_apply_command(s, c) /\ q = Text!in_memory_apply_command(t, c) /\ s = t
    BY <1>4 DEF apply_command, Same, Banks
  <2>2. c.op \in {"SET", "GET", "DEL", "malformed"}
    BY <1>4 DEF IsCommand, Banks
  <2> HIDE DEF p, q
  <2>3. p = q /\ Good(m, p.state)
    BY <1>4, <2>1, <2>2, TextGood
  <2> QED  BY <1>4, <2>3, SameAnswerRefl DEF SameResult, Same, Banks
<1>5. CASE m = "simple"
  <2>1. p = Text!simple_apply_command(s, c, env.order) /\ q = Text!simple_apply_command(s, c, other.order)
    BY <1>5 DEF apply_command, Same, Banks
  <2> HIDE DEF p, q
  <2>2. p.state = q.state /\ p.status = q.status /\ SameAnswer(c, p.answer, q.answer)
    BY <2>1, SimpleSame
  <2>3. s = SimpleOf(s.data, s.operation_count)
        /\ c.op \in {"SET", "GET", "DEL", "LIST", "COUNT", "malformed"}
    BY <1>5 DEF Good, IsCommand, Banks
  <2>4. \E e, k : p.state = SimpleOf(e, k)
    BY <2>1, <2>3, SimpleDone
  <2>5. Good(m, p.state)
    BY <1>5, <2>4 DEF Good, SimpleOf, Banks
  <2> QED  BY <1>5, <2>2, <2>5 DEF SameResult, Same, Banks
<1> QED  BY <1>1, <1>2, <1>3, <1>4, <1>5 DEF Machines, Banks

\* Same is an equivalence, and the weaker the less exact it is.
LEMMA SameSym ==
  ASSUME NEW m, NEW exact, NEW s, NEW t, Same(m, exact, s, t)
  PROVE  Same(m, exact, s, s) /\ Same(m, exact, t, s) /\ Same(m, FALSE, s, t)
BY DEF Same, SameBank, SameEntries, SameAccounts, SameData

\* Every state is the same as itself.
LEMMA SameIsRefl ==
  ASSUME NEW m, NEW exact, NEW s
  PROVE  Same(m, exact, s, s)
BY DEF Same, SameBank, SameEntries, SameAccounts, SameData

\* Two states that are the same as a third are the same.
LEMMA SameTrans ==
  ASSUME NEW m, NEW exact, NEW s, NEW t, NEW u, Same(m, exact, s, t), Same(m, exact, t, u)
  PROVE  Same(m, exact, s, u)
BY DEF Same, SameBank, SameEntries, SameAccounts, SameData

\* A new machine is in a good state.
LEMMA NewGood ==
  ASSUME NEW m \in Machines  PROVE Good(m, New(m))
<1>1. CASE m \in Banks
  <2>1. New(m) = Bank!new
    BY <1>1 DEF New, Banks
  <2>2. Bank!new \in BankState
    BY DEF Bank!new, BankState, AccountsOf
  <2> QED  BY <1>1, <2>1, <2>2 DEF Good, Banks
<1>2. CASE m = "store"
  BY <1>2 DEF New, Good, Banks, Store!new, StoreOf, DataOf
<1>3. CASE m = "in_memory"
  BY <1>3 DEF New, Good, Banks, Text!in_memory_new, TextOf
<1>4. CASE m = "counter"
  BY <1>4 DEF New, Good, Banks, Counter!new, CounterOf
<1>5. CASE m = "simple"
  BY <1>5 DEF New, Good, Banks, Text!simple_new, SimpleOf
<1> QED  BY <1>1, <1>2, <1>3, <1>4, <1>5 DEF Machines, Banks

\* The store takes over data and version and keeps its statistics.
LEMMA StoreRestored ==
  ASSUME NEW d, NEW v, NEW o, NEW s
  PROVE  Store!deserialize_state(StoreOf(d, v, o), Store!serialize_state(s)) = StoreOf(s.data, s.version, o)
<1> DEFINE b == Store!serialize_state(s)
<1>1. b.data = s.data /\ b.version = s.version
  BY DEF Store!serialize_state, Store!get_all_data
<1> HIDE DEF b
<1>2. \A e : Store!set_all_data(StoreOf(d, v, o), e) = StoreOf(e, v, o)
  BY DEF Store!set_all_data, StoreOf
<1>3. \A e, w : Store!set_version(StoreOf(e, v, o), w) = StoreOf(e, w, o)
  BY DEF Store!set_version, StoreOf
<1> QED  BY <1>1, <1>2, <1>3 DEF Store!deserialize_state, b

\* A state taken over is the one that was serialized, whatever was there before.
LEMMA RestoreSame ==
  ASSUME NEW m \in Machines, NEW exact, NEW s, Good(m, s), NEW t, Good(m, t)
  PROVE  /\ Good(m, deserialize_state(m, t, serialize_state(m, s)))
         /\ Same(m, exact, deserialize_state(m, t, serialize_state(m, s)), s)
<1> DEFINE z == deserialize_state(m, t, serialize_state(m, s))
<1>1. CASE m = "counter"
  <2>1. z = s
    BY <1>1 DEF serialize_state, deserialize_state, Banks, Counter!serialize_state, Counter!deserialize_state
  <2> QED  BY <2>1, SameIsRefl
<1>2. CASE m \in Banks
  <2>1. z = s
    BY <1>2 DEF serialize_state, deserialize_state, Banks, Bank!serialize_state, Bank!deserialize_state
  <2> QED  BY <2>1, SameIsRefl
<1>3. CASE m = "store"
  <2>1. z = Store!deserialize_state(t, Store!serialize_state(s))
    BY <1>3 DEF serialize_state, deserialize_state, Banks
  <2>2. t = StoreOf(t.data, t.version, t.total_operations) /\ s.data \in DataOf
    BY <1>3 DEF Good
  <2>3. z = StoreOf(s.data, s.version, t.total_operations)
    BY <2>1, <2>2, StoreRestored
  <2> HIDE DEF z
  <2>4. Good(m, z) /\ Same(m, exact, z, s)
    BY <1>3, <2>2, <2>3 DEF Good, Same, SameData, StoreOf, Banks
  <2> QED  BY <2>4 DEF z
<1>4. CASE m = "in_memory"
  <2>1. z = Text!in_memory_restore(t, Text!in_memory_snapshot(s))
    BY <1>4 DEF serialize_state, deserialize_state, Banks
  <2>2. t = TextOf(t.data, t.version) /\ s = TextOf(s.data, s.version)
    BY <1>4 DEF Good
  <2>3. z = TextOf(s.data, s.version)
    BY <2>1, <2>2 DEF TextOf, Text!in_memory_restore, Text!in_memory_snapshot
  <2> QED  BY <2>2, <2>3, SameIsRefl
<1>5. CASE m = "simple"
  <2>1. z = s
    BY <1>5 DEF serialize_state, deserialize_state, Banks, Text!simple_snapshot, Text!simple_restore
  <2> QED  BY <2>1, SameIsRefl
<1> QED  BY <1>1, <1>2, <1>3, <1>4, <1>5 DEF Machines, Banks

\* Use of the store besides the log leaves its data.
LEMMA StoreUsed ==
  ASSUME NEW s, Good("store", s)
  PROVE  /\ Good("store", Store!clone(s)) /\ Same("store", FALSE, Store!clone(s), s)
         /\ Good("store", Store!create_snapshot(s)) /\ Same("store", FALSE, Store!create_snapshot(s), s)
<1>1. s = StoreOf(s.data, s.version, s.total_operations) /\ s.data \in DataOf
  BY DEF Good
<1>2. Store!clone(s) = StoreOf(s.data, s.version, 0)
  <2>1. PICK d : Store!new = StoreOf(d, 0, 0)
    BY DEF Store!new, StoreOf
  <2>2. Store!deserialize_state(StoreOf(d, 0, 0), Store!serialize_state(s)) = StoreOf(s.data, s.version, 0)
    BY StoreRestored
  <2> QED  BY <2>1, <2>2 DEF Store!clone
<1>3. Store!create_snapshot(s) = StoreOf(s.data, s.version + 1, s.total_operations)
  BY <1>1 DEF Store!create_snapshot, Store!get_version, StoreOf
<1> QED  BY <1>1, <1>2, <1>3 DEF Good, Same, SameData, StoreOf, Banks

-----------------------------------------------------------------------------
(* The same for a batch                                                     *)

IsBatch(m, b) == b \in Seq(ToSet(b)) /\ \A j \in DOMAIN b : IsCommand(m, b[j])

\* Common, for a batch instead of its place in the log
CommonOf(b, as) == [j \in DOMAIN as |-> Shared(b[j], as[j])]

\* A batch is a sequence of commands.
LEMMA BatchParts ==
  ASSUME NEW m, NEW b, IsBatch(m, b)
  PROVE  Len(b) \in Nat /\ \A j \in 1..Len(b) : IsCommand(m, b[j])
<1>1. b \in Seq(ToSet(b))
  BY DEF IsBatch
<1>2. Len(b) \in Nat /\ DOMAIN b = 1..Len(b)
  BY <1>1
<1> QED  BY <1>2 DEF IsBatch

\* Two replicas in the same state that apply the same batch, each in its own process, end
\* in the same state, panic or fail together and give the same answers, but for what the
\* processes add.
LEMMA BatchSame ==
  ASSUME NEW m \in Machines, NEW exact, NEW b, IsBatch(m, b), NEW s, Good(m, s), NEW t, Good(m, t),
         Same(m, exact, s, t), NEW env, IsEnv(env), NEW other, IsEnv(other)
  PROVE  /\ Good(m, apply_commands(m, s, b, env).state)
         /\ Same(m, exact, apply_commands(m, s, b, env).state, apply_commands(m, t, b, other).state)
         /\ apply_commands(m, s, b, env).status = apply_commands(m, t, b, other).status
         /\ CommonOf(b, apply_commands(m, s, b, env).answers)
              = CommonOf(b, apply_commands(m, t, b, other).answers)
<1> DEFINE n == Len(b)
<1>1. n \in Nat /\ \A j \in 1..n : IsCommand(m, b[j])
  BY BatchParts
<1>2. PICK f : IsCourse(f, m, s, b, env, n) /\ apply_commands(m, s, b, env) = f[n]
  BY <1>1, CourseExists
<1>3. PICK g : IsCourse(g, m, t, b, other, n) /\ apply_commands(m, t, b, other) = g[n]
  BY <1>1, CourseExists
<1> HIDE DEF n
<1> DEFINE P(i) == /\ Good(m, f[i].state) /\ Good(m, g[i].state)
                   /\ Same(m, exact, f[i].state, g[i].state) /\ f[i].status = g[i].status
           S == {i \in 0..n : P(i)}
<1>4. 0 \in S
  <2>1. f[0] = Begun(s)
    BY <1>1, <1>2, CourseBegins
  <2>2. g[0] = Begun(t)
    BY <1>1, <1>3, CourseBegins
  <2>3. f[0].state = s /\ g[0].state = t /\ f[0].status = g[0].status
    BY <2>1, <2>2 DEF Begun
  <2> QED  BY <1>1, <2>3
<1>5. ASSUME NEW i \in 1..n, i - 1 \in S
      PROVE  /\ SameResult(m, exact, b[i], One(f, m, b, env, i), One(g, m, b, other, i))
             /\ Good(m, One(g, m, b, other, i).state)
  <2>1. P(i - 1) /\ IsCommand(m, b[i])
    BY <1>1, <1>5
  <2>2. SameResult(m, exact, b[i], One(f, m, b, env, i), One(g, m, b, other, i))
    BY <2>1, CommandSame DEF One
  <2>3. Same(m, exact, g[i - 1].state, f[i - 1].state)
    BY <2>1, SameSym
  <2>4. SameResult(m, exact, b[i], One(g, m, b, other, i), One(f, m, b, env, i))
    BY <2>1, <2>3, CommandSame DEF One
  <2> QED  BY <2>2, <2>4 DEF SameResult
<1>6. ASSUME NEW i \in 1..n, i - 1 \in S  PROVE i \in S
  <2>1. P(i - 1)
    BY <1>6
  <2>2. f[i] = GoneOn(m, f[i - 1], b[i], env)
    BY <1>1, <1>2, CourseGoesOn
  <2>3. g[i] = GoneOn(m, g[i - 1], b[i], other)
    BY <1>1, <1>3, CourseGoesOn
  <2>4. CASE f[i - 1].status # "ok"
    <3>1. f[i] = f[i - 1] /\ g[i] = g[i - 1]
      BY <2>1, <2>2, <2>3, <2>4 DEF GoneOn
    <3> QED  BY <2>1, <3>1
  <2>5. CASE f[i - 1].status = "ok"
    <3>1. /\ f[i].state = One(f, m, b, env, i).state /\ f[i].status = One(f, m, b, env, i).status
          /\ g[i].state = One(g, m, b, other, i).state /\ g[i].status = One(g, m, b, other, i).status
      BY <2>1, <2>2, <2>3, <2>5 DEF GoneOn, One
    <3> QED  BY <1>5, <1>6, <3>1 DEF SameResult
  <2> QED  BY <2>4, <2>5
<1>7. 0..n \subseteq S
  <2> HIDE DEF S
  <2> QED  BY <1>1, <1>4, <1>6, UpwardsTo
<1>8. n \in 0..n
  BY <1>1
<1>9. P(n)
  BY <1>7, <1>8
<1>10. CommonOf(b, f[n].answers) = CommonOf(b, g[n].answers)
  <2>1. /\ f[n].status # "ok" => f[n].answers = <<>>
        /\ f[n].status = "ok" => f[n].answers = [j \in 1..n |-> One(f, m, b, env, j).answer]
    <3>1. AnswersUpTo(f, m, b, env, n)
      BY <1>1, <1>2, <1>8, CourseAnswers
    <3> QED  BY <3>1 DEF AnswersUpTo
  <2>2. /\ g[n].status # "ok" => g[n].answers = <<>>
        /\ g[n].status = "ok" => g[n].answers = [j \in 1..n |-> One(g, m, b, other, j).answer]
    <3>1. AnswersUpTo(g, m, b, other, n)
      BY <1>1, <1>3, <1>8, CourseAnswers
    <3> QED  BY <3>1 DEF AnswersUpTo
  <2>3. CASE f[n].status # "ok"
    BY <1>9, <2>1, <2>2, <2>3
  <2>4. CASE f[n].status = "ok"
    <3> DEFINE a == f[n].answers
               z == g[n].answers
    <3>1. DOMAIN a = 1..n /\ DOMAIN z = 1..n
      BY <1>9, <2>1, <2>2, <2>4
    <3>2. ASSUME NEW j \in 1..n  PROVE SameAnswer(b[j], a[j], z[j])
      <4>1. a[j] = One(f, m, b, env, j).answer /\ z[j] = One(g, m, b, other, j).answer
        BY <1>9, <2>1, <2>2, <2>4
      <4>2. j - 1 \in S
        BY <1>1, <1>7
      <4>3. SameAnswer(b[j], One(f, m, b, env, j).answer, One(g, m, b, other, j).answer)
        BY <1>5, <4>2 DEF SameResult
      <4> QED  BY <4>1, <4>3
    <3> HIDE DEF a, z
    <3>3. CommonOf(b, a) = CommonOf(b, z)
      BY <3>1, <3>2 DEF CommonOf, SameAnswer
    <3> QED  BY <3>3 DEF a, z
  <2> QED  BY <2>3, <2>4
<1>11. /\ apply_commands(m, s, b, env) = f[n] /\ apply_commands(m, t, b, other) = g[n]
  BY <1>2, <1>3 DEF n
<1> QED  BY <1>9, <1>10, <1>11

-----------------------------------------------------------------------------
(* The invariant: every replica is where the log leads                      *)

\* A process whose clock stands still, to lead through the log
Still == [now |-> 0, process |-> <<None, 0>>, order |-> <<>>]

\* It is one.
LEMMA StillIsEnv == IsEnv(Still)
<1>1. <<None, 0>> \in Processes
  BY DEF Processes
<1> QED  BY <1>1 DEF IsEnv, Still

\* f leads from a new machine through the log, in such a process.
Path(f, m, l) ==
  /\ f[0] = New(m)
  /\ \A i \in 0..Len(l) : Good(m, f[i])
  /\ \A i \in 1..Len(l) : f[i] = apply_commands(m, f[i - 1], l[i], Still).state

\* A state that is where the first k batches lead
Follows(f, m, exact, s, k) == Good(m, s) /\ Same(m, exact, s, f[k])

\* The serialized state is one that some replica had where the log led.
Kept(f, m, exact, snap, l) ==
  snap # None => /\ snap.applied \in 0..Len(l)
                 /\ \E s : /\ Follows(f, m, exact, s, snap.applied)
                           /\ snap.bytes = serialize_state(m, s)

\* A replica's answers are the ones that the path gives.
Answered(f, m, l, as) ==
  \A i \in 1..MaxLog : as[i] # None =>
    /\ i \in 1..Len(l)
    /\ CommonOf(l[i], as[i]) = CommonOf(l[i], apply_commands(m, f[i - 1], l[i], Still).answers)

SmrTypes ==
  /\ workload \in Workloads /\ machine \in Machines
  /\ log \in Seq(workload.batches) /\ Len(log) <= MaxLog
  /\ state = [r \in Replicas |-> state[r]]
  /\ applied \in [Replicas -> Nat] /\ \A r \in Replicas : applied[r] <= Len(log)
  /\ answers = [r \in Replicas |-> answers[r]]
  /\ \A r \in Replicas : answers[r] = [i \in 1..MaxLog |-> answers[r][i]]
  /\ now \in [Replicas -> Nat] /\ local \in Nat /\ restarts \in Nat

Following(f) ==
  /\ Path(f, machine, log)
  /\ \A r \in Replicas : Up(r) => Follows(f, machine, local = 0, state[r], applied[r])
  /\ \A r \in Replicas : Answered(f, machine, log, answers[r])
  /\ Kept(f, machine, local = 0, snapshot, log)

SmrInv == SmrTypes /\ \E f : Following(f)

\* The batches of a workload hold commands of its machine.
LEMMA BatchesHold ==
  ASSUME NEW w \in Workloads, NEW b \in w.batches
  PROVE  IsBatch(w.machine, b)
BY WorkloadsAssumption DEF IsBatch

\* One more batch makes the path longer and leaves what there was.
LEMMA PathExtends ==
  ASSUME NEW w \in Workloads, NEW l \in Seq(w.batches), NEW b \in w.batches, NEW f,
         w.machine \in Machines, Path(f, w.machine, l)
  PROVE  \E g : Path(g, w.machine, Append(l, b)) /\ \A i \in 0..Len(l) : g[i] = f[i]
<1> DEFINE m == w.machine
           n == Len(l)
           k == Append(l, b)
           g == [i \in 0..(n + 1) |-> IF i <= n THEN f[i] ELSE apply_commands(m, f[n], b, Still).state]
<1>1. n \in Nat /\ Len(k) = n + 1 /\ k[n + 1] = b /\ \A i \in 1..n : k[i] = l[i]
  OBVIOUS
<1>2. \A i \in 0..n : g[i] = f[i]
  BY <1>1
<1>3. g[n + 1] = apply_commands(m, f[n], b, Still).state
  BY <1>1
<1> HIDE DEF g
<1>4. Good(m, f[n]) /\ IsBatch(m, b) /\ Same(m, TRUE, f[n], f[n])
  <2>1. n \in 0..n
    BY <1>1
  <2>2. Good(m, f[n])
    BY <2>1 DEF Path
  <2> QED  BY <2>2, BatchesHold, SameIsRefl
<1>5. Good(m, g[n + 1])
  <2>2. Good(m, apply_commands(m, f[n], b, Still).state)
    BY <1>4, StillIsEnv, BatchSame
  <2> QED  BY <1>3, <2>2
<1> HIDE DEF k
<1>6. ASSUME NEW i \in 0..(n + 1)  PROVE i \in 0..n \/ i = n + 1
  BY <1>1
<1>7. \A i \in 0..(n + 1) : Good(m, g[i])
  BY <1>2, <1>5, <1>6 DEF Path
<1>8. ASSUME NEW i \in 1..(n + 1)  PROVE g[i] = apply_commands(m, g[i - 1], k[i], Still).state
  <2>1. CASE i = n + 1
    <3>1. i - 1 = n /\ n \in 0..n
      BY <1>1, <2>1
    <3> QED  BY <1>1, <1>2, <1>3, <2>1, <3>1
  <2>2. CASE i # n + 1
    <3>1. i \in 1..n /\ i - 1 \in 0..n /\ i \in 0..n
      BY <1>1, <2>2
    <3>2. f[i] = apply_commands(m, f[i - 1], l[i], Still).state
      BY <3>1 DEF Path
    <3> QED  BY <1>1, <1>2, <3>1, <3>2
  <2> QED  BY <2>1, <2>2
<1>9. g[0] = New(m)
  BY <1>1, <1>2 DEF Path
<1>10. Path(g, m, k)
  BY <1>1, <1>7, <1>8, <1>9 DEF Path
<1> QED  BY <1>2, <1>10 DEF k

\* The first states.
LEMMA SmrInit == Init => SmrInv
<1> SUFFICES ASSUME Init  PROVE SmrInv
  OBVIOUS
<1>1. workload \in Workloads /\ machine \in Machines
  BY WorkloadsAssumption DEF Init, machine
<1>2. SmrTypes
  <2>1. log \in Seq(workload.batches) /\ Len(log) = 0 /\ 0 <= MaxLog
    BY SmrAssumption DEF Init
  <2>2. answers = [r \in Replicas |-> answers[r]] /\ \A r \in Replicas : answers[r] = [i \in 1..MaxLog |-> answers[r][i]]
    BY DEF Init, NoAnswers
  <2>3. state = [r \in Replicas |-> state[r]]
    BY DEF Init
  <2>4. applied \in [Replicas -> Nat] /\ now \in [Replicas -> Nat] /\ local \in Nat
        /\ restarts \in Nat /\ \A r \in Replicas : applied[r] = 0
    BY DEF Init
  <2> QED  BY <1>1, <2>1, <2>2, <2>3, <2>4 DEF SmrTypes
<1> DEFINE f == [i \in 0..0 |-> New(machine)]
<1>3. Len(log) = 0 /\ f[0] = New(machine) /\ Good(machine, f[0])
  BY <1>1, NewGood DEF Init
<1> HIDE DEF f
<1>4. Path(f, machine, log)
  <2>1. \A i \in 0..Len(log) : i = 0
    BY <1>3
  <2>2. \A i \in 1..Len(log) : FALSE
    BY <1>3
  <2> QED  BY <1>3, <2>1, <2>2 DEF Path
<1>5. ASSUME NEW r \in Replicas  PROVE Follows(f, machine, local = 0, state[r], applied[r])
  <2>1. state[r] = f[0] /\ applied[r] = 0
    BY <1>3 DEF Init
  <2> QED  BY <1>3, <2>1, SameIsRefl DEF Follows
<1>6. \A r \in Replicas : Answered(f, machine, log, answers[r])
  BY DEF Init, NoAnswers, Answered
<1>7. Kept(f, machine, local = 0, snapshot, log)
  BY DEF Init, Kept
<1>8. Following(f)
  BY <1>4, <1>5, <1>6, <1>7 DEF Following
<1> QED  BY <1>2, <1>8 DEF SmrInv

\* deliver: the path grows.
LEMMA DeliverStep ==
  ASSUME SmrInv, NEW b \in workload.batches, deliver(b)
  PROVE  SmrInv'
<1> DEFINE m == machine
<1>1. PICK f : Following(f)
  BY DEF SmrInv
<1>2. /\ SmrTypes /\ workload \in Workloads /\ log \in Seq(workload.batches) /\ m \in Machines
      /\ m = workload.machine /\ Path(f, m, log)
  BY <1>1 DEF SmrInv, SmrTypes, Following, machine
<1>3. PICK g : Path(g, m, Append(log, b)) /\ \A i \in 0..Len(log) : g[i] = f[i]
  <2>1. /\ workload \in Workloads /\ log \in Seq(workload.batches)
        /\ workload.machine \in Machines /\ Path(f, workload.machine, log)
    BY <1>2
  <2>2. \E g : Path(g, workload.machine, Append(log, b)) /\ \A i \in 0..Len(log) : g[i] = f[i]
    BY <2>1, PathExtends
  <2> QED  BY <1>2, <2>2
<1>4. /\ log' = Append(log, b) /\ Len(log) < MaxLog /\ machine' = m
      /\ UNCHANGED <<workload, state, applied, answers, now, snapshot, restarts, local>>
  BY DEF deliver, machine
<1>5. /\ Len(log) \in Nat /\ Len(log') = Len(log) + 1 /\ log' \in Seq(workload.batches)
      /\ \A i \in 1..Len(log) : log'[i] = log[i]
  BY <1>2, <1>4
<1> HIDE DEF m
<1>6. SmrTypes'
  <2>1. Len(log') <= MaxLog
    BY <1>4, <1>5, SmrAssumption
  <2>2. \A r \in Replicas : applied[r] <= Len(log')
    BY <1>2, <1>5 DEF SmrTypes
  <2> QED  BY <1>2, <1>4, <1>5, <2>1, <2>2 DEF SmrTypes
<1>7. ASSUME NEW r \in Replicas, Up(r)'  PROVE Follows(g, m, local = 0, state[r], applied[r])
  <2>1. Follows(f, m, local = 0, state[r], applied[r])
    BY <1>1, <1>4, <1>7 DEF Following, Up, m
  <2>2. applied[r] \in 0..Len(log)
    BY <1>2, <1>5 DEF SmrTypes
  <2> QED  BY <1>3, <2>1, <2>2 DEF Follows
<1>8. ASSUME NEW r \in Replicas  PROVE Answered(g, m, log', answers[r])
  <2>1. Answered(f, m, log, answers[r])
    BY <1>1 DEF Following, m
  <2>2. ASSUME NEW i \in 1..MaxLog, answers[r][i] # None
        PROVE  /\ i \in 1..Len(log')
               /\ CommonOf(log'[i], answers[r][i])
                    = CommonOf(log'[i], apply_commands(m, g[i - 1], log'[i], Still).answers)
    <3>1. /\ i \in 1..Len(log)
          /\ CommonOf(log[i], answers[r][i]) = CommonOf(log[i], apply_commands(m, f[i - 1], log[i], Still).answers)
      BY <2>1, <2>2 DEF Answered
    <3>2. i - 1 \in 0..Len(log) /\ i \in 1..Len(log') /\ log'[i] = log[i]
      BY <1>5, <3>1
    <3>3. g[i - 1] = f[i - 1]
      BY <1>3, <3>2
    <3> QED  BY <3>1, <3>2, <3>3
  <2> QED  BY <2>2 DEF Answered
<1>9. Kept(g, m, local = 0, snapshot, log')
  <2>1. SUFFICES ASSUME snapshot # None
                 PROVE  /\ snapshot.applied \in 0..Len(log')
                        /\ \E s : Follows(g, m, local = 0, s, snapshot.applied)
                                  /\ snapshot.bytes = serialize_state(m, s)
    BY DEF Kept
  <2>2. /\ snapshot.applied \in 0..Len(log)
        /\ \E s : Follows(f, m, local = 0, s, snapshot.applied)
                  /\ snapshot.bytes = serialize_state(m, s)
    BY <1>1, <2>1 DEF Following, Kept, m
  <2>3. g[snapshot.applied] = f[snapshot.applied] /\ snapshot.applied \in 0..Len(log')
    BY <1>3, <1>5, <2>2
  <2> QED  BY <2>2, <2>3 DEF Follows
<1>10. Following(g)'
  BY <1>3, <1>4, <1>7, <1>8, <1>9 DEF Following, m
<1> QED  BY <1>6, <1>10 DEF SmrInv

\* apply: a replica goes one batch further along the path, and answers as the path does.
LEMMA ApplyStep ==
  ASSUME SmrInv, NEW r \in Replicas, apply(r)
  PROVE  SmrInv'
<1> DEFINE m == machine
           k == applied[r]
           b == log[k + 1]
<1>0. PICK order \in Orders :
        LET env  == [now |-> now[r], process |-> <<r, restarts>>, order |-> order]
            done == apply_commands(m, state[r], b, env)
        IN  /\ state' = [state EXCEPT ![r] = IF done.status = "panic" THEN None ELSE done.state]
            /\ answers' = [answers EXCEPT ![r][k + 1] = done.answers]
  BY Zenon DEF apply
<1> DEFINE env == [now |-> now[r], process |-> <<r, restarts>>, order |-> order]
           done == apply_commands(m, state[r], b, env)
<1>1. PICK f : Following(f)
  BY DEF SmrInv
<1> DEFINE path == apply_commands(m, f[k], b, Still)
<1>2. /\ Up(r) /\ k < Len(log) /\ machine' = m
      /\ state' = [state EXCEPT ![r] = IF done.status = "panic" THEN None ELSE done.state]
      /\ applied' = [applied EXCEPT ![r] = k + 1]
      /\ answers' = [answers EXCEPT ![r][k + 1] = done.answers]
      /\ UNCHANGED <<workload, log, now, snapshot, restarts, local>>
  BY <1>0, Zenon DEF apply, machine
<1>3. /\ SmrTypes /\ k \in Nat /\ Len(log) \in Nat /\ k + 1 \in 1..Len(log) /\ k + 1 \in 1..MaxLog
      /\ k \in 0..Len(log) /\ now[r] \in Nat /\ restarts \in Nat /\ m \in Machines /\ Len(log) <= MaxLog
  <2>1. SmrTypes
    BY DEF SmrInv
  <2>2. /\ k \in Nat /\ Len(log) \in Nat /\ now[r] \in Nat /\ restarts \in Nat /\ m \in Machines
        /\ Len(log) <= MaxLog
    BY <2>1 DEF SmrTypes
  <2> QED  BY <1>2, <2>1, <2>2, SmrAssumption, SMTT(30)
<1>4. IsBatch(m, b)
  <2>1. b \in workload.batches /\ workload \in Workloads
    BY <1>3 DEF SmrTypes
  <2>2. IsBatch(workload.machine, b)
    BY <2>1, BatchesHold
  <2> QED  BY <2>2 DEF machine
<1>5. Good(m, state[r]) /\ Same(m, local = 0, state[r], f[k]) /\ Good(m, f[k])
  <2>1. Follows(f, m, local = 0, state[r], k)
    BY <1>1, <1>2 DEF Following
  <2>2. Good(m, f[k])
    BY <1>1, <1>3 DEF Following, Path
  <2> QED  BY <2>1, <2>2 DEF Follows
<1>6. /\ Good(m, done.state) /\ Same(m, local = 0, done.state, path.state)
      /\ CommonOf(b, done.answers) = CommonOf(b, path.answers)
  <2> DEFINE exact == local = 0
             s == state[r]
             t == f[k]
  <2>1. m \in Machines /\ IsBatch(m, b) /\ Good(m, s) /\ Good(m, t) /\ Same(m, exact, s, t)
    BY <1>3, <1>4, <1>5
  <2>3. IsEnv(env) /\ IsEnv(Still)
    <3>1. <<r, restarts>> \in Processes
      BY <1>3 DEF Processes
    <3> QED  BY <1>3, <3>1, StillIsEnv DEF IsEnv
  <2> HIDE DEF exact, s, t, m, b, env
  <2>2. /\ Good(m, apply_commands(m, s, b, env).state)
        /\ Same(m, exact, apply_commands(m, s, b, env).state, apply_commands(m, t, b, Still).state)
        /\ CommonOf(b, apply_commands(m, s, b, env).answers) = CommonOf(b, apply_commands(m, t, b, Still).answers)
    BY <2>1, <2>3, BatchSame
  <2> QED  BY <2>2 DEF exact, s, t, env
<1>7. path.state = f[k + 1]
  <2>1. f[k + 1] = apply_commands(m, f[k + 1 - 1], log[k + 1], Still).state
    BY <1>1, <1>3 DEF Following, Path
  <2>2. k + 1 - 1 = k
    BY <1>3
  <2> QED  BY <2>1, <2>2
<1> HIDE DEF m, done, path, b
<1>8. SmrTypes'
  <2>1. state' = [q \in Replicas |-> state'[q]]
    BY <1>2, <1>3 DEF SmrTypes
  <2>2. applied' \in [Replicas -> Nat] /\ \A q \in Replicas : applied'[q] <= Len(log)
    BY <1>2, <1>3 DEF SmrTypes
  <2>3. answers' = [q \in Replicas |-> answers'[q]]
    BY <1>2, <1>3 DEF SmrTypes
  <2>4. ASSUME NEW q \in Replicas  PROVE answers'[q] = [i \in 1..MaxLog |-> answers'[q][i]]
    <3>1. answers[q] = [i \in 1..MaxLog |-> answers[q][i]] /\ answers = [p \in Replicas |-> answers[p]]
      BY <1>3 DEF SmrTypes
    <3>2. answers'[q] = IF q = r THEN [answers[q] EXCEPT ![k + 1] = done.answers] ELSE answers[q]
      BY <1>2, <3>1
    <3> QED  BY <3>1, <3>2
  <2> QED  BY <1>2, <1>3, <2>1, <2>2, <2>3, <2>4 DEF SmrTypes, m
<1>9. ASSUME NEW q \in Replicas, Up(q)'  PROVE Follows(f, m, local = 0, state'[q], applied'[q])
  <2>1. CASE q = r
    <3>1. state'[q] = (IF done.status = "panic" THEN None ELSE done.state) /\ applied'[q] = k + 1
      BY <1>2, <1>3, <2>1 DEF SmrTypes
    <3>2. state'[q] = done.state
      BY <1>9, <3>1 DEF Up
    <3> QED  BY <1>6, <1>7, <3>1, <3>2 DEF Follows
  <2>2. CASE q # r
    <3>1. state'[q] = state[q] /\ applied'[q] = applied[q]
      BY <1>2, <1>3, <2>2 DEF SmrTypes
    <3>2. Up(q)
      BY <1>9, <3>1 DEF Up
    <3> QED  BY <1>1, <3>1, <3>2 DEF Following, m
  <2> QED  BY <2>1, <2>2
<1>10. ASSUME NEW q \in Replicas  PROVE Answered(f, m, log, answers'[q])
  <2>1. Answered(f, m, log, answers[q])
    BY <1>1 DEF Following, m
  <2>2. CASE q = r
    <3>1. answers'[q] = [answers[q] EXCEPT ![k + 1] = done.answers]
      BY <1>2, <1>3, <2>2 DEF SmrTypes
    <3>2. answers[q] = [i \in 1..MaxLog |-> answers[q][i]]
      BY <1>3 DEF SmrTypes
    <3>3. ASSUME NEW i \in 1..MaxLog, answers'[q][i] # None
          PROVE  /\ i \in 1..Len(log)
                 /\ CommonOf(log[i], answers'[q][i])
                      = CommonOf(log[i], apply_commands(m, f[i - 1], log[i], Still).answers)
      <4>1. CASE i = k + 1
        <5>1. answers'[q][i] = done.answers /\ i - 1 = k
          BY <1>3, <3>1, <3>2, <4>1
        <5> QED  BY <1>3, <1>6, <4>1, <5>1 DEF path, b
      <4>2. CASE i # k + 1
        <5>1. answers'[q][i] = answers[q][i]
          BY <3>1, <3>2, <4>2
        <5> QED  BY <2>1, <3>3, <5>1 DEF Answered
      <4> QED  BY <4>1, <4>2
    <3> QED  BY <3>3 DEF Answered
  <2>3. CASE q # r
    <3>1. answers'[q] = answers[q]
      BY <1>2, <1>3, <2>3 DEF SmrTypes
    <3> QED  BY <2>1, <3>1
  <2> QED  BY <2>2, <2>3
<1>11. Path(f, m, log) /\ Kept(f, m, local = 0, snapshot, log)
  BY <1>1 DEF Following, m
<1>12. Following(f)'
  BY <1>2, <1>9, <1>10, <1>11 DEF Following, m
<1> QED  BY <1>8, <1>12 DEF SmrInv

\* A step that gives one replica a state and a place in the log, and leaves the answers or
\* forgets them.
LEMMA PlaceStep ==
  ASSUME SmrInv, NEW r \in Replicas, NEW f, Following(f), NEW exact, exact <=> local' = 0,
         NEW s, NEW k \in 0..Len(log), Follows(f, machine, exact, s, k),
         state' = [state EXCEPT ![r] = s], applied' = [applied EXCEPT ![r] = k],
         answers' = answers \/ answers' = [answers EXCEPT ![r] = NoAnswers],
         local' = local \/ local' = local + 1, restarts' = restarts \/ restarts' = restarts + 1,
         UNCHANGED <<workload, log, now, snapshot>>
  PROVE  SmrInv'
<1> DEFINE m == machine
<1>1. /\ SmrTypes /\ Len(log) \in Nat /\ local \in Nat /\ machine' = m
  BY DEF SmrInv, SmrTypes, machine
<1> HIDE DEF m
<1>2. SmrTypes'
  <2>1. state' = [q \in Replicas |-> state'[q]]
    BY <1>1 DEF SmrTypes
  <2>2. applied' \in [Replicas -> Nat] /\ \A q \in Replicas : applied'[q] <= Len(log)
    BY <1>1 DEF SmrTypes
  <2>3. answers' = [q \in Replicas |-> answers'[q]]
    BY <1>1 DEF SmrTypes
  <2>4. \A q \in Replicas : answers'[q] = [i \in 1..MaxLog |-> answers'[q][i]]
    BY <1>1, ZenonT(60) DEF SmrTypes, NoAnswers
  <2>5. local' \in Nat /\ restarts' \in Nat
    BY <1>1 DEF SmrTypes
  <2> QED  BY <1>1, <2>1, <2>2, <2>3, <2>4, <2>5 DEF SmrTypes, m
<1>3. \A t, u : Same(m, local = 0, t, u) => Same(m, local' = 0, t, u)
  <2>1. (local' = 0) => (local = 0)
    BY <1>1
  <2> QED  BY <2>1 DEF Same
<1>4. ASSUME NEW q \in Replicas, Up(q)'  PROVE Follows(f, m, local' = 0, state'[q], applied'[q])
  <2>1. CASE q = r
    <3>1. state'[q] = s /\ applied'[q] = k
      BY <1>1, <2>1 DEF SmrTypes
    <3> QED  BY <3>1 DEF Follows, Same, m
  <2>2. CASE q # r
    <3>1. state'[q] = state[q] /\ applied'[q] = applied[q]
      BY <1>1, <2>2 DEF SmrTypes
    <3>2. Up(q)
      BY <1>4, <3>1 DEF Up
    <3>3. Follows(f, m, local = 0, state[q], applied[q])
      BY <3>2 DEF Following, m
    <3> QED  BY <1>3, <3>1, <3>3 DEF Follows
  <2> QED  BY <2>1, <2>2
<1>5. ASSUME NEW q \in Replicas  PROVE Answered(f, m, log, answers'[q])
  <2>1. Answered(f, m, log, answers[q])
    BY DEF Following, m
  <2>2. answers'[q] = answers[q] \/ answers'[q] = NoAnswers
    BY <1>1 DEF SmrTypes
  <2>3. Answered(f, m, log, NoAnswers)
    BY DEF Answered, NoAnswers
  <2> QED  BY <2>1, <2>2, <2>3
<1>6. Path(f, m, log)
  BY DEF Following, m
<1>7. Kept(f, m, local' = 0, snapshot, log)
  <2>1. Kept(f, m, local = 0, snapshot, log)
    BY DEF Following, m
  <2> QED  BY <1>3, <2>1 DEF Kept, Follows
<1>8. Following(f)'
  BY <1>1, <1>4, <1>5, <1>6, <1>7 DEF Following, m
<1> QED  BY <1>2, <1>8 DEF SmrInv

\* restart: a new machine is where the path begins.
LEMMA RestartStep ==
  ASSUME SmrInv, NEW r \in Replicas, restart(r)
  PROVE  SmrInv'
<1>1. PICK f : Following(f)
  BY DEF SmrInv
<1>2. machine \in Machines /\ 0 \in 0..Len(log) /\ f[0] = New(machine)
  BY <1>1 DEF SmrInv, SmrTypes, Following, Path
<1>3. Follows(f, machine, local = 0, New(machine), 0)
  BY <1>2, NewGood, SameIsRefl DEF Follows
<1> DEFINE s == New(machine)
           exact == local = 0
<1>4. /\ state' = [state EXCEPT ![r] = s] /\ applied' = [applied EXCEPT ![r] = 0]
      /\ answers' = [answers EXCEPT ![r] = NoAnswers] /\ local' = local /\ restarts' = restarts + 1
      /\ UNCHANGED <<workload, log, now, snapshot>>
  BY DEF restart
<1>5. (exact <=> local' = 0) /\ Follows(f, machine, exact, s, 0)
  BY <1>3, <1>4
<1> HIDE DEF s, exact
<1> QED  BY <1>1, <1>2, <1>4, <1>5, PlaceStep

\* deserialize: the replica is where the one was that serialized its state.
LEMMA DeserializeStep ==
  ASSUME SmrInv, NEW r \in Replicas, deserialize(r)
  PROVE  SmrInv'
<1>1. PICK f : Following(f)
  BY DEF SmrInv
<1> DEFINE m == machine
           k == snapshot.applied
           s == deserialize_state(m, state[r], snapshot.bytes)
           exact == local = 0
<1>2. /\ Up(r) /\ snapshot # None /\ state' = [state EXCEPT ![r] = s]
      /\ applied' = [applied EXCEPT ![r] = k] /\ answers' = answers /\ local' = local
      /\ restarts' = restarts /\ UNCHANGED <<workload, log, now, snapshot>>
  BY DEF deserialize
<1>3. k \in 0..Len(log) /\ \E t : Follows(f, m, exact, t, k) /\ snapshot.bytes = serialize_state(m, t)
  BY <1>1, <1>2 DEF Following, Kept
<1>4. PICK t : Follows(f, m, exact, t, k) /\ snapshot.bytes = serialize_state(m, t)
  BY <1>3
<1>5. Good(m, state[r]) /\ Good(m, t) /\ m \in Machines
  BY <1>1, <1>2, <1>4 DEF Following, Follows, SmrInv, SmrTypes
<1>6. Good(m, s) /\ Same(m, exact, s, t)
  BY <1>4, <1>5, RestoreSame
<1>7. Follows(f, m, exact, s, k)
  <2>1. Same(m, exact, t, f[k])
    BY <1>4 DEF Follows
  <2> QED  BY <1>6, <2>1, SameTrans DEF Follows
<1>8. (exact <=> local' = 0) /\ Follows(f, machine, exact, s, k)
  BY <1>2, <1>7
<1> HIDE DEF s, exact, k, m
<1> QED  BY <1>1, <1>2, <1>3, <1>8, PlaceStep

\* use_store: the data stays what it was; from now on the version does not count.
LEMMA UseStoreStep ==
  ASSUME SmrInv, NEW r \in Replicas, use_store(r)
  PROVE  SmrInv'
<1>1. PICK f : Following(f)
  BY DEF SmrInv
<1>2. PICK s : /\ s = Store!clone(state[r]) \/ s = Store!create_snapshot(state[r])
               /\ state' = [state EXCEPT ![r] = s]
  BY DEF use_store
<1> DEFINE k == applied[r]
<1>3. /\ machine = "store" /\ Up(r) /\ answers' = answers /\ applied' = applied /\ local' = local + 1
      /\ restarts' = restarts /\ UNCHANGED <<workload, log, now, snapshot>>
  BY DEF use_store
<1>4. k \in 0..Len(log) /\ local \in Nat /\ applied' = [applied EXCEPT ![r] = k]
  BY <1>3 DEF SmrInv, SmrTypes
<1>5. FALSE <=> local' = 0
  BY <1>3, <1>4
<1>6. Good("store", state[r]) /\ Same("store", FALSE, state[r], f[k])
  BY <1>1, <1>3, SameSym DEF Following, Follows
<1>7. Good("store", s) /\ Same("store", FALSE, s, state[r])
  BY <1>2, <1>6, StoreUsed
<1>8. Follows(f, machine, FALSE, s, k)
  BY <1>3, <1>6, <1>7, SameTrans DEF Follows
<1> HIDE DEF k
<1> QED  BY <1>1, <1>2, <1>3, <1>4, <1>5, <1>8, PlaceStep

\* serialize: the bytes are those of a state where the log led.
LEMMA SerializeStep ==
  ASSUME SmrInv, NEW r \in Replicas, serialize(r)
  PROVE  SmrInv'
<1>1. PICK f : Following(f)
  BY DEF SmrInv
<1>2. /\ Up(r) /\ snapshot' = [bytes |-> serialize_state(machine, state[r]), applied |-> applied[r]]
      /\ UNCHANGED <<workload, log, state, applied, answers, now, restarts, local>> /\ machine' = machine
  BY DEF serialize, machine
<1>3. SmrTypes' /\ applied[r] \in 0..Len(log)
  BY <1>2 DEF SmrInv, SmrTypes
<1>4. Follows(f, machine, local = 0, state[r], applied[r])
  BY <1>1, <1>2 DEF Following
<1>5. snapshot'.applied = applied[r] /\ snapshot'.bytes = serialize_state(machine, state[r])
  BY <1>2
<1>6. Kept(f, machine, local = 0, snapshot', log)
  BY <1>3, <1>4, <1>5 DEF Kept
<1>7. Following(f)'
  BY <1>1, <1>2, <1>6 DEF Following, Up
<1> QED  BY <1>3, <1>7 DEF SmrInv

\* A step that changes nothing the invariant speaks of: a clock goes on.
LEMMA ClockStep ==
  ASSUME SmrInv, now' \in [Replicas -> Nat],
         UNCHANGED <<workload, log, state, applied, answers, snapshot, restarts, local>>
  PROVE  SmrInv'
<1>1. PICK f : Following(f)
  BY DEF SmrInv
<1>2. SmrTypes' /\ machine' = machine
  BY DEF SmrInv, SmrTypes, machine
<1>3. Following(f)'
  BY <1>1, <1>2 DEF Following, Up
<1> QED  BY <1>2, <1>3 DEF SmrInv

\* Every step keeps the invariant.
LEMMA SmrNext == SmrInv /\ [Next]_vars => SmrInv'
<1> SUFFICES ASSUME SmrInv, [Next]_vars  PROVE SmrInv'
  OBVIOUS
<1>1. CASE UNCHANGED vars
  <2>1. now' \in [Replicas -> Nat] /\ UNCHANGED <<workload, log, state, applied, answers, snapshot, restarts, local>>
    BY <1>1 DEF vars, SmrInv, SmrTypes
  <2> QED  BY <2>1, ClockStep
<1>2. ASSUME NEW b \in workload.batches, deliver(b)  PROVE SmrInv'
  BY <1>2, DeliverStep
<1>3. ASSUME NEW r \in Replicas, apply(r)  PROVE SmrInv'
  BY <1>3, ApplyStep
<1>4. ASSUME NEW r \in Replicas, tick(r)  PROVE SmrInv'
  <2>1. now' \in [Replicas -> Nat] /\ UNCHANGED <<workload, log, state, applied, answers, snapshot, restarts, local>>
    BY <1>4 DEF tick, SmrInv, SmrTypes
  <2> QED  BY <2>1, ClockStep
<1>5. ASSUME NEW r \in Replicas, serialize(r) \/ deserialize(r) \/ restart(r) \/ use_store(r)
      PROVE  SmrInv'
  BY <1>5, SerializeStep, DeserializeStep, RestartStep, UseStoreStep
<1> QED  BY <1>1, <1>2, <1>3, <1>4, <1>5 DEF Next

\* The invariant of the replicas: the log determines where each of them is, but for what
\* its process adds.
THEOREM SmrCorrect == Spec => []SmrInv
<1>1. Init => SmrInv
  BY SmrInit
<1>2. SmrInv /\ [Next]_vars => SmrInv'
  BY SmrNext
<1> QED  BY <1>1, <1>2, PTL DEF Spec

\* Replicas that have worked through the same batches hold the same balances, counts,
\* values, versions and transactions, whatever their pace, clocks, random numbers, hash
\* maps, restarts and the states they took over (ReplicasAgree): what the process adds to
\* a command, which does end up in the state (see Deterministic), never spreads.
THEOREM StatesAgree == Spec => []ReplicasAgree
<1>1. SmrInv => ReplicasAgree
  <2>1. SUFFICES ASSUME SmrInv, NEW r \in Replicas, NEW q \in Replicas, Up(r), Up(q), applied[r] = applied[q]
                 PROVE  Replicated(state[r]) = Replicated(state[q])
    BY DEF ReplicasAgree
  <2> DEFINE s == state[r]
             t == state[q]
             exact == local = 0
  <2>2. PICK f : Following(f)
    BY <2>1 DEF SmrInv
  <2>3. Good(machine, s) /\ Good(machine, t) /\ Same(machine, exact, s, t) /\ machine \in Machines
    <3>1. Follows(f, machine, exact, s, applied[r]) /\ Follows(f, machine, exact, t, applied[r])
      BY <2>1, <2>2 DEF Following
    <3>2. Same(machine, exact, s, f[applied[r]]) /\ Same(machine, exact, f[applied[r]], t)
      BY <3>1, SameSym DEF Follows
    <3> QED  BY <2>1, <3>1, <3>2, SameTrans DEF Follows, SmrInv, SmrTypes
  <2> HIDE DEF s, t
  <2>4. CASE machine \in Banks
    <3>1. SameBank(s, t) /\ s \in BankState /\ t \in BankState
      BY <2>3, <2>4 DEF Same, Good
    <3>2. /\ s.transactions \in Seq(Transaction) /\ t.transactions \in Seq(Transaction)
          /\ SameEntries(s.transactions, t.transactions)
      BY <3>1, BankParts DEF SameBank
    <3>3. DOMAIN s.transactions = 1..Len(s.transactions) /\ DOMAIN t.transactions = 1..Len(s.transactions)
      BY <3>2 DEF SameEntries
    <3>4. ASSUME NEW i \in 1..Len(s.transactions)
          PROVE  Movement(s.transactions[i]) = Movement(t.transactions[i])
      BY <3>2 DEF SameEntries, Movement
    <3>5. ASSUME NEW a \in Accounts  PROVE Settled(s.accounts[a]) = Settled(t.accounts[a])
      BY <3>1 DEF SameBank, SameAccounts, Settled
    <3>6. /\ [a \in Accounts |-> Settled(s.accounts[a])] = [a \in Accounts |-> Settled(t.accounts[a])]
          /\ [i \in DOMAIN s.transactions |-> Movement(s.transactions[i])]
               = [i \in DOMAIN t.transactions |-> Movement(t.transactions[i])]
          /\ s.operation_count = t.operation_count
      BY <3>1, <3>3, <3>4, <3>5 DEF SameBank
    <3>7. ASSUME NEW u
          PROVE  Replicated(u) = [accounts |-> [a \in Accounts |-> Settled(u.accounts[a])],
                                  transactions |-> [i \in DOMAIN u.transactions |-> Movement(u.transactions[i])],
                                  operation_count |-> u.operation_count]
      BY <2>4, Zenon DEF Replicated, Banks
    <3>8. Replicated(s) = Replicated(t)
      BY <3>6, <3>7, Zenon
    <3> QED  BY <3>8 DEF s, t
  <2>5. CASE machine = "store"
    <3>1. SameData(s.data, t.data) /\ (exact => s.version = t.version)
      BY <2>3, <2>5 DEF Same, Banks
    <3>2. [k \in Keys |-> Stored(s.data[k])] = [k \in Keys |-> Stored(t.data[k])]
      <4>1. \A k \in Keys : Stored(s.data[k]) = Stored(t.data[k])
        BY <3>1 DEF SameData, Stored
      <4> QED  BY <4>1
    <3>3. ASSUME NEW u
          PROVE  Replicated(u) = [data |-> [k \in Keys |-> Stored(u.data[k])],
                                  version |-> IF exact THEN u.version ELSE 0]
      BY <2>5 DEF Replicated, Banks
    <3>4. Replicated(s) = Replicated(t)
      BY <3>1, <3>2, <3>3
    <3> QED  BY <3>4 DEF s, t
  <2>6. CASE machine \notin Banks \cup {"store"}
    <3>1. s = t
      BY <2>3, <2>6 DEF Same
    <3> QED  BY <3>1 DEF s, t
  <2> QED  BY <2>4, <2>5, <2>6
<1> QED  BY <1>1, SmrCorrect, PTL

\* Replicas that both applied a batch gave the same answers to it, but for clock readings,
\* random transaction ids and the order of what a hash map or a clock orders
\* (AnswersAgree).
THEOREM SameAnswers == Spec => []AnswersAgree
<1>1. SmrInv => AnswersAgree
  <2>1. SUFFICES ASSUME SmrInv, NEW r \in Replicas, NEW q \in Replicas, NEW i \in 1..Len(log),
                        answers[r][i] # None, answers[q][i] # None
                 PROVE  Common(i, answers[r][i]) = Common(i, answers[q][i])
    BY DEF AnswersAgree
  <2>2. PICK f : Following(f)
    BY <2>1 DEF SmrInv
  <2>3. i \in 1..MaxLog
    BY <2>1, SmrAssumption DEF SmrInv, SmrTypes
  <2>4. Answered(f, machine, log, answers[r]) /\ Answered(f, machine, log, answers[q])
    BY <2>2 DEF Following
  <2>5. CommonOf(log[i], answers[r][i]) = CommonOf(log[i], answers[q][i])
    BY <2>1, <2>3, <2>4 DEF Answered
  <2> QED  BY <2>5 DEF Common, CommonOf
<1> QED  BY <1>1, SmrCorrect, PTL

-----------------------------------------------------------------------------
(* What a refused command leaves                                            *)

\* Content, for a given machine
ContentOf(m, s) ==
  IF m = "counter" THEN s.value ELSE IF m \in Banks THEN <<s.accounts, s.transactions>> ELSE s.data

\* A command is carried out, refused or ends in a panic.
LEMMA BankOutcome ==
  ASSUME NEW A, NEW T, NEW n, NEW c, IsBankCommand(c), NEW env, NEW x \in BOOLEAN
  PROVE  \/ Bank!apply_command(BankOf(A, T, n), c, env, x) = Refused(BankOf(A, T, n + 1))
         \/ \E k, data, id : Bank!apply_command(BankOf(A, T, n), c, env, x) = Done(k, data, id)
         \/ \E k : Bank!apply_command(BankOf(A, T, n), c, env, x)
                     = [state |-> k, status |-> "panic", answer |-> None]
<1> DEFINE p == Bank!apply_command(BankOf(A, T, n), c, env, x)
<1> SUFFICES \/ p = Refused(BankOf(A, T, n + 1)) \/ \E k, data, id : p = Done(k, data, id)
             \/ \E k : p = [state |-> k, status |-> "panic", answer |-> None]
  OBVIOUS
<1>1. CASE c.op = "CreateAccount"
  <2>1. CASE CanOpen(A, c)
    <3>1. p = Done(BankOf([A EXCEPT ![c.id] = Acct(c.amount, 0, env.now, env.now)], T, n + 1),
                    Acct(c.amount, 0, env.now, env.now), None)
      BY <1>1, <2>1, CreateAccountDone
    <3> HIDE DEF p
    <3> QED  BY <3>1, Zenon
  <2>2. CASE ~CanOpen(A, c)
    BY <1>1, <2>2, CreateAccountDone, Zenon
  <2> QED  BY <2>1, <2>2
<1>2. CASE c.op = "Deposit"
  <2>1. CASE CanDeposit(A, c)
    <3>1. p = Done(BankOf(Moved(A, c.id, A[c.id].balance + c.amount, env),
                           Append(T, Entry(T, None, c.id, c.amount, env)), n + 1),
                    A[c.id].balance + c.amount, NextId(T, env))
      BY <1>2, <2>1, DepositDone
    <3> HIDE DEF p
    <3> QED  BY <3>1, Zenon
  <2>2. CASE ~CanDeposit(A, c)
    BY <1>2, <2>2, DepositDone, Zenon
  <2> QED  BY <2>1, <2>2
<1>3. CASE c.op = "Withdraw"
  <2>1. CASE CanWithdraw(A, c)
    <3>1. p = Done(BankOf(Debited(A, c, env), Append(T, Entry(T, c.id, None, c.amount, env)), n + 1),
                    A[c.id].balance - c.amount, NextId(T, env))
      BY <1>3, <2>1, WithdrawDone
    <3> HIDE DEF p
    <3> QED  BY <3>1, Zenon
  <2>2. CASE ~CanWithdraw(A, c)
    BY <1>3, <2>2, WithdrawDone, Zenon
  <2> QED  BY <2>1, <2>2
<1>4. CASE c.op = "GetBalance"
  <2>1. CASE Held(A, c.id)
    <3>1. p = Done(BankOf(A, T, n + 1), A[c.id].balance, None)
      BY <1>4, <2>1, GetBalanceDone
    <3> HIDE DEF p
    <3> QED  BY <3>1, Zenon
  <2>2. CASE ~Held(A, c.id)
    BY <1>4, <2>2, GetBalanceDone, Zenon
  <2> QED  BY <2>1, <2>2
<1>5. CASE c.op = "Transfer"
  <2>1. CASE ~CanTransfer(A, c)
    BY <1>5, <2>1, TransferRefused
  <2>2. CASE CanTransfer(A, c) /\ Overflows(A, c) /\ x
    BY <1>5, <2>2, TransferPanics, Zenon
  <2>3. CASE CanTransfer(A, c) /\ ~(Overflows(A, c) /\ x)
    <3>1. p = Done(BankOf(Moved(Debited(A, c, env), c.to, Bank!Wrapped(A[c.to].balance + c.amount), env),
                           Append(T, Entry(T, c.id, c.to, c.amount, env)), n + 1), None, NextId(T, env))
      BY <1>5, <2>3, TransferMoves
    <3> HIDE DEF p
    <3> QED  BY <3>1, Zenon
  <2> QED  BY <2>1, <2>2, <2>3
<1>6. CASE c.op = "ListAccounts"
  <2>1. p = Done(BankOf(A, T, n + 1), Listing(A, env), None)
    BY <1>6, ListAccountsDone
  <2> HIDE DEF p
  <2> QED  BY <2>1, Zenon
<1>7. CASE c.op = "GetTransactionHistory"
  <2>1. p = Done(BankOf(A, T, n + 1), Page(A, T, n + 1, c), None)
    BY <1>7, HistoryDone
  <2> HIDE DEF p
  <2> QED  BY <2>1, Zenon
<1>8. CASE c.op = "GetAccount"
  <2>1. CASE Held(A, c.id)
    <3>1. p = Done(BankOf(A, T, n + 1), A[c.id], None)
      BY <1>8, <2>1, GetAccountDone
    <3> HIDE DEF p
    <3> QED  BY <3>1, Zenon
  <2>2. CASE ~Held(A, c.id)
    BY <1>8, <2>2, GetAccountDone, Zenon
  <2> QED  BY <2>1, <2>2
<1> QED  BY <1>1, <1>2, <1>3, <1>4, <1>5, <1>6, <1>7, <1>8 DEF IsBankCommand, BankOps

\* A bank refuses before it changes anything.
LEMMA BankRefuses ==
  ASSUME NEW s \in BankState, NEW c, IsBankCommand(c), NEW env, NEW x \in BOOLEAN,
         Bank!apply_command(s, c, env, x).status # "panic",
         Bank!apply_command(s, c, env, x).status = "ok"
           => ~Bank!apply_command(s, c, env, x).answer.success
  PROVE  /\ Bank!apply_command(s, c, env, x).state.accounts = s.accounts
         /\ Bank!apply_command(s, c, env, x).state.transactions = s.transactions
<1> DEFINE A == s.accounts
           T == s.transactions
           n == s.operation_count
           p == Bank!apply_command(s, c, env, x)
<1>1. s = BankOf(A, T, n)
  BY BankParts
<1> HIDE DEF A, T, n
<1>2. \/ p = Refused(BankOf(A, T, n + 1)) \/ \E k, data, id : p = Done(k, data, id)
      \/ \E k : p = [state |-> k, status |-> "panic", answer |-> None]
  BY <1>1, BankOutcome
<1>3. p.status # "panic" /\ (p.status = "ok" => ~p.answer.success)
  OBVIOUS
<1> HIDE DEF p
<1>4. p = Refused(BankOf(A, T, n + 1))
  BY <1>2, <1>3 DEF Done, Reply
<1>5. p.state.accounts = A /\ p.state.transactions = T
  BY <1>4 DEF Refused, BankOf
<1> QED  BY <1>5 DEF p, A, T

\* The store refuses before it changes anything.
LEMMA StoreRefuses ==
  ASSUME NEW d, NEW v, NEW o, NEW time, NEW c, c.op \in {"Set", "Get", "Exists", "Delete"},
         Store!apply_command(StoreOf(d, v, o), c, time).status = "ok"
           => ~Store!apply_command(StoreOf(d, v, o), c, time).answer.success
  PROVE  Store!apply_command(StoreOf(d, v, o), c, time).state.data = d
<1> DEFINE s == StoreOf(d, v, o)
           p == Store!apply_command(s, c, time)
<1>1. s.data = d
  BY DEF StoreOf
<1>2. p.status = "ok" => ~p.answer.success
  OBVIOUS
<1>3. p = Store!Error(s) \/ \E k, found : p = Store!Result(k, found)
  <2>1. CASE c.op = "Set"
    BY <2>1, SetDone
  <2>2. CASE c.op \in {"Get", "Exists"}
    BY <2>2, GetDone
  <2>3. CASE c.op = "Delete"
    <3>1. CASE c.key \notin Keys
      BY <2>3, <3>1, DeleteRefused
    <3>2. CASE c.key \in Keys /\ d[c.key] = None
      <4>1. p = Missed(StoreOf(d, v, o + 1))
        BY <2>3, <3>2, DeleteMissed
      <4> HIDE DEF p, s
      <4> QED  BY <4>1, Zenon DEF Missed
    <3>3. CASE c.key \in Keys /\ d[c.key] # None
      <4>1. p = Found(StoreOf([d EXCEPT ![c.key] = None], v + 1, o + 1))
        BY <2>3, <3>3, DeleteFound
      <4> HIDE DEF p, s
      <4> QED  BY <4>1, Zenon DEF Found
    <3> QED  BY <3>1, <3>2, <3>3
  <2> QED  BY <2>1, <2>2, <2>3
<1> HIDE DEF p, s
<1>4. p = Store!Error(s)
  BY <1>2, <1>3 DEF Store!Result
<1>5. p.state.data = d
  BY <1>1, <1>4 DEF Store!Error
<1> QED  BY <1>5 DEF p, s

\* No machine does half of a command before it finds out that it must refuse it.
LEMMA CommandRefused ==
  ASSUME NEW m \in Machines, NEW c, IsCommand(m, c), NEW s, Good(m, s), NEW env, IsEnv(env),
         apply_command(m, s, c, env).status # "panic",
         apply_command(m, s, c, env).status = "ok" => ~apply_command(m, s, c, env).answer.success
  PROVE  ContentOf(m, apply_command(m, s, c, env).state) = ContentOf(m, s)
<1> DEFINE p == apply_command(m, s, c, env)
<1>0. p.status # "panic" /\ (p.status = "ok" => ~p.answer.success)
  OBVIOUS
<1> SUFFICES ContentOf(m, p.state) = ContentOf(m, s)
  OBVIOUS
<1>1. CASE m = "counter"
  <2>1. p = Counter!apply_command(s, c)
    BY <1>1 DEF apply_command, Banks
  <2>2. s = CounterOf(s.value, s.operation_count)
        /\ c.op \in {"Increment", "Decrement", "Set", "Get", "Reset"}
    BY <1>1 DEF Good, IsCommand, Banks
  <2> HIDE DEF p
  <2>3. p.status = "ok" /\ (~p.answer.success => p.state = CounterOf(s.value, s.operation_count + 1))
    BY <2>1, <2>2, CounterDone
  <2>4. p.state.value = s.value
    BY <1>0, <2>3 DEF CounterOf
  <2> QED  BY <1>1, <2>4 DEF ContentOf
<1>2. CASE m \in Banks
  <2> DEFINE x == m = "checked_bank"
  <2>1. p = Bank!apply_command(s, c, env, x)
    BY <1>2 DEF apply_command, Banks
  <2>2. IsBankCommand(c)
    BY <1>2 DEF IsCommand, IsBankCommand, Banks
  <2>3. s \in BankState /\ x \in BOOLEAN
    BY <1>2 DEF Good
  <2> HIDE DEF p, x
  <2>4. p.state.accounts = s.accounts /\ p.state.transactions = s.transactions
    BY <1>0, <2>1, <2>2, <2>3, BankRefuses
  <2> QED  BY <1>2, <2>4 DEF ContentOf, Banks
<1>3. CASE m = "store"
  <2>1. p = Store!apply_command(s, c, env.now) /\ c.op \in {"Set", "Get", "Exists", "Delete"}
    BY <1>3 DEF apply_command, IsCommand, Banks
  <2>2. s = StoreOf(s.data, s.version, s.total_operations)
    BY <1>3 DEF Good
  <2> HIDE DEF p
  <2>3. p.state.data = s.data
    BY <1>0, <2>1, <2>2, StoreRefuses
  <2> QED  BY <1>3, <2>3 DEF ContentOf, Banks
<1>4. CASE m = "in_memory"
  <2>1. p = Text!in_memory_apply_command(s, c) /\ c.op \in {"SET", "GET", "DEL", "malformed"}
    BY <1>4 DEF apply_command, IsCommand, Banks
  <2>2. CASE c.op = "malformed"
    <3>1. p.state = s
      BY <2>1, <2>2 DEF Text!in_memory_apply_command, Text!Ok
    <3> QED  BY <3>1
  <2>3. CASE c.op # "malformed"
    <3>1. p.status = "ok" /\ p.answer.success = TRUE
      BY <2>1, <2>3 DEF Text!in_memory_apply_command, Text!Ok
    <3> QED  BY <1>0, <3>1
  <2> QED  BY <2>2, <2>3
<1>5. CASE m = "simple"
  <2>1. p = Text!simple_apply_command(s, c, env.order)
        /\ c.op \in {"SET", "GET", "DEL", "LIST", "COUNT", "malformed"}
    BY <1>5 DEF apply_command, IsCommand, Banks
  <2>2. s = SimpleOf(s.data, s.operation_count)
    BY <1>5 DEF Good
  <2> HIDE DEF p
  <2>3. \/ p.status = "ok" /\ p.answer.success
        \/ p.status = "err" /\ p.state.data = s.data
    BY <2>1, <2>2, SimpleDone
  <2> QED  BY <1>0, <1>5, <2>3 DEF ContentOf, Banks
<1> QED  BY <1>1, <1>2, <1>3, <1>4, <1>5 DEF Machines, Banks

\* The answers to a batch are refusals, or its one command failed.
Refusing(b, done) ==
  /\ done.status # "panic"
  /\ IF done.answers = <<>> THEN Len(b) = 1 ELSE \A j \in DOMAIN done.answers : ~done.answers[j].success

\* A batch that goes through, and of which every command is refused, leaves the content,
\* and so does a single command that fails.
LEMMA BatchRefused ==
  ASSUME NEW m \in Machines, NEW b, IsBatch(m, b), NEW s, Good(m, s), NEW env, IsEnv(env),
         NEW done, done = apply_commands(m, s, b, env), Refusing(b, done)
  PROVE  ContentOf(m, done.state) = ContentOf(m, s)
<1> DEFINE n == Len(b)
<1>1. n \in Nat /\ \A j \in 1..n : IsCommand(m, b[j])
  BY BatchParts
<1>2. PICK f : IsCourse(f, m, s, b, env, n) /\ apply_commands(m, s, b, env) = f[n]
  BY <1>1, CourseExists
<1>3. f[n] = done /\ n \in 0..n
  BY <1>1, <1>2
<1> HIDE DEF n
<1>4. f[0].state = s /\ f[0].status = "ok"
  <2>1. f[0] = Begun(s)
    BY <1>1, <1>2, CourseBegins
  <2> QED  BY <2>1 DEF Begun
<1>5. ASSUME NEW i \in 1..n, f[i - 1].status = "ok"
      PROVE  f[i].state = One(f, m, b, env, i).state /\ f[i].status = One(f, m, b, env, i).status
  <2>1. f[i] = GoneOn(m, f[i - 1], b[i], env)
    BY <1>1, <1>2, CourseGoesOn
  <2> QED  BY <1>5, <2>1 DEF GoneOn, One
<1>6. ASSUME NEW i \in 1..n, f[i - 1].status = "ok", Good(m, f[i - 1].state), f[i].status # "panic",
             f[i].status = "ok" => ~One(f, m, b, env, i).answer.success
      PROVE  ContentOf(m, f[i].state) = ContentOf(m, f[i - 1].state) /\ Good(m, f[i].state)
  <2> DEFINE p == One(f, m, b, env, i)
  <2>1. f[i].state = p.state /\ f[i].status = p.status /\ IsCommand(m, b[i])
    BY <1>1, <1>5, <1>6
  <2>2. p = apply_command(m, f[i - 1].state, b[i], env)
    BY DEF One
  <2>3. ContentOf(m, apply_command(m, f[i - 1].state, b[i], env).state) = ContentOf(m, f[i - 1].state)
    BY <1>6, <2>1, <2>2, CommandRefused
  <2>4. Good(m, apply_command(m, f[i - 1].state, b[i], env).state)
    <3>1. Same(m, TRUE, f[i - 1].state, f[i - 1].state)
      BY SameIsRefl
    <3>2. SameResult(m, TRUE, b[i], apply_command(m, f[i - 1].state, b[i], env),
                     apply_command(m, f[i - 1].state, b[i], env))
      BY <1>6, <2>1, <3>1, CommandSame
    <3> QED  BY <3>2 DEF SameResult
  <2> QED  BY <2>1, <2>2, <2>3, <2>4
<1>7. /\ f[n].status # "ok" => f[n].answers = <<>>
      /\ f[n].status = "ok" =>
           /\ f[n].answers = [j \in 1..n |-> One(f, m, b, env, j).answer]
           /\ \A j \in 1..n : f[j - 1].status = "ok" /\ One(f, m, b, env, j).status = "ok"
  <2>1. AnswersUpTo(f, m, b, env, n)
    BY <1>1, <1>2, <1>3, CourseAnswers
  <2> QED  BY <2>1 DEF AnswersUpTo
<1>8. CASE f[n].status # "ok"
  <2>1. n = 1 /\ f[1].status # "ok" /\ f[1].status # "panic" /\ f[1] = done
    BY <1>3, <1>7, <1>8 DEF n, Refusing
  <2>2. 1 \in 1..n /\ 1 - 1 = 0
    BY <2>1
  <2>3. ContentOf(m, f[1].state) = ContentOf(m, f[0].state)
    BY <1>4, <1>6, <2>1, <2>2
  <2> QED  BY <1>4, <2>1, <2>3
<1>9. CASE f[n].status = "ok"
  <2> DEFINE S == {i \in 0..n : Good(m, f[i].state) /\ ContentOf(m, f[i].state) = ContentOf(m, s)}
             a == f[n].answers
  <2>1. 0 \in S
    BY <1>1, <1>4
  <2>2. a = [j \in 1..n |-> One(f, m, b, env, j).answer]
        /\ \A j \in 1..n : f[j - 1].status = "ok" /\ One(f, m, b, env, j).status = "ok"
    BY <1>7, <1>9
  <2>3. \A j \in 1..n : ~One(f, m, b, env, j).answer.success
    <3>1. CASE a = <<>>
      <4>1. n = 1
        BY <1>3, <3>1 DEF n, Refusing
      <4>2. DOMAIN a = {}
        BY <3>1
      <4>3. DOMAIN a = 1..n
        BY <2>2
      <4> QED  BY <4>2, <4>3
    <3>2. CASE a # <<>>
      <4>1. \A j \in DOMAIN a : ~a[j].success
        BY <1>3, <3>2 DEF Refusing
      <4>2. DOMAIN a = 1..n /\ \A j \in 1..n : a[j] = One(f, m, b, env, j).answer
        BY <2>2
      <4> QED  BY <4>1, <4>2
    <3> QED  BY <3>1, <3>2
  <2>4. ASSUME NEW i \in 1..n, i - 1 \in S  PROVE i \in S
    <3>1. f[i - 1].status = "ok" /\ One(f, m, b, env, i).status = "ok" /\ ~One(f, m, b, env, i).answer.success
      BY <2>2, <2>3
    <3>2. f[i].status = "ok"
      BY <1>5, <3>1
    <3>3. ContentOf(m, f[i].state) = ContentOf(m, f[i - 1].state) /\ Good(m, f[i].state)
      BY <1>6, <2>4, <3>1, <3>2
    <3> QED  BY <1>1, <2>4, <3>3
  <2>5. 0..n \subseteq S
    <3> HIDE DEF S
    <3> QED  BY <1>1, <2>1, <2>4, UpwardsTo
  <2> QED  BY <1>3, <2>5
<1> QED  BY <1>8, <1>9

\* A batch of which every command was refused leaves what clients see as it was
\* (RefusedChangesNothing): no machine's apply_command does half of a command.
THEOREM RefusalsLeaveContent == Spec => RefusedChangesNothing
<1> DEFINE Declined(r) ==
      LET i == applied'[r]
          refused(as) == \A j \in DOMAIN as : ~as[j].success
      IN  /\ i = applied[r] + 1 /\ answers'[r] # answers[r] /\ Up(r)'
          /\ IF answers'[r][i] = <<>> THEN Len(log[i]) = 1 ELSE refused(answers'[r][i])
<1>1. ASSUME SmrInv, Next, NEW r \in Replicas, Declined(r)
      PROVE  Content(state'[r]) = Content(state[r])
  <2>1. SmrTypes /\ applied[r] \in Nat
    BY <1>1 DEF SmrInv, SmrTypes
  <2>2. answers'[r] # answers[r] /\ applied'[r] = applied[r] + 1 /\ Up(r)'
    BY <1>1
  <2>3. apply(r)
    <3>1. answers' # answers
      BY <2>2
    <3>2. PICK q \in Replicas : apply(q) \/ restart(q)
      BY <1>1, <3>1 DEF Next, deliver, tick, serialize, deserialize, use_store
    <3>3. q = r
      <4>1. CASE apply(q)
        BY <2>1, <2>2, <4>1 DEF apply, SmrTypes
      <4>2. CASE restart(q)
        BY <2>1, <2>2, <4>2 DEF restart, SmrTypes
      <4> QED  BY <3>2, <4>1, <4>2
    <3>4. ~restart(r)
      BY <2>1, <2>2 DEF restart, SmrTypes
    <3> QED  BY <3>2, <3>3, <3>4
  <2> DEFINE m == machine
             k == applied[r]
             b == log[k + 1]
  <2>0. PICK order \in Orders :
          LET env  == [now |-> now[r], process |-> <<r, restarts>>, order |-> order]
              done == apply_commands(m, state[r], b, env)
          IN  /\ state' = [state EXCEPT ![r] = IF done.status = "panic" THEN None ELSE done.state]
              /\ answers' = [answers EXCEPT ![r][k + 1] = done.answers]
    BY <2>3, Zenon DEF apply
  <2> DEFINE env == [now |-> now[r], process |-> <<r, restarts>>, order |-> order]
             done == apply_commands(m, state[r], b, env)
  <2>4. PICK f : Following(f)
    BY <1>1 DEF SmrInv
  <2>5. /\ Up(r) /\ k < Len(log) /\ state'[r] = (IF done.status = "panic" THEN None ELSE done.state)
        /\ answers'[r] = [answers[r] EXCEPT ![k + 1] = done.answers]
    <3>1. Up(r) /\ k < Len(log)
      BY <2>3 DEF apply
    <3>2. /\ state' = [state EXCEPT ![r] = IF done.status = "panic" THEN None ELSE done.state]
          /\ answers' = [answers EXCEPT ![r][k + 1] = done.answers]
      BY <2>0, Zenon
    <3> HIDE DEF done
    <3> QED  BY <2>1, <3>1, <3>2 DEF SmrTypes
  <2>6. /\ m \in Machines /\ k + 1 \in 1..MaxLog /\ k + 1 \in 1..Len(log) /\ now[r] \in Nat /\ restarts \in Nat
        /\ b \in workload.batches /\ workload \in Workloads
    <3>1. Len(log) \in Nat /\ Len(log) <= MaxLog
      BY <2>1 DEF SmrTypes
    <3>2. k + 1 \in 1..MaxLog /\ k + 1 \in 1..Len(log)
      BY <2>1, <2>5, <3>1, SmrAssumption
    <3> QED  BY <2>1, <3>2 DEF SmrTypes
  <2>7. IsBatch(m, b)
    <3>1. IsBatch(workload.machine, b)
      BY <2>6, BatchesHold
    <3> QED  BY <3>1 DEF machine
  <2>8. Good(m, state[r])
    BY <2>4, <2>5 DEF Following, Follows
  <2>9. done.status # "panic" /\ state'[r] = done.state
    BY <2>2, <2>5 DEF Up
  <2>10. answers'[r][k + 1] = done.answers
    <3>1. answers[r] = [i \in 1..MaxLog |-> answers[r][i]]
      BY <2>1 DEF SmrTypes
    <3> QED  BY <2>5, <2>6, <3>1
  <2>11. Refusing(b, done)
    <3>1. IF done.answers = <<>> THEN Len(b) = 1 ELSE \A j \in DOMAIN done.answers : ~done.answers[j].success
      BY <1>1, <2>2, <2>10
    <3> QED  BY <2>9, <3>1 DEF Refusing
  <2> DEFINE s == state[r]
  <2>12. done = apply_commands(m, s, b, env) /\ Good(m, s) /\ IsEnv(env)
    <3>1. <<r, restarts>> \in Processes
      BY <2>6 DEF Processes
    <3> QED  BY <2>6, <2>8, <3>1 DEF IsEnv
  <2> HIDE DEF m, b, s, env, done
  <2>13. ContentOf(m, done.state) = ContentOf(m, s)
    BY <2>6, <2>7, <2>9, <2>11, <2>12, BatchRefused
  <2>14. \A t : ContentOf(m, t) = Content(t)
    BY <2>6 DEF ContentOf, Content, Machines, Banks, m
  <2> QED  BY <2>9, <2>13, <2>14 DEF s
<1>2. SmrInv /\ [Next]_vars
        => [\A r \in Replicas : Declined(r) => Content(state'[r]) = Content(state[r])]_vars
  BY <1>1
<1> QED  BY <1>2, SmrCorrect, PTL DEF Spec, RefusedChangesNothing

-----------------------------------------------------------------------------
(* Sums: what Sum computes, for every finite set                             *)

\* A family of subsets of a finite set that has every subset of which it has those with
\* one element less, has all of them.
LEMMA SubsetInduction ==
  ASSUME NEW S, IsFiniteSet(S), NEW Q,
         \A T \in SUBSET S : (\A x \in T : T \ {x} \in Q) => T \in Q
  PROVE  SUBSET S \subseteq Q
<1> DEFINE W == {Cardinality(T) : T \in {R \in SUBSET S : R \notin Q}}
<1>1. SUFFICES ASSUME W # {}  PROVE FALSE
  OBVIOUS
<1>2. \A T \in SUBSET S : IsFiniteSet(T) /\ Cardinality(T) \in Nat
  BY FS_Subset, FS_CardinalityType
<1>3. PICK n \in W : \A k \in W : n <= k
  <2>1. W \in SUBSET Nat
    BY <1>2
  <2> HIDE DEF W
  <2> QED  BY <1>1, <2>1, LeastNumber
<1>4. PICK T \in SUBSET S : T \notin Q /\ Cardinality(T) = n
  BY <1>3
<1>5. ASSUME NEW x \in T  PROVE T \ {x} \in Q
  <2>1. Cardinality(T \ {x}) = Cardinality(T) - 1
    BY <1>2, FS_RemoveElement
  <2>2. T \ {x} \in SUBSET S /\ Cardinality(T \ {x}) < n /\ n \in Nat /\ Cardinality(T \ {x}) \in Nat
    BY <1>2, <1>4, <2>1
  <2>3. Cardinality(T \ {x}) \notin W
    BY <1>3, <2>2
  <2> QED  BY <2>2, <2>3, ZenonT(60)
<1> QED  BY <1>4, <1>5

\* The element that Sum takes first
Some(T) == CHOOSE x \in T : TRUE
Summed(f, v, T) == IF T = {} THEN 0 ELSE v[Some(T)] + f[T \ {Some(T)}]

\* f is the function that Sum defines.
Sums(f, v, S) == f = [T \in SUBSET S |-> Summed(f, v, T)]

\* Small(S, n): the subsets with at most n elements.
Small(S, n) == {T \in SUBSET S : Cardinality(T) <= n}

\* There is such a function.
LEMMA SumsExists ==
  ASSUME NEW v, NEW S, IsFiniteSet(S)
  PROVE  \E f : Sums(f, v, S)
<1> DEFINE Defined(n) == \E f : f = [T \in Small(S, n) |-> Summed(f, v, T)]
           I == {n \in Nat : Defined(n)}
<1>1. \A T \in SUBSET S : IsFiniteSet(T) /\ Cardinality(T) \in Nat
  BY FS_Subset, FS_CardinalityType
<1>2. \A T \in SUBSET S : T # {} => /\ Some(T) \in T /\ T \ {Some(T)} \in SUBSET S
                                    /\ Cardinality(T \ {Some(T)}) = Cardinality(T) - 1
  BY <1>1, FS_RemoveElement DEF Some
<1>3. 0 \in I
  <2> DEFINE f == [T \in Small(S, 0) |-> 0]
  <2>1. ASSUME NEW T \in Small(S, 0)  PROVE T = {}
    <3>1. T \in SUBSET S /\ Cardinality(T) <= 0
      BY <2>1 DEF Small
    <3>2. Cardinality(T) = 0
      BY <1>1, <3>1
    <3> QED  BY <1>1, <3>1, <3>2, FS_EmptySet
  <2>2. f = [T \in Small(S, 0) |-> Summed(f, v, T)]
    BY <2>1 DEF Summed
  <2> QED  BY <2>2
<1>4. ASSUME NEW n \in Nat, n > 0, n - 1 \in I  PROVE n \in I
  <2>1. PICK f : f = [T \in Small(S, n - 1) |-> Summed(f, v, T)]
    BY <1>4
  <2> DEFINE g == [T \in Small(S, n) |-> Summed(f, v, T)]
  <2>2. \A T \in Small(S, n - 1) : T \in Small(S, n)
    BY <1>1, <1>4 DEF Small
  <2>3. \A T \in Small(S, n - 1) : g[T] = f[T]
    BY <2>1, <2>2
  <2>4. ASSUME NEW T \in Small(S, n), T # {}  PROVE T \ {Some(T)} \in Small(S, n - 1)
    BY <1>1, <1>2, <1>4, <2>4 DEF Small
  <2> HIDE DEF g
  <2>5. \A T \in Small(S, n) : Summed(f, v, T) = Summed(g, v, T)
    BY <2>3, <2>4 DEF Summed
  <2>6. g = [T \in Small(S, n) |-> Summed(g, v, T)]
    BY <2>5 DEF g
  <2> QED  BY <2>6
<1> DEFINE c == Cardinality(S)
<1>5. c \in Nat
  BY FS_CardinalityType
<1> HIDE DEF c
<1>6. c \in I
  <2>1. \A i \in 1..c : i - 1 \in I => i \in I
    BY <1>4, <1>5
  <2>2. 0..c \subseteq I
    <3> HIDE DEF I
    <3> QED  BY <1>3, <1>5, <2>1, UpwardsTo
  <2> QED  BY <1>5, <2>2
<1>7. Small(S, c) = SUBSET S
  <2>1. \A T \in SUBSET S : Cardinality(T) <= c
    BY FS_Subset DEF c
  <2> QED  BY <2>1 DEF Small
<1>8. Defined(c)
  BY <1>6
<1> QED  BY <1>7, <1>8 DEF Sums

\* Sum is its value at the whole set.
LEMMA SumIs ==
  ASSUME NEW v, NEW S, IsFiniteSet(S)
  PROVE  \E f : Sums(f, v, S) /\ Bank!Sum(v, S) = f[S]
<1> DEFINE g == CHOOSE f : Sums(f, v, S)
<1>1. \E f : Sums(f, v, S)
  BY SumsExists
<1>2. Sums(g, v, S)
  BY <1>1
<1>3. Bank!Sum(v, S) = g[S]
  BY Zenon DEF Bank!Sum, Sums, Summed, Some
<1> QED  BY <1>2, <1>3

\* Sum takes one element after the other.
LEMMA SumUnfolds ==
  ASSUME NEW v, NEW S, IsFiniteSet(S)
  PROVE  Bank!Sum(v, S) = IF S = {} THEN 0 ELSE v[Some(S)] + Bank!Sum(v, S \ {Some(S)})
<1>1. PICK f : Sums(f, v, S) /\ Bank!Sum(v, S) = f[S]
  BY SumIs
<1>2. \A T \in SUBSET S : f[T] = Summed(f, v, T)
  BY <1>1 DEF Sums
<1>3. CASE S = {}
  BY <1>1, <1>2, <1>3 DEF Summed
<1>4. CASE S # {}
  <2> DEFINE R == S \ {Some(S)}
  <2>1. Some(S) \in S /\ R \in SUBSET S /\ IsFiniteSet(R)
    BY <1>4, FS_Subset DEF Some
  <2>2. PICK g : Sums(g, v, R) /\ Bank!Sum(v, R) = g[R]
    BY <2>1, SumIs
  <2>3. \A T \in SUBSET R : g[T] = Summed(g, v, T)
    BY <2>2 DEF Sums
  <2> DEFINE Q == {T \in SUBSET R : f[T] = g[T]}
  <2>4. ASSUME NEW T \in SUBSET R, \A x \in T : T \ {x} \in Q  PROVE T \in Q
    <3>1. f[T] = Summed(f, v, T) /\ g[T] = Summed(g, v, T)
      BY <1>2, <2>1, <2>3
    <3>2. T # {} => Some(T) \in T
      BY DEF Some
    <3>3. Summed(f, v, T) = Summed(g, v, T)
      BY <2>4, <3>2 DEF Summed
    <3> QED  BY <3>1, <3>3
  <2>5. SUBSET R \subseteq Q
    <3> HIDE DEF Q, R
    <3> QED  BY <2>1, <2>4, SubsetInduction
  <2>6. f[R] = g[R]
    BY <2>5
  <2> QED  BY <1>1, <1>2, <1>4, <2>2, <2>6 DEF Summed
<1> QED  BY <1>3, <1>4

\* A function of integers, on a set
IntOn(v, S) == \A x \in S : v[x] \in Int

\* A sum of integers is one.
LEMMA SumType ==
  ASSUME NEW v, NEW S, IsFiniteSet(S), IntOn(v, S)
  PROVE  Bank!Sum(v, S) \in Int
<1> DEFINE Q == {T \in SUBSET S : Bank!Sum(v, T) \in Int}
<1>1. ASSUME NEW T \in SUBSET S, \A x \in T : T \ {x} \in Q  PROVE T \in Q
  <2>1. IsFiniteSet(T)
    BY FS_Subset
  <2>2. Bank!Sum(v, T) = IF T = {} THEN 0 ELSE v[Some(T)] + Bank!Sum(v, T \ {Some(T)})
    BY <2>1, SumUnfolds
  <2>3. T # {} => Some(T) \in T
    BY DEF Some
  <2> QED  BY <1>1, <2>2, <2>3 DEF IntOn
<1>2. SUBSET S \subseteq Q
  <2> HIDE DEF Q
  <2> QED  BY <1>1, SubsetInduction
<1> QED  BY <1>2

\* It is the same for functions that agree on the set.
LEMMA SumSame ==
  ASSUME NEW v, NEW w, NEW S, IsFiniteSet(S), \A x \in S : v[x] = w[x]
  PROVE  Bank!Sum(v, S) = Bank!Sum(w, S)
<1> DEFINE Q == {T \in SUBSET S : Bank!Sum(v, T) = Bank!Sum(w, T)}
<1>1. ASSUME NEW T \in SUBSET S, \A x \in T : T \ {x} \in Q  PROVE T \in Q
  <2>1. IsFiniteSet(T)
    BY FS_Subset
  <2>2. Bank!Sum(v, T) = IF T = {} THEN 0 ELSE v[Some(T)] + Bank!Sum(v, T \ {Some(T)})
    BY <2>1, SumUnfolds
  <2>3. Bank!Sum(w, T) = IF T = {} THEN 0 ELSE w[Some(T)] + Bank!Sum(w, T \ {Some(T)})
    BY <2>1, SumUnfolds
  <2>4. T # {} => Some(T) \in T
    BY DEF Some
  <2> QED  BY <1>1, <2>2, <2>3, <2>4
<1>2. SUBSET S \subseteq Q
  <2> HIDE DEF Q
  <2> QED  BY <1>1, SubsetInduction
<1> QED  BY <1>2

\* The order does not matter: any element may be taken first.
LEMMA SumRemove ==
  ASSUME NEW v, NEW S, IsFiniteSet(S), IntOn(v, S), NEW e \in S
  PROVE  Bank!Sum(v, S) = v[e] + Bank!Sum(v, S \ {e})
<1> DEFINE Q == {T \in SUBSET S : \A x \in T : Bank!Sum(v, T) = v[x] + Bank!Sum(v, T \ {x})}
<1>1. ASSUME NEW T \in SUBSET S, \A x \in T : T \ {x} \in Q, NEW x \in T
      PROVE  Bank!Sum(v, T) = v[x] + Bank!Sum(v, T \ {x})
  <2> DEFINE y == Some(T)
  <2>1. IsFiniteSet(T) /\ T # {} /\ y \in T
    BY FS_Subset DEF Some
  <2>2. Bank!Sum(v, T) = v[y] + Bank!Sum(v, T \ {y})
    BY <2>1, SumUnfolds
  <2> HIDE DEF y
  <2>3. CASE x = y
    BY <2>2, <2>3
  <2>4. CASE x # y
    <3> DEFINE R == (T \ {x}) \ {y}
    <3>1. Bank!Sum(v, T \ {y}) = v[x] + Bank!Sum(v, R)
      <4>1. (T \ {y}) \ {x} = R
        OBVIOUS
      <4>2. Bank!Sum(v, T \ {y}) = v[x] + Bank!Sum(v, (T \ {y}) \ {x})
        BY <1>1, <2>1, <2>4
      <4> QED  BY <4>1, <4>2
    <3>2. Bank!Sum(v, T \ {x}) = v[y] + Bank!Sum(v, R)
      BY <1>1, <2>1, <2>4
    <3>4. Bank!Sum(v, R) \in Int
      <4>1. IsFiniteSet(R)
        BY <2>1, FS_Subset
      <4>2. IntOn(v, R)
        BY DEF IntOn
      <4> QED  BY <4>1, <4>2, SumType
    <3>5. v[x] \in Int /\ v[y] \in Int
      BY <2>1 DEF IntOn
    <3> HIDE DEF R
    <3> QED  BY <2>2, <3>1, <3>2, <3>4, <3>5
  <2> QED  BY <2>3, <2>4
<1>2. \A T \in SUBSET S : (\A x \in T : T \ {x} \in Q) => T \in Q
  BY <1>1
<1>3. SUBSET S \subseteq Q
  <2> HIDE DEF Q
  <2> QED  BY <1>2, SubsetInduction
<1> QED  BY <1>3

\* What is not negative sums up to at least any two of its parts.
LEMMA SumNonneg ==
  ASSUME NEW v, NEW S, IsFiniteSet(S), \A x \in S : v[x] \in Nat
  PROVE  Bank!Sum(v, S) \in Nat
<1> DEFINE Q == {T \in SUBSET S : Bank!Sum(v, T) \in Nat}
<1>1. ASSUME NEW T \in SUBSET S, \A x \in T : T \ {x} \in Q  PROVE T \in Q
  <2>1. IsFiniteSet(T)
    BY FS_Subset
  <2>2. Bank!Sum(v, T) = IF T = {} THEN 0 ELSE v[Some(T)] + Bank!Sum(v, T \ {Some(T)})
    BY <2>1, SumUnfolds
  <2>3. T # {} => Some(T) \in T
    BY DEF Some
  <2> QED  BY <1>1, <2>2, <2>3
<1>2. SUBSET S \subseteq Q
  <2> HIDE DEF Q
  <2> QED  BY <1>1, SubsetInduction
<1> QED  BY <1>2

\* Two of its parts are not more than the whole.
LEMMA SumTwo ==
  ASSUME NEW v, NEW S, IsFiniteSet(S), \A x \in S : v[x] \in Nat, NEW a \in S, NEW b \in S, a # b
  PROVE  v[a] + v[b] <= Bank!Sum(v, S)
<1>1. IntOn(v, S) /\ IntOn(v, S \ {a}) /\ IsFiniteSet(S \ {a}) /\ IsFiniteSet((S \ {a}) \ {b})
  BY FS_Subset DEF IntOn
<1>2. Bank!Sum(v, S) = v[a] + Bank!Sum(v, S \ {a})
  BY <1>1, SumRemove
<1> DEFINE R == S \ {a}
<1>3. b \in R /\ IntOn(v, R) /\ IsFiniteSet(R) /\ IsFiniteSet(R \ {b}) /\ \A x \in R \ {b} : v[x] \in Nat
  BY <1>1
<1> HIDE DEF R
<1>4. Bank!Sum(v, R) = v[b] + Bank!Sum(v, R \ {b})
  BY <1>3, SumRemove
<1>5. Bank!Sum(v, R \ {b}) \in Nat
  BY <1>3, SumNonneg
<1>6. v[a] \in Nat /\ v[b] \in Nat
  OBVIOUS
<1> QED  BY <1>2, <1>4, <1>5, <1>6 DEF R

\* Functions that differ at one place have sums that differ by as much.
LEMMA SumChange ==
  ASSUME NEW v, NEW w, NEW S, IsFiniteSet(S), IntOn(v, S), IntOn(w, S), NEW a \in S,
         \A x \in S \ {a} : v[x] = w[x]
  PROVE  Bank!Sum(w, S) = Bank!Sum(v, S) - v[a] + w[a]
<1> DEFINE R == S \ {a}
<1>1. IsFiniteSet(R) /\ IntOn(v, R) /\ v[a] \in Int /\ w[a] \in Int
  BY FS_Subset DEF IntOn
<1>2. Bank!Sum(v, S) = v[a] + Bank!Sum(v, R)
  BY SumRemove
<1>3. Bank!Sum(w, S) = w[a] + Bank!Sum(w, R)
  BY SumRemove
<1>4. \A x \in R : v[x] = w[x]
  OBVIOUS
<1> HIDE DEF R
<1>5. Bank!Sum(v, R) = Bank!Sum(w, R)
  BY <1>1, <1>4, SumSame
<1>6. Bank!Sum(v, R) \in Int
  BY <1>1, SumType
<1> QED  BY <1>1, <1>2, <1>3, <1>5, <1>6

\* The sum of a sequence with one more at its end.
LEMMA TotalLonger ==
  ASSUME NEW n \in Nat, NEW u, DOMAIN u = 1..n, IntOn(u, 1..n),
         NEW w, DOMAIN w = 1..(n + 1), \A i \in 1..n : w[i] = u[i], w[n + 1] \in Int
  PROVE  Total(w) = Total(u) + w[n + 1] /\ Total(u) \in Int
<1> DEFINE S == 1..(n + 1)
           e == n + 1
<1>1. IsFiniteSet(S) /\ IsFiniteSet(1..n) /\ e \in S /\ S \ {e} = 1..n /\ IntOn(w, S)
  <2>1. IsFiniteSet(1..n) /\ IsFiniteSet(1..(n + 1))
    BY FS_Interval
  <2>2. \A i \in 1..(n + 1) : i \in 1..n \/ i = n + 1
    OBVIOUS
  <2>3. n + 1 \in 1..(n + 1) /\ (1..(n + 1)) \ {n + 1} = 1..n
    OBVIOUS
  <2>4. IntOn(w, 1..(n + 1))
    BY <2>2 DEF IntOn
  <2> QED  BY <2>1, <2>3, <2>4
<1>2. Bank!Sum(w, S) = w[e] + Bank!Sum(w, S \ {e})
  <2> HIDE DEF S, e
  <2> QED  BY <1>1, SumRemove
<1>3. Bank!Sum(w, 1..n) = Bank!Sum(u, 1..n)
  BY <1>1, SumSame
<1>4. Bank!Sum(u, 1..n) \in Int
  BY <1>1, SumType
<1>5. Total(w) = Bank!Sum(w, S) /\ Total(u) = Bank!Sum(u, 1..n)
  BY DEF Total
<1>6. Bank!Sum(w, S) = w[e] + Bank!Sum(u, 1..n) /\ w[e] \in Int
  <2>1. Bank!Sum(w, S \ {e}) = Bank!Sum(w, 1..n)
    BY <1>1, Zenon
  <2> HIDE DEF S
  <2> QED  BY <1>2, <1>3, <2>1
<1> HIDE DEF S, e
<1>7. Total(w) = Total(u) + w[e] /\ Total(u) \in Int
  BY <1>4, <1>5, <1>6
<1> QED  BY <1>7 DEF e

-----------------------------------------------------------------------------
(* Integers of the machine's width                                           *)

Width == MaxInt - MinInt + 1

\* An integer and what it wraps to differ by a multiple of the width, ...
LEMMA WrappedBy ==
  ASSUME NEW v \in Int
  PROVE  \E q \in Int : v = Bank!Wrapped(v) + q * Width
<1> DEFINE d == v - MinInt
<1>1. Width \in Nat /\ Width > 0 /\ d \in Int /\ MinInt \in Int
  BY SmrAssumption DEF Width
<1>2. d = Width * (d \div Width) + (d % Width) /\ d \div Width \in Int /\ d % Width \in Int
  <2> HIDE DEF d
  <2> QED  BY <1>1
<1>3. Bank!Wrapped(v) = (d % Width) + MinInt
  BY DEF Bank!Wrapped, Width
<1> DEFINE q == d \div Width
           z == d % Width
<1>4. v = d + MinInt
  BY <1>1
<1> HIDE DEF d, q, z
<1>5. d = Width * q + z /\ q \in Int /\ z \in Int /\ Bank!Wrapped(v) = z + MinInt
  BY <1>2, <1>3 DEF q, z
<1>6. Width * q = q * Width /\ q * Width \in Int
  BY <1>1, <1>5
<1> DEFINE t == q * Width
<1>7. d = t + z /\ t \in Int
  BY <1>5, <1>6
<1>8. v = Bank!Wrapped(v) + t
  <2> HIDE DEF t
  <2> QED  BY <1>1, <1>4, <1>5, <1>7
<1> QED  BY <1>5, <1>8

\* ... and only one integer of the machine does.
LEMMA WrappedOnly ==
  ASSUME NEW v \in Int, NEW b \in MinInt..MaxInt, NEW q \in Int, v = b + q * Width
  PROVE  Bank!Wrapped(v) = b
<1>1. Width \in Nat /\ Width > 0 /\ MinInt \in Int /\ MaxInt \in Int /\ Width = MaxInt - MinInt + 1
  BY SmrAssumption DEF Width
<1> DEFINE w == Bank!Wrapped(v)
<1>2. w \in MinInt..MaxInt
  BY WrappedFits
<1>3. PICK p \in Int : v = w + p * Width
  BY WrappedBy
<1> HIDE DEF w
<1>4. b - w \in Int /\ b - w < Width /\ w - b < Width
  BY <1>1, <1>2
<1>5. b - w = (p - q) * Width
  BY <1>1, <1>2, <1>3
<1> DEFINE k == p - q
<1>6. k \in Int /\ b - w = k * Width
  BY <1>5
<1> HIDE DEF k
<1>7. k < 1
  <2>1. SUFFICES ASSUME k >= 1  PROVE FALSE
    BY <1>6
  <2>2. k * Width >= Width
    BY <1>1, <1>6, <2>1
  <2> QED  BY <1>1, <1>4, <1>6, <2>2
<1>8. k > -1
  <2>1. SUFFICES ASSUME k <= -1  PROVE FALSE
    BY <1>6
  <2>2. (-k) * Width >= Width
    BY <1>1, <1>6, <2>1
  <2>3. w - b = (-k) * Width
    BY <1>1, <1>2, <1>6
  <2> QED  BY <1>1, <1>4, <1>6, <2>2, <2>3
<1>9. b - w = 0
  BY <1>1, <1>6, <1>7, <1>8
<1> QED  BY <1>2, <1>9 DEF w

\* An integer of the machine wraps to itself.
LEMMA WrappedSame ==
  ASSUME NEW b \in MinInt..MaxInt  PROVE Bank!Wrapped(b) = b
<1>1. b \in Int /\ Width \in Int
  BY SmrAssumption DEF Width
<1>2. b = b + 0 * Width
  BY <1>1
<1> QED  BY <1>1, <1>2, WrappedOnly

\* It does not matter when the wrapping is done.
LEMMA WrappedOnce ==
  ASSUME NEW v \in Int, NEW d \in Int
  PROVE  Bank!Wrapped(Bank!Wrapped(v) + d) = Bank!Wrapped(v + d)
<1>1. Width \in Int /\ MinInt \in Int /\ MaxInt \in Int
  BY SmrAssumption DEF Width
<1> DEFINE w == Bank!Wrapped(v)
           z == Bank!Wrapped(w + d)
<1>2. w \in Int
  BY WrappedFits, <1>1
<1>3. z \in MinInt..MaxInt
  BY WrappedFits, <1>2
<1>4. PICK q \in Int : v = w + q * Width
  BY WrappedBy
<1>5. w + d \in Int
  BY <1>2
<1>6. PICK p \in Int : w + d = z + p * Width
  BY <1>5, WrappedBy
<1> HIDE DEF w, z
<1>7. v + d = z + (p + q) * Width /\ p + q \in Int /\ v + d \in Int
  BY <1>1, <1>2, <1>3, <1>4, <1>6
<1>8. Bank!Wrapped(v + d) = z
  BY <1>3, <1>7, WrappedOnly
<1> QED  BY <1>8 DEF w, z

-----------------------------------------------------------------------------
(* A ledger that gets one more transaction                                   *)

\* What each transaction brings an account, what it pays into the bank and out of it
Flow(T, a) == [i \in DOMAIN T |-> (IF T[i].to_account = a THEN T[i].amount ELSE 0)
                                  - (IF T[i].from_account = a THEN T[i].amount ELSE 0)]
PaidIn(T)  == [i \in DOMAIN T |-> IF T[i].from_account = None THEN T[i].amount ELSE 0]
PaidOut(T) == [i \in DOMAIN T |-> IF T[i].to_account = None THEN T[i].amount ELSE 0]
On(T, a)   == {i \in DOMAIN T : a \in {T[i].from_account, T[i].to_account}}

Brings(e, a) == (IF e.to_account = a THEN e.amount ELSE 0) - (IF e.from_account = a THEN e.amount ELSE 0)
Pays(e)      == IF e.from_account = None THEN e.amount ELSE 0
Takes(e)     == IF e.to_account = None THEN e.amount ELSE 0
Counts(e, a) == IF a \in {e.from_account, e.to_account} THEN 1 ELSE 0

\* A transaction's amount is a positive integer.
LEMMA EntryParts ==
  ASSUME NEW e \in Transaction, NEW a
  PROVE  /\ e.amount \in Nat /\ e.amount > 0
         /\ Brings(e, a) \in Int /\ Pays(e) \in Nat /\ Takes(e) \in Nat /\ Counts(e, a) \in Nat
<1>1. e.amount \in 1..MaxAmount /\ MaxAmount \in Int
  BY SmrAssumption DEF Transaction
<1>2. e.amount \in Nat /\ e.amount > 0
  BY <1>1
<1> QED  BY <1>2 DEF Brings, Pays, Takes, Counts

\* One more transaction.
LEMMA Longer ==
  ASSUME NEW T \in Seq(Transaction), NEW e \in Transaction
  PROVE  /\ Len(T) \in Nat /\ DOMAIN T = 1..Len(T)
         /\ DOMAIN Append(T, e) = 1..(Len(T) + 1) /\ Append(T, e)[Len(T) + 1] = e
         /\ \A i \in 1..Len(T) : Append(T, e)[i] = T[i] /\ T[i] \in Transaction
OBVIOUS

\* What it changes in what an account was brought, ...
LEMMA FlowLonger ==
  ASSUME NEW T \in Seq(Transaction), NEW e \in Transaction, NEW a
  PROVE  /\ Total(Flow(Append(T, e), a)) = Total(Flow(T, a)) + Brings(e, a)
         /\ Total(Flow(T, a)) \in Int
<1> DEFINE n == Len(T)
           u == Flow(T, a)
           w == Flow(Append(T, e), a)
<1>1. /\ n \in Nat /\ DOMAIN T = 1..n
      /\ DOMAIN Append(T, e) = 1..(n + 1) /\ Append(T, e)[n + 1] = e
      /\ \A i \in 1..n : Append(T, e)[i] = T[i] /\ T[i] \in Transaction
  BY Longer
<1>2. n + 1 \in 1..(n + 1) /\ \A i \in 1..n : i \in 1..(n + 1)
  BY <1>1
<1>3. DOMAIN u = 1..n /\ DOMAIN w = 1..(n + 1)
  BY <1>1 DEF Flow
<1>4. w[n + 1] = Brings(e, a) /\ \A i \in 1..n : w[i] = u[i] /\ u[i] = Brings(T[i], a)
  BY <1>1, <1>2 DEF Flow, Brings
<1>5. w[n + 1] \in Int /\ IntOn(u, 1..n)
  BY <1>1, <1>4, EntryParts DEF IntOn
<1> HIDE DEF n, u, w
<1>6. Total(w) = Total(u) + w[n + 1] /\ Total(u) \in Int
  BY <1>1, <1>3, <1>4, <1>5, TotalLonger
<1> QED  BY <1>4, <1>6 DEF u, w

\* ... in what was paid in, ...
LEMMA PaidInLonger ==
  ASSUME NEW T \in Seq(Transaction), NEW e \in Transaction
  PROVE  /\ Total(PaidIn(Append(T, e))) = Total(PaidIn(T)) + Pays(e)
         /\ Total(PaidIn(T)) \in Nat
<1> DEFINE n == Len(T)
           u == PaidIn(T)
           w == PaidIn(Append(T, e))
<1>1. /\ n \in Nat /\ DOMAIN T = 1..n
      /\ DOMAIN Append(T, e) = 1..(n + 1) /\ Append(T, e)[n + 1] = e
      /\ \A i \in 1..n : Append(T, e)[i] = T[i] /\ T[i] \in Transaction
  BY Longer
<1>2. n + 1 \in 1..(n + 1) /\ \A i \in 1..n : i \in 1..(n + 1)
  BY <1>1
<1>3. DOMAIN u = 1..n /\ DOMAIN w = 1..(n + 1)
  BY <1>1 DEF PaidIn
<1>4. w[n + 1] = Pays(e) /\ \A i \in 1..n : w[i] = u[i] /\ u[i] = Pays(T[i])
  BY <1>1, <1>2 DEF PaidIn, Pays
<1>5. w[n + 1] \in Int /\ IntOn(u, 1..n) /\ \A i \in 1..n : u[i] \in Nat
  <2>1. \A d \in Transaction : Pays(d) \in Nat
    BY EntryParts
  <2>2. Pays(e) \in Nat /\ \A i \in 1..n : u[i] \in Nat
    BY <1>1, <1>4, <2>1
  <2> QED  BY <1>4, <2>2 DEF IntOn
<1> HIDE DEF n, u, w
<1>6. Total(w) = Total(u) + w[n + 1]
  BY <1>1, <1>3, <1>4, <1>5, TotalLonger
<1>7. Total(u) \in Nat
  <2>1. IsFiniteSet(1..n)
    BY <1>1, FS_Interval
  <2> QED  BY <1>3, <1>5, <2>1, SumNonneg DEF Total
<1> QED  BY <1>4, <1>6, <1>7 DEF u, w

\* ... in what was paid out, ...
LEMMA PaidOutLonger ==
  ASSUME NEW T \in Seq(Transaction), NEW e \in Transaction
  PROVE  /\ Total(PaidOut(Append(T, e))) = Total(PaidOut(T)) + Takes(e)
         /\ Total(PaidOut(T)) \in Nat
<1> DEFINE n == Len(T)
           u == PaidOut(T)
           w == PaidOut(Append(T, e))
<1>1. /\ n \in Nat /\ DOMAIN T = 1..n
      /\ DOMAIN Append(T, e) = 1..(n + 1) /\ Append(T, e)[n + 1] = e
      /\ \A i \in 1..n : Append(T, e)[i] = T[i] /\ T[i] \in Transaction
  BY Longer
<1>2. n + 1 \in 1..(n + 1) /\ \A i \in 1..n : i \in 1..(n + 1)
  BY <1>1
<1>3. DOMAIN u = 1..n /\ DOMAIN w = 1..(n + 1)
  BY <1>1 DEF PaidOut
<1>4. w[n + 1] = Takes(e) /\ \A i \in 1..n : w[i] = u[i] /\ u[i] = Takes(T[i])
  BY <1>1, <1>2 DEF PaidOut, Takes
<1>5. w[n + 1] \in Int /\ IntOn(u, 1..n) /\ \A i \in 1..n : u[i] \in Nat
  <2>1. \A d \in Transaction : Takes(d) \in Nat
    BY EntryParts
  <2>2. Takes(e) \in Nat /\ \A i \in 1..n : u[i] \in Nat
    BY <1>1, <1>4, <2>1
  <2> QED  BY <1>4, <2>2 DEF IntOn
<1> HIDE DEF n, u, w
<1>6. Total(w) = Total(u) + w[n + 1]
  BY <1>1, <1>3, <1>4, <1>5, TotalLonger
<1>7. Total(u) \in Nat
  <2>1. IsFiniteSet(1..n)
    BY <1>1, FS_Interval
  <2> QED  BY <1>3, <1>5, <2>1, SumNonneg DEF Total
<1> QED  BY <1>4, <1>6, <1>7 DEF u, w

\* ... and in how many transactions an account has.
LEMMA OnLonger ==
  ASSUME NEW T \in Seq(Transaction), NEW e \in Transaction, NEW a
  PROVE  /\ Cardinality(On(Append(T, e), a)) = Cardinality(On(T, a)) + Counts(e, a)
         /\ Cardinality(On(T, a)) \in Nat
<1> DEFINE n == Len(T)
           S == On(T, a)
           R == On(Append(T, e), a)
<1>1. /\ n \in Nat /\ DOMAIN T = 1..n
      /\ DOMAIN Append(T, e) = 1..(n + 1) /\ Append(T, e)[n + 1] = e
      /\ \A i \in 1..n : Append(T, e)[i] = T[i] /\ T[i] \in Transaction
  BY Longer
<1>2. S \subseteq 1..n /\ n + 1 \notin S
  BY <1>1 DEF On
<1>3. IsFiniteSet(S) /\ Cardinality(S) \in Nat
  <2>1. IsFiniteSet(1..n)
    BY <1>1, FS_Interval
  <2> QED  BY <1>2, <2>1, FS_Subset, FS_CardinalityType
<1>4. \A i : i \in 1..(n + 1) <=> i \in 1..n \/ i = n + 1
  BY <1>1
<1>5. CASE a \in {e.from_account, e.to_account}
  <2>1. R = S \cup {n + 1}
    BY <1>1, <1>4, <1>5 DEF On
  <2>2. Cardinality(S \cup {n + 1}) = Cardinality(S) + 1
    BY <1>2, <1>3, FS_AddElement
  <2> QED  BY <1>3, <1>5, <2>1, <2>2 DEF Counts
<1>6. CASE a \notin {e.from_account, e.to_account}
  <2>1. R = S
    BY <1>1, <1>4, <1>6 DEF On
  <2> QED  BY <1>3, <1>6, <2>1 DEF Counts
<1> QED  BY <1>5, <1>6

-----------------------------------------------------------------------------
(* The books of a bank balance, transaction by transaction                   *)

Net(T, a)   == Total(Flow(T, a))
In(T)       == Total(PaidIn(T))
Out(T)      == Total(PaidOut(T))
Number(T, a) == Cardinality(On(T, a))

\* What the accounts hold together
Funds(A) == [a \in Accounts |-> IF A[a] # None THEN A[a].balance ELSE 0]
Worth(A) == Bank!Sum(Funds(A), Accounts)

\* v: what each account was opened with.  An account that is not there was never moved.
Booked(A, T, v, a) ==
  IF A[a] = None THEN v[a] = 0 /\ Net(T, a) = 0 /\ Number(T, a) = 0
  ELSE A[a].balance = Bank!Wrapped(v[a] + Net(T, a)) /\ A[a].transaction_count = Number(T, a)

\* As long as the sums fit, or are checked, the bank holds what was paid in and not out.
Sound(x, A, T, v) ==
  x \/ Total(v) + In(T) <= MaxInt =>
    /\ \A a \in Accounts : A[a] # None => A[a].balance >= 0
    /\ Worth(A) = Total(v) + In(T) - Out(T)

Books(x, A, T, v) ==
  /\ A \in AccountsOf /\ T \in Seq(Transaction) /\ v \in [Accounts -> Nat]
  /\ \A a \in Accounts : Booked(A, T, v, a)
  /\ Sound(x, A, T, v)

\* The types of what the books speak of.
LEMMA BooksTypes ==
  ASSUME NEW T \in Seq(Transaction), NEW a
  PROVE  Net(T, a) \in Int /\ In(T) \in Nat /\ Out(T) \in Nat /\ Number(T, a) \in Nat
<1>1. MaxAmount \in Int /\ 0 < MaxAmount
  BY SmrAssumption
<1>2. PICK e : e \in Transaction
  <2> DEFINE d == Entry(<<>>, None, None, 1, Still)
  <2>1. None \in Parties /\ 1 \in 1..MaxAmount /\ <<>> \in Seq(Transaction) /\ IsEnv(Still)
    BY <1>1, StillIsEnv DEF Parties
  <2>2. d \in Transaction
    BY <2>1, EntryTyped
  <2> QED  BY <2>2
<1>3. Net(T, a) \in Int
  BY <1>2, FlowLonger DEF Net
<1>4. In(T) \in Nat
  BY <1>2, PaidInLonger DEF In
<1>5. Out(T) \in Nat
  BY <1>2, PaidOutLonger DEF Out
<1>6. Number(T, a) \in Nat
  BY <1>2, OnLonger DEF Number
<1> QED  BY <1>3, <1>4, <1>5, <1>6

\* What is held, and what an account that is there holds, are integers of the machine.
LEMMA FundsTypes ==
  ASSUME NEW A \in AccountsOf
  PROVE  /\ IsFiniteSet(Accounts) /\ IntOn(Funds(A), Accounts) /\ Worth(A) \in Int
         /\ \A a \in Accounts : A[a] # None => /\ A[a] \in AccountType /\ A[a].balance \in Int
                                               /\ A[a].balance \in MinInt..MaxInt
                                               /\ A[a].transaction_count \in Nat
<1>1. IsFiniteSet(Accounts)
  BY AccountsAssumption
<1>2. MinInt \in Int /\ MaxInt \in Int
  BY SmrAssumption
<1>3. \A a \in Accounts : A[a] # None => /\ A[a] \in AccountType /\ A[a].balance \in Int
                                         /\ A[a].balance \in MinInt..MaxInt
                                         /\ A[a].transaction_count \in Nat
  BY <1>2 DEF AccountsOf, AccountType
<1>4. IntOn(Funds(A), Accounts)
  BY <1>3 DEF IntOn, Funds
<1>5. Worth(A) \in Int
  BY <1>1, <1>4, SumType DEF Worth
<1> QED  BY <1>1, <1>3, <1>4, <1>5

\* An account of the bank that is opened or moved.
LEMMA WorthChanges ==
  ASSUME NEW A \in AccountsOf, NEW id \in Accounts, NEW z \in AccountType
  PROVE  /\ z # None /\ [A EXCEPT ![id] = z] \in AccountsOf
         /\ Worth([A EXCEPT ![id] = z]) = Worth(A) - Funds(A)[id] + z.balance
<1> DEFINE B == [A EXCEPT ![id] = z]
<1>1. z # None
  <2>1. AccountType \subseteq [balance : Int, transaction_count : Nat, created_at : Nat, last_transaction_at : Nat]
    BY SmrAssumption DEF AccountType
  <2> QED  BY <2>1, AccountsAssumption
<1>2. B \in AccountsOf /\ B[id] = z /\ \A a \in Accounts : a # id => B[a] = A[a]
  BY DEF AccountsOf
<1> HIDE DEF B
<1> DEFINE v == Funds(A)
           w == Funds(B)
<1>3. w[id] = z.balance /\ \A x \in Accounts \ {id} : v[x] = w[x]
  BY <1>1, <1>2 DEF Funds
<1>4. IsFiniteSet(Accounts) /\ IntOn(v, Accounts) /\ IntOn(w, Accounts)
  BY <1>2, FundsTypes
<1> HIDE DEF v, w
<1>5. Bank!Sum(w, Accounts) = Bank!Sum(v, Accounts) - v[id] + w[id]
  BY <1>3, <1>4, SumChange
<1> QED  BY <1>1, <1>2, <1>3, <1>5 DEF Worth, v, w, B

\* The opening balances together.
LEMMA OpeningTotal ==
  ASSUME NEW v \in [Accounts -> Nat]
  PROVE  /\ Total(v) \in Nat
         /\ \A id \in Accounts : \A b \in Nat : Total([v EXCEPT ![id] = b]) = Total(v) - v[id] + b
<1>1. IsFiniteSet(Accounts) /\ \A w \in [Accounts -> Nat] : Total(w) = Bank!Sum(w, Accounts)
  BY AccountsAssumption DEF Total
<1>2. Total(v) \in Nat
  BY <1>1, SumNonneg
<1>3. ASSUME NEW id \in Accounts, NEW b \in Nat  PROVE Total([v EXCEPT ![id] = b]) = Total(v) - v[id] + b
  <2> DEFINE w == [v EXCEPT ![id] = b]
  <2>1. w \in [Accounts -> Nat] /\ w[id] = b /\ \A x \in Accounts \ {id} : v[x] = w[x]
    OBVIOUS
  <2> HIDE DEF w
  <2>2. IntOn(v, Accounts) /\ IntOn(w, Accounts)
    BY <2>1 DEF IntOn
  <2>3. Bank!Sum(w, Accounts) = Bank!Sum(v, Accounts) - v[id] + w[id]
    BY <1>1, <2>1, <2>2, SumChange
  <2> QED  BY <1>1, <2>1, <2>3 DEF w
<1> QED  BY <1>2, <1>3

\* An account is opened.
LEMMA BooksOpen ==
  ASSUME NEW x \in BOOLEAN, NEW A, NEW T, NEW v, Books(x, A, T, v),
         NEW id \in Accounts, A[id] = None, NEW b \in 0..MaxInt, NEW t \in Nat
  PROVE  Books(x, [A EXCEPT ![id] = Acct(b, 0, t, t)], T, [v EXCEPT ![id] = b])
<1> DEFINE z == Acct(b, 0, t, t)
           B == [A EXCEPT ![id] = z]
           w == [v EXCEPT ![id] = b]
<1>1. /\ A \in AccountsOf /\ T \in Seq(Transaction) /\ v \in [Accounts -> Nat] /\ Sound(x, A, T, v)
      /\ \A a \in Accounts : Booked(A, T, v, a)
  BY DEF Books
<1>2. MinInt \in Int /\ MaxInt \in Int /\ MinInt < 0 /\ b \in MinInt..MaxInt /\ b \in Nat
  BY SmrAssumption
<1>0. z \in AccountType /\ z # None /\ z.balance = b /\ z.transaction_count = 0
  BY <1>2, AcctTyped DEF Acct
<1> HIDE DEF z
<1>3. B \in AccountsOf /\ Worth(B) = Worth(A) - Funds(A)[id] + b
  BY <1>0, <1>1, WorthChanges
<1>4. /\ B[id] = z /\ w[id] = b /\ w \in [Accounts -> Nat]
      /\ \A a \in Accounts : a # id => B[a] = A[a] /\ w[a] = v[a]
  BY <1>1, <1>2 DEF AccountsOf
<1>5. B[id] # None /\ B[id].balance = b /\ B[id].transaction_count = 0
  BY <1>0, <1>4
<1>6. Funds(A)[id] = 0 /\ v[id] = 0 /\ Net(T, id) = 0 /\ Number(T, id) = 0
  BY <1>1 DEF Funds, Booked
<1>7. Total(v) \in Nat /\ Total(w) = Total(v) - v[id] + b
  BY <1>1, <1>2, OpeningTotal
<1>8. Worth(A) \in Int /\ In(T) \in Nat /\ Out(T) \in Nat
  BY <1>1, FundsTypes, BooksTypes
<1> HIDE DEF B, w
<1>9. ASSUME NEW a \in Accounts  PROVE Booked(B, T, w, a)
  <2>1. CASE a = id
    <3>1. Bank!Wrapped(b) = b /\ w[id] + Net(T, id) = b
      BY <1>2, <1>4, <1>6, WrappedSame
    <3> QED  BY <1>5, <1>6, <2>1, <3>1 DEF Booked
  <2>2. CASE a # id
    BY <1>1, <1>4, <2>2 DEF Booked
  <2> QED  BY <2>1, <2>2
<1>10. Sound(x, B, T, w)
  <2>1. SUFFICES ASSUME x \/ Total(w) + In(T) <= MaxInt
                 PROVE  /\ \A a \in Accounts : B[a] # None => B[a].balance >= 0
                        /\ Worth(B) = Total(w) + In(T) - Out(T)
    BY DEF Sound
  <2>2. Total(w) = Total(v) + b
    BY <1>2, <1>6, <1>7
  <2>3. x \/ Total(v) + In(T) <= MaxInt
    BY <1>2, <1>7, <1>8, <2>1, <2>2
  <2>4. /\ \A a \in Accounts : A[a] # None => A[a].balance >= 0
        /\ Worth(A) = Total(v) + In(T) - Out(T)
    BY <1>1, <2>3 DEF Sound
  <2>5. \A a \in Accounts : B[a] # None => B[a].balance >= 0
    BY <1>2, <1>4, <1>5, <2>4
  <2>6. Worth(B) = Worth(A) + b
    BY <1>2, <1>3, <1>6, <1>8
  <2>7. Worth(B) = Total(w) + In(T) - Out(T)
    BY <1>2, <1>7, <1>8, <2>2, <2>4, <2>6
  <2> QED  BY <2>5, <2>7
<1>11. Books(x, B, T, w)
  BY <1>1, <1>3, <1>4, <1>9, <1>10 DEF Books
<1> QED  BY <1>11 DEF B, w, z

\* An account that a transaction moves, ...
LEMMA BookedMoved ==
  ASSUME NEW T \in Seq(Transaction), NEW e \in Transaction, NEW v \in [Accounts -> Nat], NEW a \in Accounts,
         NEW A \in AccountsOf, A[a] # None, Booked(A, T, v, a), NEW B, B[a] # None,
         B[a].balance = Bank!Wrapped(A[a].balance + Brings(e, a)),
         B[a].transaction_count = A[a].transaction_count + Counts(e, a)
  PROVE  Booked(B, Append(T, e), v, a)
<1>1. Net(Append(T, e), a) = Net(T, a) + Brings(e, a) /\ Net(T, a) \in Int
  BY FlowLonger DEF Net
<1>2. Number(Append(T, e), a) = Number(T, a) + Counts(e, a)
  BY OnLonger DEF Number
<1>3. A[a].balance = Bank!Wrapped(v[a] + Net(T, a)) /\ A[a].transaction_count = Number(T, a)
  BY DEF Booked
<1>4. Brings(e, a) \in Int /\ v[a] + Net(T, a) \in Int
  BY <1>1, EntryParts
<1>5. B[a].balance = Bank!Wrapped((v[a] + Net(T, a)) + Brings(e, a))
  BY <1>3, <1>4, WrappedOnce
<1>6. (v[a] + Net(T, a)) + Brings(e, a) = v[a] + Net(Append(T, e), a)
  BY <1>1, <1>4
<1> QED  BY <1>2, <1>3, <1>5, <1>6 DEF Booked

\* ... and one that it does not.
LEMMA BookedElse ==
  ASSUME NEW T \in Seq(Transaction), NEW e \in Transaction, NEW v, NEW a \in Accounts,
         NEW A, Booked(A, T, v, a), NEW B, B[a] = A[a], a \notin {e.from_account, e.to_account}
  PROVE  Booked(B, Append(T, e), v, a)
<1>1. Brings(e, a) = 0 /\ Counts(e, a) = 0
  BY DEF Brings, Counts
<1>2. Net(Append(T, e), a) = Net(T, a) + Brings(e, a) /\ Net(T, a) \in Int
  BY FlowLonger DEF Net
<1>3. Number(Append(T, e), a) = Number(T, a) + Counts(e, a) /\ Number(T, a) \in Nat
  BY OnLonger DEF Number
<1>4. Net(Append(T, e), a) = Net(T, a) /\ Number(Append(T, e), a) = Number(T, a)
  BY <1>1, <1>2, <1>3
<1> QED  BY <1>4 DEF Booked

\* What record puts into a ledger is a transaction.
LEMMA EntryHolds ==
  ASSUME NEW T \in Seq(Transaction), NEW from \in Parties, NEW to \in Parties, NEW n, n \in Int, Valid(n),
         NEW env, IsEnv(env)
  PROVE  /\ Entry(T, from, to, n, env) \in Transaction
         /\ Entry(T, from, to, n, env).from_account = from /\ Entry(T, from, to, n, env).to_account = to
         /\ Entry(T, from, to, n, env).amount = n /\ n \in Nat /\ n > 0
<1>1. n \in 1..MaxAmount /\ n \in Nat /\ n > 0
  BY SmrAssumption DEF Valid
<1>2. Entry(T, from, to, n, env) \in Transaction
  BY <1>1, EntryTyped
<1> QED  BY <1>1, <1>2 DEF Entry

\* What update_balance makes of the accounts.
LEMMA MovedParts ==
  ASSUME NEW A \in AccountsOf, NEW id \in Accounts, A[id] # None, NEW b \in MinInt..MaxInt,
         NEW env, IsEnv(env)
  PROVE  /\ Moved(A, id, b, env) \in AccountsOf
         /\ Worth(Moved(A, id, b, env)) = Worth(A) - A[id].balance + b
         /\ Moved(A, id, b, env)[id] # None /\ Moved(A, id, b, env)[id].balance = b
         /\ Moved(A, id, b, env)[id].transaction_count = A[id].transaction_count + 1
         /\ \A a \in Accounts : a # id => Moved(A, id, b, env)[a] = A[a]
<1> DEFINE B == Moved(A, id, b, env)
           z == B[id]
<1>1. /\ B \in AccountsOf /\ z # None /\ z.balance = b
      /\ z.transaction_count = A[id].transaction_count + 1
      /\ \A a \in Accounts : a # id => B[a] = A[a]
  BY MovedTyped
<1> HIDE DEF B
<1>2. z \in AccountType /\ B = [A EXCEPT ![id] = z]
  BY <1>1 DEF AccountsOf
<1>3. Worth([A EXCEPT ![id] = z]) = Worth(A) - Funds(A)[id] + z.balance
  BY <1>2, WorthChanges
<1>4. Funds(A)[id] = A[id].balance
  BY DEF Funds
<1>5. Worth(B) = Worth(A) - A[id].balance + b
  BY <1>1, <1>2, <1>3, <1>4
<1> QED  BY <1>1, <1>5 DEF B

\* A deposit.
LEMMA BooksDeposit ==
  ASSUME NEW x \in BOOLEAN, NEW A, NEW T, NEW v, Books(x, A, T, v), NEW env, IsEnv(env),
         NEW id \in Accounts, A[id] # None, NEW n \in Int, Valid(n), A[id].balance + n \in MinInt..MaxInt
  PROVE  Books(x, Moved(A, id, A[id].balance + n, env), Append(T, Entry(T, None, id, n, env)), v)
<1> DEFINE b == A[id].balance + n
           B == Moved(A, id, b, env)
           e == Entry(T, None, id, n, env)
           U == Append(T, e)
<1>1. /\ A \in AccountsOf /\ T \in Seq(Transaction) /\ v \in [Accounts -> Nat] /\ Sound(x, A, T, v)
      /\ \A a \in Accounts : Booked(A, T, v, a)
  BY DEF Books
<1>2. id # None /\ None \in Parties /\ id \in Parties
  BY AccountsAssumption DEF Parties
<1>3. e \in Transaction /\ e.from_account = None /\ e.to_account = id /\ e.amount = n /\ n \in Nat /\ n > 0
  BY <1>1, <1>2, EntryHolds
<1>4. A[id].balance \in Int /\ Worth(A) \in Int /\ MaxInt \in Int
  BY <1>1, FundsTypes, SmrAssumption
<1>5. b \in MinInt..MaxInt /\ b \in Int /\ b = A[id].balance + n
  BY <1>3, <1>4
<1>6. /\ B \in AccountsOf /\ Worth(B) = Worth(A) - A[id].balance + b
      /\ B[id] # None /\ B[id].balance = b
      /\ B[id].transaction_count = A[id].transaction_count + 1
      /\ \A a \in Accounts : a # id => B[a] = A[a]
  <2> HIDE DEF b
  <2> QED  BY <1>1, <1>5, MovedParts
<1> HIDE DEF e, b, B
<1>7. Brings(e, id) = n /\ Counts(e, id) = 1 /\ Pays(e) = n /\ Takes(e) = 0
  BY <1>2, <1>3 DEF Brings, Counts, Pays, Takes
<1>8. In(U) = In(T) + n /\ Out(U) = Out(T) /\ U \in Seq(Transaction) /\ In(T) \in Nat /\ Out(T) \in Nat
  <2>1. In(U) = In(T) + Pays(e) /\ In(T) \in Nat
    BY <1>1, <1>3, PaidInLonger DEF In
  <2>2. Out(U) = Out(T) + Takes(e) /\ Out(T) \in Nat
    BY <1>1, <1>3, PaidOutLonger DEF Out
  <2> QED  BY <1>1, <1>3, <1>7, <2>1, <2>2
<1>9. ASSUME NEW a \in Accounts  PROVE Booked(B, U, v, a)
  <2>1. CASE a = id
    <3>1. Bank!Wrapped(b) = b
      BY <1>5, WrappedSame
    <3>2. B[id].balance = Bank!Wrapped(A[id].balance + Brings(e, id))
      BY <1>5, <1>6, <1>7, <3>1
    <3>3. Booked(B, U, v, id)
      BY <1>1, <1>3, <1>6, <1>7, <3>2, BookedMoved
    <3> QED  BY <2>1, <3>3
  <2>2. CASE a # id
    <3>1. a \notin {e.from_account, e.to_account}
      BY <1>3, <2>2, AccountsAssumption
    <3> QED  BY <1>1, <1>3, <1>6, <2>2, <3>1, BookedElse
  <2> QED  BY <2>1, <2>2
<1>10. Sound(x, B, U, v)
  <2>1. SUFFICES ASSUME x \/ Total(v) + In(U) <= MaxInt
                 PROVE  /\ \A a \in Accounts : B[a] # None => B[a].balance >= 0
                        /\ Worth(B) = Total(v) + In(U) - Out(U)
    BY DEF Sound
  <2>2. Total(v) \in Nat
    BY <1>1, OpeningTotal
  <2>3. x \/ Total(v) + In(T) <= MaxInt
    BY <1>3, <1>4, <1>8, <2>1, <2>2
  <2>4. /\ \A a \in Accounts : A[a] # None => A[a].balance >= 0
        /\ Worth(A) = Total(v) + In(T) - Out(T)
    BY <1>1, <2>3 DEF Sound
  <2>5. \A a \in Accounts : B[a] # None => B[a].balance >= 0
    BY <1>3, <1>4, <1>5, <1>6, <2>4
  <2>6. Worth(B) = Worth(A) + n
    BY <1>3, <1>4, <1>5, <1>6
  <2>7. Worth(B) = Total(v) + In(U) - Out(U)
    BY <1>3, <1>8, <2>2, <2>4, <2>6
  <2> QED  BY <2>5, <2>7
<1>11. Books(x, B, U, v)
  BY <1>1, <1>6, <1>8, <1>9, <1>10 DEF Books
<1> QED  BY <1>11 DEF B, U, b, e

\* A withdrawal.
LEMMA BooksWithdraw ==
  ASSUME NEW x \in BOOLEAN, NEW A, NEW T, NEW v, Books(x, A, T, v), NEW env, IsEnv(env),
         NEW id \in Accounts, A[id] # None, NEW n \in Int, Valid(n), A[id].balance >= n
  PROVE  Books(x, Moved(A, id, A[id].balance - n, env), Append(T, Entry(T, id, None, n, env)), v)
<1> DEFINE b == A[id].balance - n
           B == Moved(A, id, b, env)
           e == Entry(T, id, None, n, env)
           U == Append(T, e)
<1>1. /\ A \in AccountsOf /\ T \in Seq(Transaction) /\ v \in [Accounts -> Nat] /\ Sound(x, A, T, v)
      /\ \A a \in Accounts : Booked(A, T, v, a)
  BY DEF Books
<1>2. id # None /\ None \in Parties /\ id \in Parties
  BY AccountsAssumption DEF Parties
<1>3. e \in Transaction /\ e.from_account = id /\ e.to_account = None /\ e.amount = n /\ n \in Nat /\ n > 0
  BY <1>1, <1>2, EntryHolds
<1>4. A[id].balance \in MinInt..MaxInt /\ Worth(A) \in Int /\ MaxInt \in Int /\ MinInt \in Int /\ MinInt < 0
  BY <1>1, FundsTypes, SmrAssumption
<1>5. b \in MinInt..MaxInt /\ b >= 0 /\ b \in Int /\ b = A[id].balance + (-n) /\ -n \in Int
  BY <1>3, <1>4
<1>6. /\ B \in AccountsOf /\ Worth(B) = Worth(A) - A[id].balance + b
      /\ B[id] # None /\ B[id].balance = b
      /\ B[id].transaction_count = A[id].transaction_count + 1
      /\ \A a \in Accounts : a # id => B[a] = A[a]
  <2> HIDE DEF b
  <2> QED  BY <1>1, <1>5, MovedParts
<1> HIDE DEF e, b, B
<1>7. Brings(e, id) = -n /\ Counts(e, id) = 1 /\ Pays(e) = 0 /\ Takes(e) = n
  BY <1>2, <1>3 DEF Brings, Counts, Pays, Takes
<1>8. In(U) = In(T) /\ Out(U) = Out(T) + n /\ U \in Seq(Transaction) /\ In(T) \in Nat /\ Out(T) \in Nat
  <2>1. In(U) = In(T) + Pays(e) /\ In(T) \in Nat
    BY <1>1, <1>3, PaidInLonger DEF In
  <2>2. Out(U) = Out(T) + Takes(e) /\ Out(T) \in Nat
    BY <1>1, <1>3, PaidOutLonger DEF Out
  <2> QED  BY <1>1, <1>3, <1>7, <2>1, <2>2
<1>9. ASSUME NEW a \in Accounts  PROVE Booked(B, U, v, a)
  <2>1. CASE a = id
    <3>1. Bank!Wrapped(b) = b
      BY <1>5, WrappedSame
    <3>2. B[id].balance = Bank!Wrapped(A[id].balance + Brings(e, id))
      BY <1>5, <1>6, <1>7, <3>1
    <3>3. Booked(B, U, v, id)
      BY <1>1, <1>3, <1>6, <1>7, <3>2, BookedMoved
    <3> QED  BY <2>1, <3>3
  <2>2. CASE a # id
    <3>1. a \notin {e.from_account, e.to_account}
      BY <1>3, <2>2, AccountsAssumption
    <3> QED  BY <1>1, <1>3, <1>6, <2>2, <3>1, BookedElse
  <2> QED  BY <2>1, <2>2
<1>10. Sound(x, B, U, v)
  <2>1. SUFFICES ASSUME x \/ Total(v) + In(U) <= MaxInt
                 PROVE  /\ \A a \in Accounts : B[a] # None => B[a].balance >= 0
                        /\ Worth(B) = Total(v) + In(U) - Out(U)
    BY DEF Sound
  <2>2. Total(v) \in Nat
    BY <1>1, OpeningTotal
  <2>3. /\ \A a \in Accounts : A[a] # None => A[a].balance >= 0
        /\ Worth(A) = Total(v) + In(T) - Out(T)
    BY <1>1, <1>8, <2>1 DEF Sound
  <2>4. \A a \in Accounts : B[a] # None => B[a].balance >= 0
    BY <1>5, <1>6, <2>3
  <2>5. Worth(B) = Worth(A) - n
    BY <1>3, <1>4, <1>5, <1>6
  <2>6. Worth(B) = Total(v) + In(U) - Out(U)
    BY <1>3, <1>8, <2>2, <2>3, <2>5
  <2> QED  BY <2>4, <2>6
<1>11. Books(x, B, U, v)
  BY <1>1, <1>6, <1>8, <1>9, <1>10 DEF Books
<1> QED  BY <1>11 DEF B, U, b, e

\* A transfer: where the sum wraps, more was paid in than the machine's integers hold.
LEMMA BooksTransfer ==
  ASSUME NEW x \in BOOLEAN, NEW A, NEW T, NEW v, Books(x, A, T, v), NEW env, IsEnv(env),
         NEW id \in Accounts, NEW to \in Accounts, id # to, A[id] # None, A[to] # None,
         NEW n \in Int, Valid(n), A[id].balance >= n,
         x => A[to].balance + n \in MinInt..MaxInt
  PROVE  Books(x, Moved(Moved(A, id, A[id].balance - n, env), to, Bank!Wrapped(A[to].balance + n), env),
               Append(T, Entry(T, id, to, n, env)), v)
<1> DEFINE b == A[id].balance - n
           C == Moved(A, id, b, env)
           s == A[to].balance + n
           w == Bank!Wrapped(s)
           B == Moved(C, to, w, env)
           e == Entry(T, id, to, n, env)
           U == Append(T, e)
<1>1. /\ A \in AccountsOf /\ T \in Seq(Transaction) /\ v \in [Accounts -> Nat] /\ Sound(x, A, T, v)
      /\ \A a \in Accounts : Booked(A, T, v, a)
  BY DEF Books
<1>2. id # None /\ to # None /\ to \in Parties /\ id \in Parties
  BY AccountsAssumption DEF Parties
<1>3. e \in Transaction /\ e.from_account = id /\ e.to_account = to /\ e.amount = n /\ n \in Nat /\ n > 0
  BY <1>1, <1>2, EntryHolds
<1>4. /\ A[id].balance \in MinInt..MaxInt /\ A[to].balance \in MinInt..MaxInt
      /\ Worth(A) \in Int /\ MaxInt \in Int /\ MinInt \in Int /\ MinInt < 0
  BY <1>1, FundsTypes, SmrAssumption
<1>5. /\ b \in MinInt..MaxInt /\ b >= 0 /\ b \in Int /\ b = A[id].balance + (-n) /\ -n \in Int
      /\ s \in Int /\ s = A[to].balance + n
  BY <1>3, <1>4
<1> HIDE DEF b, s
<1>6. w \in MinInt..MaxInt /\ w \in Int
  BY <1>4, <1>5, WrappedFits
<1> HIDE DEF w
<1>7. /\ C \in AccountsOf /\ Worth(C) = Worth(A) - A[id].balance + b
      /\ C[id] # None /\ C[id].balance = b
      /\ C[id].transaction_count = A[id].transaction_count + 1
      /\ \A a \in Accounts : a # id => C[a] = A[a]
  BY <1>1, <1>5, MovedParts
<1> HIDE DEF C
<1>8. C[to] = A[to] /\ C[to] # None
  BY <1>7
<1>9. /\ B \in AccountsOf /\ Worth(B) = Worth(C) - C[to].balance + w
      /\ B[to] # None /\ B[to].balance = w
      /\ B[to].transaction_count = C[to].transaction_count + 1
      /\ \A a \in Accounts : a # to => B[a] = C[a]
  BY <1>6, <1>7, <1>8, MovedParts
<1> HIDE DEF e, B
<1>10. /\ Brings(e, id) = -n /\ Counts(e, id) = 1 /\ Brings(e, to) = n /\ Counts(e, to) = 1
       /\ Pays(e) = 0 /\ Takes(e) = 0
  BY <1>2, <1>3 DEF Brings, Counts, Pays, Takes
<1>11. In(U) = In(T) /\ Out(U) = Out(T) /\ U \in Seq(Transaction) /\ In(T) \in Nat /\ Out(T) \in Nat
  <2>1. In(U) = In(T) + Pays(e) /\ In(T) \in Nat
    BY <1>1, <1>3, PaidInLonger DEF In
  <2>2. Out(U) = Out(T) + Takes(e) /\ Out(T) \in Nat
    BY <1>1, <1>3, PaidOutLonger DEF Out
  <2> QED  BY <1>1, <1>3, <1>10, <2>1, <2>2
<1>12. ASSUME NEW a \in Accounts  PROVE Booked(B, U, v, a)
  <2>1. CASE a = id
    <3>1. Bank!Wrapped(b) = b
      BY <1>5, WrappedSame
    <3>2. /\ B[id].balance = Bank!Wrapped(A[id].balance + Brings(e, id)) /\ B[id] # None
          /\ B[id].transaction_count = A[id].transaction_count + Counts(e, id)
      BY <1>5, <1>7, <1>9, <1>10, <3>1
    <3>3. Booked(B, U, v, id)
      BY <1>1, <1>3, <3>2, BookedMoved
    <3> QED  BY <2>1, <3>3
  <2>2. CASE a = to
    <3>1. /\ B[to].balance = Bank!Wrapped(A[to].balance + Brings(e, to))
          /\ B[to].transaction_count = A[to].transaction_count + Counts(e, to)
      BY <1>5, <1>8, <1>9, <1>10 DEF w
    <3>2. Booked(B, U, v, to)
      BY <1>1, <1>3, <1>9, <3>1, BookedMoved
    <3> QED  BY <2>2, <3>2
  <2>3. CASE a # id /\ a # to
    <3>1. a \notin {e.from_account, e.to_account} /\ B[a] = A[a]
      BY <1>3, <1>7, <1>9, <2>3
    <3> QED  BY <1>1, <1>3, <3>1, BookedElse
  <2> QED  BY <2>1, <2>2, <2>3
<1>13. Sound(x, B, U, v)
  <2>1. SUFFICES ASSUME x \/ Total(v) + In(U) <= MaxInt
                 PROVE  /\ \A a \in Accounts : B[a] # None => B[a].balance >= 0
                        /\ Worth(B) = Total(v) + In(U) - Out(U)
    BY DEF Sound
  <2>2. Total(v) \in Nat
    BY <1>1, OpeningTotal
  <2>3. /\ \A a \in Accounts : A[a] # None => A[a].balance >= 0
        /\ Worth(A) = Total(v) + In(T) - Out(T)
    BY <1>1, <1>11, <2>1 DEF Sound
  <2>4. A[to].balance + A[id].balance <= Worth(A)
    <3> DEFINE f == Funds(A)
    <3>1. \A a \in Accounts : f[a] \in Nat
      <4>1. \A a \in Accounts : A[a] # None => A[a].balance \in Int
        BY <1>1, FundsTypes
      <4> QED  BY <2>3, <4>1 DEF Funds
    <3>2. f[to] = A[to].balance /\ f[id] = A[id].balance
      BY DEF Funds
    <3> HIDE DEF f
    <3>3. f[to] + f[id] <= Bank!Sum(f, Accounts)
      BY <3>1, AccountsAssumption, SumTwo
    <3> QED  BY <3>2, <3>3 DEF Worth, f
  <2>5. s \in MinInt..MaxInt
    <3>1. CASE x
      BY <1>5, <3>1
    <3>2. CASE ~x
      <4>1. Worth(A) <= MaxInt
        BY <1>4, <1>11, <2>1, <2>2, <2>3, <3>2
      <4>2. s >= 0 /\ s <= Worth(A)
        BY <1>3, <1>4, <1>5, <2>3, <2>4
      <4> QED  BY <1>4, <1>5, <4>1, <4>2
    <3> QED  BY <3>1, <3>2
  <2>6. w = s
    BY <2>5, WrappedSame DEF w
  <2>7. \A a \in Accounts : B[a] # None => B[a].balance >= 0
    <3>1. s >= 0
      BY <1>3, <1>4, <1>5, <2>3
    <3>2. \A a \in Accounts : a = to \/ a = id \/ B[a] = A[a]
      BY <1>7, <1>9
    <3>3. B[id].balance >= 0 /\ B[to].balance >= 0
      BY <1>5, <1>7, <1>9, <2>6, <3>1
    <3> QED  BY <2>3, <3>2, <3>3
  <2>8. Worth(B) = Worth(A)
    BY <1>3, <1>4, <1>5, <1>7, <1>8, <1>9, <2>6
  <2>9. Worth(B) = Total(v) + In(U) - Out(U)
    BY <1>11, <2>3, <2>8
  <2> QED  BY <2>7, <2>9
<1>14. Books(x, B, U, v)
  BY <1>1, <1>9, <1>11, <1>12, <1>13 DEF Books
<1> QED  BY <1>14 DEF B, U, b, e, C, w, s

-----------------------------------------------------------------------------
(* The books through a command                                               *)

\* A command that opens an account, if it is not there yet
OpensAt(c, a) == c.op = "CreateAccount" /\ c.id = a /\ c.amount >= 0

\* What a command c makes of the accounts that are there and what they were opened with
OpeningStep(A, v, c, B, w) ==
  \A a \in Accounts :
    IF OpensAt(c, a) /\ A[a] = None THEN B[a] # None /\ w[a] = c.amount
    ELSE (B[a] = None <=> A[a] = None) /\ w[a] = v[a]

Advances(x, A, v, c, s) ==
  \E w : Books(x, s.accounts, s.transactions, w) /\ OpeningStep(A, v, c, s.accounts, w)

\* A command that opens nothing and leaves the accounts that are there.
LEMMA AdvancesSame ==
  ASSUME NEW x, NEW A, NEW v, NEW c, NEW B, NEW U, NEW n, Books(x, B, U, v),
         \A a \in Accounts : ~(OpensAt(c, a) /\ A[a] = None) /\ (B[a] = None <=> A[a] = None)
  PROVE  Advances(x, A, v, c, BankOf(B, U, n))
<1>1. OpeningStep(A, v, c, B, v)
  BY DEF OpeningStep
<1>2. BankOf(B, U, n).accounts = B /\ BankOf(B, U, n).transactions = U
  BY DEF BankOf
<1> QED  BY <1>1, <1>2 DEF Advances

\* CreateAccount.
LEMMA CreateBooks ==
  ASSUME NEW x \in BOOLEAN, NEW A, NEW T, NEW v, Books(x, A, T, v), NEW n, NEW env, IsEnv(env),
         NEW c, c.op = "CreateAccount", c.amount \in MinInt..MaxInt
  PROVE  Advances(x, A, v, c, Bank!apply_command(BankOf(A, T, n), c, env, x).state)
<1> DEFINE p == Bank!apply_command(BankOf(A, T, n), c, env, x)
           id == c.id
           b == c.amount
<1>1. CASE CanOpen(A, c)
  <2> DEFINE z == Acct(b, 0, env.now, env.now)
             B == [A EXCEPT ![id] = z]
             w == [v EXCEPT ![id] = b]
  <2>1. p = Done(BankOf(B, T, n + 1), z, None)
    BY <1>1, CreateAccountDone
  <2>2. id \in Accounts /\ A[id] = None /\ b \in 0..MaxInt /\ b >= 0 /\ env.now \in Nat /\ b \in MinInt..MaxInt
    BY <1>1, SmrAssumption DEF CanOpen, IsEnv
  <2>3. Books(x, B, T, w)
    <3> HIDE DEF id, b
    <3> QED  BY <2>2, BooksOpen
  <2>4. A \in AccountsOf /\ v \in [Accounts -> Nat] /\ B \in AccountsOf
    BY <2>3 DEF Books
  <2>5. B[id] # None /\ w[id] = b
    <3>1. z # None
      BY <2>2, AcctTyped
    <3> HIDE DEF z
    <3> QED  BY <2>2, <2>4, <3>1 DEF AccountsOf
  <2>6. \A a \in Accounts : a # id => B[a] = A[a] /\ w[a] = v[a]
    BY <2>2, <2>4 DEF AccountsOf
  <2> HIDE DEF B, w, z
  <2>7. OpeningStep(A, v, c, B, w)
    BY <2>2, <2>5, <2>6 DEF OpeningStep, OpensAt
  <2>8. p.state.accounts = B /\ p.state.transactions = T
    BY <2>1 DEF Done, BankOf
  <2> HIDE DEF p
  <2> QED  BY <2>3, <2>7, <2>8 DEF Advances, p
<1>2. CASE ~CanOpen(A, c)
  <2>1. p = Refused(BankOf(A, T, n + 1))
    BY <1>2, CreateAccountDone, Zenon
  <2>2. p.state = BankOf(A, T, n + 1)
    BY <2>1 DEF Refused
  <2>3. \A a \in Accounts : ~(OpensAt(c, a) /\ A[a] = None)
    BY <1>2 DEF CanOpen, OpensAt
  <2> DEFINE k == n + 1
  <2> HIDE DEF k
  <2>4. Advances(x, A, v, c, BankOf(A, T, k))
    BY <2>3, AdvancesSame
  <2> QED  BY <2>2, <2>4 DEF k
<1> QED  BY <1>1, <1>2

\* Deposit and Withdraw.
LEMMA DepositBooks ==
  ASSUME NEW x \in BOOLEAN, NEW A, NEW T, NEW v, Books(x, A, T, v), NEW n, NEW env, IsEnv(env),
         NEW c, c.op = "Deposit", c.amount \in MinInt..MaxInt
  PROVE  Advances(x, A, v, c, Bank!apply_command(BankOf(A, T, n), c, env, x).state)
<1> DEFINE p == Bank!apply_command(BankOf(A, T, n), c, env, x)
           id == c.id
           b == c.amount
           k == n + 1
<1>0. (\A a \in Accounts : ~OpensAt(c, a)) /\ A \in AccountsOf
  BY DEF OpensAt, Books
<1>1. CASE CanDeposit(A, c)
  <2> DEFINE B == Moved(A, id, A[id].balance + b, env)
             U == Append(T, Entry(T, None, id, b, env))
  <2>1. p = Done(BankOf(B, U, k), A[id].balance + b, NextId(T, env))
    BY <1>1, DepositDone
  <2>2. id \in Accounts /\ A[id] # None /\ b \in Int /\ Valid(b) /\ A[id].balance + b \in MinInt..MaxInt
    BY <1>1, SmrAssumption DEF CanDeposit, Held, Valid
  <2> HIDE DEF id, b, k
  <2>3. Books(x, B, U, v)
    BY <2>2, BooksDeposit
  <2>4. \A a \in Accounts : B[a] = None <=> A[a] = None
    BY <1>0, <2>2, MovedParts
  <2>5. p.state = BankOf(B, U, k)
    BY <2>1 DEF Done
  <2> HIDE DEF B, U
  <2>6. Advances(x, A, v, c, BankOf(B, U, k))
    BY <1>0, <2>3, <2>4, AdvancesSame
  <2> QED  BY <2>5, <2>6
<1>2. CASE ~CanDeposit(A, c)
  <2>1. p = Refused(BankOf(A, T, n + 1))
    BY <1>2, DepositDone, Zenon
  <2>2. p.state = BankOf(A, T, n + 1)
    BY <2>1 DEF Refused
  <2> HIDE DEF k
  <2>3. Advances(x, A, v, c, BankOf(A, T, k))
    BY <1>0, AdvancesSame
  <2> QED  BY <2>2, <2>3 DEF k
<1> QED  BY <1>1, <1>2

\* The same for Withdraw.
LEMMA WithdrawBooks ==
  ASSUME NEW x \in BOOLEAN, NEW A, NEW T, NEW v, Books(x, A, T, v), NEW n, NEW env, IsEnv(env),
         NEW c, c.op = "Withdraw", c.amount \in MinInt..MaxInt
  PROVE  Advances(x, A, v, c, Bank!apply_command(BankOf(A, T, n), c, env, x).state)
<1> DEFINE p == Bank!apply_command(BankOf(A, T, n), c, env, x)
           id == c.id
           b == c.amount
           k == n + 1
<1>0. (\A a \in Accounts : ~OpensAt(c, a)) /\ A \in AccountsOf
  BY DEF OpensAt, Books
<1>1. CASE CanWithdraw(A, c)
  <2> DEFINE B == Moved(A, id, A[id].balance - b, env)
             U == Append(T, Entry(T, id, None, b, env))
  <2>1. p = Done(BankOf(B, U, k), A[id].balance - b, NextId(T, env))
    BY <1>1, WithdrawDone DEF Debited
  <2>2. id \in Accounts /\ A[id] # None /\ b \in Int /\ Valid(b) /\ A[id].balance >= b
    BY <1>1, SmrAssumption DEF CanWithdraw, Held, Valid
  <2> HIDE DEF id, b, k
  <2>3. Books(x, B, U, v)
    BY <2>2, BooksWithdraw
  <2>4. \A a \in Accounts : B[a] = None <=> A[a] = None
    <3>1. A[id].balance \in MinInt..MaxInt
      BY <1>0, <2>2, FundsTypes
    <3>2. A[id].balance - b \in MinInt..MaxInt
      BY <2>2, <3>1, SmrAssumption DEF Valid
    <3> QED  BY <1>0, <2>2, <3>2, MovedParts
  <2>5. p.state = BankOf(B, U, k)
    BY <2>1 DEF Done
  <2> HIDE DEF B, U
  <2>6. Advances(x, A, v, c, BankOf(B, U, k))
    BY <1>0, <2>3, <2>4, AdvancesSame
  <2> QED  BY <2>5, <2>6
<1>2. CASE ~CanWithdraw(A, c)
  <2>1. p = Refused(BankOf(A, T, n + 1))
    BY <1>2, WithdrawDone, Zenon
  <2>2. p.state = BankOf(A, T, n + 1)
    BY <2>1 DEF Refused
  <2> HIDE DEF k
  <2>3. Advances(x, A, v, c, BankOf(A, T, k))
    BY <1>0, AdvancesSame
  <2> QED  BY <2>2, <2>3 DEF k
<1> QED  BY <1>1, <1>2

\* Transfer, unless it panics.
LEMMA TransferBooks ==
  ASSUME NEW x \in BOOLEAN, NEW A, NEW T, NEW v, Books(x, A, T, v), NEW n, NEW env, IsEnv(env),
         NEW c, c.op = "Transfer", c.amount \in MinInt..MaxInt,
         Bank!apply_command(BankOf(A, T, n), c, env, x).status = "ok"
  PROVE  Advances(x, A, v, c, Bank!apply_command(BankOf(A, T, n), c, env, x).state)
<1> DEFINE p == Bank!apply_command(BankOf(A, T, n), c, env, x)
           id == c.id
           to == c.to
           b == c.amount
           k == n + 1
<1>0. (\A a \in Accounts : ~OpensAt(c, a)) /\ A \in AccountsOf /\ p.status = "ok"
  BY DEF OpensAt, Books
<1>1. CASE ~CanTransfer(A, c)
  <2>1. p = Refused(BankOf(A, T, n + 1))
    BY <1>1, TransferRefused
  <2>2. p.state = BankOf(A, T, n + 1)
    BY <2>1 DEF Refused
  <2> HIDE DEF k
  <2>3. Advances(x, A, v, c, BankOf(A, T, k))
    BY <1>0, AdvancesSame
  <2> QED  BY <2>2, <2>3 DEF k
<1>2. CASE CanTransfer(A, c) /\ Overflows(A, c) /\ x
  <2>1. p = [state |-> BankOf(Debited(A, c, env), T, n + 1), status |-> "panic", answer |-> None]
    BY <1>2, TransferPanics
  <2> HIDE DEF p
  <2> QED  BY <1>0, <2>1
<1>3. CASE CanTransfer(A, c) /\ ~(Overflows(A, c) /\ x)
  <2> DEFINE C == Moved(A, id, A[id].balance - b, env)
             s == Bank!Wrapped(A[to].balance + b)
             B == Moved(C, to, s, env)
             U == Append(T, Entry(T, id, to, b, env))
  <2>1. p = Done(BankOf(B, U, k), None, NextId(T, env))
    BY <1>3, TransferMoves DEF Debited
  <2>2. /\ id \in Accounts /\ to \in Accounts /\ id # to /\ A[id] # None /\ A[to] # None
        /\ b \in Int /\ Valid(b) /\ A[id].balance >= b
        /\ x => A[to].balance + b \in MinInt..MaxInt
    BY <1>3, SmrAssumption DEF CanTransfer, Overflows, Held, Valid
  <2> HIDE DEF id, b, k, to
  <2>3. Books(x, B, U, v)
    BY <2>2, BooksTransfer
  <2>4. \A a \in Accounts : B[a] = None <=> A[a] = None
    <3>1. A[id].balance \in MinInt..MaxInt /\ A[to].balance \in Int
      BY <1>0, <2>2, FundsTypes
    <3>2. A[id].balance - b \in MinInt..MaxInt
      BY <2>2, <3>1, SmrAssumption DEF Valid
    <3>3. C \in AccountsOf /\ C[id] # None /\ \A a \in Accounts : a # id => C[a] = A[a]
      BY <1>0, <2>2, <3>2, MovedParts
    <3>4. s \in MinInt..MaxInt
      BY <2>2, <3>1, WrappedFits
    <3> HIDE DEF C, s
    <3>5. C[to] # None
      BY <2>2, <3>3
    <3>6. B[to] # None /\ \A a \in Accounts : a # to => B[a] = C[a]
      BY <2>2, <3>3, <3>4, <3>5, MovedParts
    <3> HIDE DEF B
    <3> QED  BY <2>2, <3>3, <3>6
  <2>5. p.state = BankOf(B, U, k)
    BY <2>1 DEF Done
  <2> HIDE DEF B, U
  <2>6. Advances(x, A, v, c, BankOf(B, U, k))
    BY <1>0, <2>3, <2>4, AdvancesSame
  <2> QED  BY <2>5, <2>6
<1> QED  BY <1>1, <1>2, <1>3

\* Every command that does not panic keeps the books.
LEMMA CommandBooks ==
  ASSUME NEW x \in BOOLEAN, NEW A, NEW T, NEW v, Books(x, A, T, v), NEW n, NEW env, IsEnv(env),
         NEW c, IsBankCommand(c), Bank!apply_command(BankOf(A, T, n), c, env, x).status = "ok"
  PROVE  Advances(x, A, v, c, Bank!apply_command(BankOf(A, T, n), c, env, x).state)
<1> DEFINE p == Bank!apply_command(BankOf(A, T, n), c, env, x)
           k == n + 1
<1>1. CASE c.op = "CreateAccount"
  BY <1>1, CreateBooks DEF IsBankCommand
<1>2. CASE c.op = "Deposit"
  BY <1>2, DepositBooks DEF IsBankCommand
<1>3. CASE c.op = "Withdraw"
  BY <1>3, WithdrawBooks DEF IsBankCommand
<1>4. CASE c.op = "Transfer"
  BY <1>4, TransferBooks DEF IsBankCommand
<1>5. CASE c.op \in {"GetBalance", "GetAccount", "ListAccounts", "GetTransactionHistory"}
  <2>1. p.state = BankOf(A, T, k)
    <3>1. CASE c.op = "GetBalance"
      <4>1. p = IF Held(A, c.id) THEN Done(BankOf(A, T, n + 1), A[c.id].balance, None)
                ELSE Refused(BankOf(A, T, n + 1))
        BY <3>1, GetBalanceDone, Zenon
      <4> HIDE DEF p
      <4> QED  BY <4>1 DEF Done, Refused
    <3>2. CASE c.op = "ListAccounts"
      BY <3>2, ListAccountsDone DEF Done
    <3>3. CASE c.op = "GetTransactionHistory"
      <4>1. p = Done(BankOf(A, T, n + 1), Page(A, T, n + 1, c), None)
        BY <3>3, HistoryDone
      <4> HIDE DEF p
      <4> QED  BY <4>1 DEF Done
    <3>4. CASE c.op = "GetAccount"
      <4>1. p = IF Held(A, c.id) THEN Done(BankOf(A, T, n + 1), A[c.id], None)
                ELSE Refused(BankOf(A, T, n + 1))
        BY <3>4, GetAccountDone, Zenon
      <4> HIDE DEF p
      <4> QED  BY <4>1 DEF Done, Refused
    <3> QED  BY <1>5, <3>1, <3>2, <3>3, <3>4
  <2>2. \A a \in Accounts : ~OpensAt(c, a)
    BY <1>5 DEF OpensAt
  <2> HIDE DEF k
  <2>3. Advances(x, A, v, c, BankOf(A, T, k))
    BY <2>2, AdvancesSame
  <2> QED  BY <2>1, <2>3
<1> QED  BY <1>1, <1>2, <1>3, <1>4, <1>5 DEF IsBankCommand, BankOps

-----------------------------------------------------------------------------
(* The books through a batch                                                 *)

\* Places of commands in a log: a batch, and a position in it
NotAfter(p, q)  == p[1] < q[1] \/ (p[1] = q[1] /\ p[2] <= q[2])
Opens(l, D, a)  == {at \in D : OpensAt(l[at[1]][at[2]], a)}

\* An account is there exactly if one of the commands at D opens it, and v tells what the
\* first of them paid in.
OpenedWith(l, D, A, v, a) ==
  IF Opens(l, D, a) = {} THEN A[a] = None
  ELSE /\ A[a] # None
       /\ \E at \in Opens(l, D, a) : /\ v[a] = l[at[1]][at[2]].amount
                                     /\ \A o \in Opens(l, D, a) : NotAfter(at, o)

\* The books of state s, in which the commands at D were carried out
Accounted(x, s, l, D) ==
  \E v : /\ Books(x, s.accounts, s.transactions, v)
         /\ \A a \in Accounts : OpenedWith(l, D, s.accounts, v, a)

\* The places of the first k batches and of j commands of the next one
Places(l, k, j) == (UNION {{i} \X (1..Len(l[i])) : i \in 1..k}) \cup ({k + 1} \X (1..j))

\* One more command, at a place after all others.
LEMMA OpenedNext ==
  ASSUME NEW l, NEW D, NEW q, \A d \in D : NotAfter(d, q), NotAfter(q, q),
         NEW c, l[q[1]][q[2]] = c,
         NEW A, NEW v, NEW B, NEW w, NEW a \in Accounts, OpenedWith(l, D, A, v, a),
         OpeningStep(A, v, c, B, w)
  PROVE  OpenedWith(l, D \cup {q}, B, w, a)
<1> DEFINE O == Opens(l, D, a)
           P == Opens(l, D \cup {q}, a)
<1>1. \A d : d \in P <=> d \in O \/ (d = q /\ OpensAt(c, a))
  BY DEF Opens
<1>2. O \subseteq D
  BY DEF Opens
<1>3. IF O = {} THEN A[a] = None
      ELSE /\ A[a] # None
           /\ \E at \in O : v[a] = l[at[1]][at[2]].amount /\ \A o \in O : NotAfter(at, o)
  BY DEF OpenedWith
<1>4. IF OpensAt(c, a) /\ A[a] = None THEN B[a] # None /\ w[a] = c.amount
      ELSE (B[a] = None <=> A[a] = None) /\ w[a] = v[a]
  BY DEF OpeningStep
<1> SUFFICES IF P = {} THEN B[a] = None
             ELSE /\ B[a] # None
                  /\ \E at \in P : w[a] = l[at[1]][at[2]].amount /\ \A o \in P : NotAfter(at, o)
  BY DEF OpenedWith
<1> HIDE DEF O, P
<1>5. CASE OpensAt(c, a) /\ A[a] = None
  <2>1. O = {} /\ q \in P /\ \A o \in P : o = q
    BY <1>1, <1>3, <1>5
  <2> QED  BY <1>4, <1>5, <2>1
<1>6. CASE A[a] # None
  <2>1. O # {} /\ B[a] # None /\ w[a] = v[a]
    BY <1>3, <1>4, <1>6
  <2>2. PICK at \in O : v[a] = l[at[1]][at[2]].amount /\ \A o \in O : NotAfter(at, o)
    BY <1>3, <2>1
  <2>3. at \in P /\ \A o \in P : NotAfter(at, o)
    BY <1>1, <1>2, <2>2
  <2> QED  BY <2>1, <2>2, <2>3
<1>7. CASE A[a] = None /\ ~OpensAt(c, a)
  <2>1. O = {} /\ P = {} /\ B[a] = None
    BY <1>1, <1>3, <1>4, <1>7
  <2> QED  BY <2>1
<1> QED  BY <1>5, <1>6, <1>7

\* A command at such a place keeps the state accounted for.
LEMMA CommandAccounted ==
  ASSUME NEW x \in BOOLEAN, NEW s \in BankState, NEW l, NEW D, Accounted(x, s, l, D),
         NEW q, \A d \in D : NotAfter(d, q), NotAfter(q, q),
         NEW c, l[q[1]][q[2]] = c, IsBankCommand(c), NEW env, IsEnv(env),
         Bank!apply_command(s, c, env, x).status = "ok"
  PROVE  Accounted(x, Bank!apply_command(s, c, env, x).state, l, D \cup {q})
<1> DEFINE A == s.accounts
           T == s.transactions
           n == s.operation_count
           t == Bank!apply_command(s, c, env, x).state
<1>1. s = BankOf(A, T, n)
  BY BankParts
<1>2. PICK v : Books(x, A, T, v) /\ \A a \in Accounts : OpenedWith(l, D, A, v, a)
  BY DEF Accounted
<1> HIDE DEF A, T, n
<1>3. Advances(x, A, v, c, t)
  BY <1>1, <1>2, CommandBooks
<1> HIDE DEF t
<1>4. PICK w : Books(x, t.accounts, t.transactions, w) /\ OpeningStep(A, v, c, t.accounts, w)
  BY <1>3 DEF Advances
<1>5. \A a \in Accounts : OpenedWith(l, D \cup {q}, t.accounts, w, a)
  BY <1>2, <1>4, OpenedNext
<1>6. Accounted(x, t, l, D \cup {q})
  BY <1>4, <1>5 DEF Accounted
<1> QED  BY <1>6 DEF t

\* The places before the next command.
LEMMA PlacesNext ==
  ASSUME NEW l, NEW k \in Nat, NEW j \in Nat, j > 0
  PROVE  /\ Places(l, k, j) = Places(l, k, j - 1) \cup {<<k + 1, j>>}
         /\ \A d \in Places(l, k, j - 1) : NotAfter(d, <<k + 1, j>>)
         /\ NotAfter(<<k + 1, j>>, <<k + 1, j>>)
<1> DEFINE F == UNION {{i} \X (1..Len(l[i])) : i \in 1..k}
<1>1. \A d \in F : d[1] \in 1..k
  OBVIOUS
<1> HIDE DEF F
<1>2. {k + 1} \X (1..j) = ({k + 1} \X (1..(j - 1))) \cup {<<k + 1, j>>}
  <2>1. 1..j = (1..(j - 1)) \cup {j}
    OBVIOUS
  <2> QED  BY <2>1
<1>3. Places(l, k, j) = Places(l, k, j - 1) \cup {<<k + 1, j>>}
  BY <1>2 DEF Places, F
<1>4. \A d \in F : NotAfter(d, <<k + 1, j>>)
  BY <1>1 DEF NotAfter
<1>5. \A d \in {k + 1} \X (1..(j - 1)) : NotAfter(d, <<k + 1, j>>)
  BY DEF NotAfter
<1>6. \A d \in Places(l, k, j - 1) : NotAfter(d, <<k + 1, j>>)
  BY <1>4, <1>5 DEF Places, F
<1>7. NotAfter(<<k + 1, j>>, <<k + 1, j>>)
  BY DEF NotAfter
<1> QED  BY <1>3, <1>6, <1>7

\* A batch that was worked through is as good as the one before it.
LEMMA PlacesBatch ==
  ASSUME NEW l, NEW k \in Nat
  PROVE  Places(l, k, Len(l[k + 1])) = Places(l, k + 1, 0)
<1>1. 1..(k + 1) = (1..k) \cup {k + 1} /\ 1..0 = {}
  OBVIOUS
<1>2. UNION {{i} \X (1..Len(l[i])) : i \in (1..k) \cup {k + 1}}
        = (UNION {{i} \X (1..Len(l[i])) : i \in 1..k}) \cup ({k + 1} \X (1..Len(l[k + 1])))
  OBVIOUS
<1>3. \A S : S \X {} = {}
  OBVIOUS
<1> QED  BY <1>1, <1>2, <1>3 DEF Places

\* Does the build of machine m check for overflow?
Checks(m, x) == x = (m = "checked_bank")

\* A command on a bank, and whether it ended well.
LEMMA BankCommand ==
  ASSUME NEW m \in Banks, NEW s, Good(m, s), NEW c, IsCommand(m, c), NEW env, IsEnv(env),
         NEW x \in BOOLEAN, Checks(m, x)
  PROVE  /\ s \in BankState /\ IsBankCommand(c)
         /\ apply_command(m, s, c, env) = Bank!apply_command(s, c, env, x)
         /\ Good(m, apply_command(m, s, c, env).state)
         /\ apply_command(m, s, c, env).status \in {"ok", "panic"}
<1> DEFINE p == apply_command(m, s, c, env)
<1>1. m \in Machines /\ m # "counter" /\ m # "store" /\ m # "in_memory" /\ m # "simple"
  BY DEF Banks, Machines
<1>2. s \in BankState /\ IsBankCommand(c)
  BY <1>1 DEF Good, IsCommand, IsBankCommand
<1>3. p = Bank!apply_command(s, c, env, x)
  BY <1>1 DEF apply_command, Checks
<1>4. Good(m, p.state)
  <2>1. Same(m, TRUE, s, s)
    BY <1>1, SameIsRefl
  <2>2. SameResult(m, TRUE, c, p, p)
    BY <1>1, <2>1, CommandSame
  <2> QED  BY <2>2 DEF SameResult
<1>5. p.status \in {"ok", "panic"}
  <2> DEFINE A == s.accounts
             T == s.transactions
             n == s.operation_count
  <2>1. s = BankOf(A, T, n)
    BY <1>2, BankParts
  <2> HIDE DEF A, T, n, p
  <2>2. \/ p = Refused(BankOf(A, T, n + 1)) \/ \E k, data, id : p = Done(k, data, id)
        \/ \E k : p = [state |-> k, status |-> "panic", answer |-> None]
    BY <1>2, <1>3, <2>1, BankOutcome
  <2> QED  BY <2>2 DEF Refused, Done
<1> QED  BY <1>2, <1>3, <1>4, <1>5

\* A batch that does not panic keeps the state accounted for.
LEMMA BatchAccounted ==
  ASSUME NEW m \in Banks, NEW l, NEW k \in Nat, IsBatch(m, l[k + 1]), NEW s, Good(m, s),
         NEW x \in BOOLEAN, Checks(m, x), Accounted(x, s, l, Places(l, k, 0)),
         NEW env, IsEnv(env), apply_commands(m, s, l[k + 1], env).status # "panic"
  PROVE  Accounted(x, apply_commands(m, s, l[k + 1], env).state, l, Places(l, k + 1, 0))
<1> DEFINE b == l[k + 1]
           n == Len(b)
<1>1. n \in Nat /\ \A j \in 1..n : IsCommand(m, b[j])
  BY BatchParts
<1>2. PICK f : IsCourse(f, m, s, b, env, n) /\ apply_commands(m, s, b, env) = f[n]
  BY <1>1, CourseExists
<1>0. b = l[k + 1]
  OBVIOUS
<1> HIDE DEF n, b
<1> DEFINE P(i) == /\ Good(m, f[i].state) /\ f[i].status \in {"ok", "panic"}
                   /\ f[i].status = "ok" => Accounted(x, f[i].state, l, Places(l, k, i))
           S == {i \in 0..n : P(i)}
<1>3. 0 \in S
  <2>1. f[0] = Begun(s)
    BY <1>1, <1>2, CourseBegins
  <2>2. f[0].state = s /\ f[0].status = "ok"
    BY <2>1 DEF Begun
  <2> QED  BY <1>1, <2>2
<1>4. ASSUME NEW i \in 1..n, i - 1 \in S  PROVE i \in S
  <2> DEFINE t == f[i - 1].state
             o == apply_command(m, t, b[i], env)
             q == <<k + 1, i>>
             D == Places(l, k, i - 1)
  <2>1. P(i - 1) /\ IsCommand(m, b[i])
    BY <1>1, <1>4
  <2>2. f[i] = GoneOn(m, f[i - 1], b[i], env)
    BY <1>1, <1>2, CourseGoesOn
  <2>3. CASE f[i - 1].status # "ok"
    <3>1. f[i] = f[i - 1]
      BY <2>2, <2>3 DEF GoneOn
    <3> QED  BY <2>1, <2>3, <3>1
  <2>4. CASE f[i - 1].status = "ok"
    <3>1. f[i].state = o.state /\ f[i].status = o.status
      BY <2>2, <2>4 DEF GoneOn
    <3>2. /\ t \in BankState /\ IsBankCommand(b[i]) /\ x \in BOOLEAN
          /\ o = Bank!apply_command(t, b[i], env, x)
          /\ Good(m, o.state) /\ o.status \in {"ok", "panic"}
      BY <2>1, BankCommand
    <3>3. /\ Places(l, k, i) = D \cup {q} /\ (\A d \in D : NotAfter(d, q)) /\ NotAfter(q, q)
      <4>1. i \in Nat /\ i > 0
        OBVIOUS
      <4> QED  BY <4>1, PlacesNext
    <3>4. l[q[1]][q[2]] = b[i]
      BY <1>0
    <3>5. Accounted(x, t, l, D)
      BY <2>1, <2>4
    <3> DEFINE c == b[i]
    <3>6. l[q[1]][q[2]] = c /\ IsBankCommand(c) /\ o = Bank!apply_command(t, c, env, x)
      BY <3>2, <3>4
    <3> HIDE DEF c, t, o, q, D
    <3>7. ASSUME o.status = "ok"  PROVE Accounted(x, o.state, l, D \cup {q})
      <4>1. Bank!apply_command(t, c, env, x).status = "ok"
        BY <3>6, <3>7
      <4>2. (\A d \in D : NotAfter(d, q)) /\ NotAfter(q, q) /\ t \in BankState /\ x \in BOOLEAN
        BY <3>2, <3>3
      <4>3. Accounted(x, Bank!apply_command(t, c, env, x).state, l, D \cup {q})
        BY <3>5, <3>6, <4>1, <4>2, CommandAccounted
      <4> QED  BY <3>6, <4>3
    <3>8. /\ Good(m, f[i].state) /\ f[i].status \in {"ok", "panic"}
          /\ f[i].status = "ok" => Accounted(x, f[i].state, l, Places(l, k, i))
      BY <3>1, <3>2, <3>3, <3>7, Zenon
    <3>9. P(i) /\ i \in 0..n
      BY <1>1, <3>8
    <3> QED  BY <3>9
  <2> QED  BY <2>3, <2>4
<1>5. 0..n \subseteq S
  <2> HIDE DEF S
  <2> QED  BY <1>1, <1>3, <1>4, UpwardsTo
<1>6. P(n)
  BY <1>1, <1>5
<1>7. Places(l, k, n) = Places(l, k + 1, 0)
  BY PlacesBatch DEF n, b
<1>8. apply_commands(m, s, b, env) = f[n] /\ f[n].status # "panic"
  BY <1>2 DEF b
<1>9. Accounted(x, f[n].state, l, Places(l, k + 1, 0))
  BY <1>6, <1>7, <1>8
<1> QED  BY <1>8, <1>9 DEF b

\* What comes later in the log changes nothing of that.
LEMMA DeliveredAccounted ==
  ASSUME NEW x, NEW s, NEW W, NEW l \in Seq(W), NEW b \in W, NEW k \in 0..Len(l),
         Accounted(x, s, l, Places(l, k, 0))
  PROVE  Accounted(x, s, Append(l, b), Places(Append(l, b), k, 0))
<1> DEFINE g == Append(l, b)
           D == Places(l, k, 0)
<1>1. \A i \in 1..k : g[i] = l[i]
  OBVIOUS
<1> HIDE DEF g
<1>2. Places(g, k, 0) = D
  <2>1. {k + 1} \X (1..0) = {}
    OBVIOUS
  <2>2. UNION {{i} \X (1..Len(g[i])) : i \in 1..k} = UNION {{i} \X (1..Len(l[i])) : i \in 1..k}
    BY <1>1
  <2> QED  BY <2>1, <2>2 DEF Places
<1>3. \A at \in D : at[1] \in 1..k
  <2>1. {k + 1} \X (1..0) = {}
    OBVIOUS
  <2>2. \A at \in UNION {{i} \X (1..Len(l[i])) : i \in 1..k} : at[1] \in 1..k
    OBVIOUS
  <2> QED  BY <2>1, <2>2 DEF Places
<1> HIDE DEF D
<1>4. \A at \in D : g[at[1]][at[2]] = l[at[1]][at[2]]
  BY <1>1, <1>3
<1>5. \A a : Opens(g, D, a) = Opens(l, D, a) /\ Opens(l, D, a) \subseteq D
  BY <1>4 DEF Opens
<1>6. PICK v : /\ Books(x, s.accounts, s.transactions, v)
               /\ \A a \in Accounts : OpenedWith(l, D, s.accounts, v, a)
  BY DEF Accounted, D
<1>7. ASSUME NEW a \in Accounts  PROVE OpenedWith(g, D, s.accounts, v, a)
  <2>1. OpenedWith(l, D, s.accounts, v, a)
    BY <1>6
  <2> QED  BY <1>4, <1>5, <2>1 DEF OpenedWith
<1>8. Accounted(x, s, g, D)
  BY <1>6, <1>7 DEF Accounted
<1> QED  BY <1>2, <1>8 DEF g

\* A new bank has empty books.
LEMMA NewAccounted ==
  ASSUME NEW x, NEW l
  PROVE  Accounted(x, Bank!new, l, Places(l, 0, 0))
<1> DEFINE v == [a \in Accounts |-> 0]
           A == [a \in Accounts |-> None]
           D == Places(l, 0, 0)
<1>1. Bank!new.accounts = A /\ Bank!new.transactions = <<>>
  BY DEF Bank!new
<1>2. D = {}
  <2>1. 1..0 = {}
    OBVIOUS
  <2> QED  BY <2>1 DEF Places
<1>3. /\ A \in AccountsOf /\ <<>> \in Seq(Transaction) /\ v \in [Accounts -> Nat]
      /\ \A a \in Accounts : A[a] = None /\ v[a] = 0
  BY DEF AccountsOf
<1>4. \A w : Bank!Sum(w, {}) = 0
  BY FS_EmptySet, SumUnfolds
<1>5. In(<<>>) = 0 /\ Out(<<>>) = 0 /\ \A a : Net(<<>>, a) = 0 /\ Number(<<>>, a) = 0
  <2>1. DOMAIN <<>> = {}
    OBVIOUS
  <2>2. DOMAIN PaidIn(<<>>) = {} /\ DOMAIN PaidOut(<<>>) = {} /\ \A a : DOMAIN Flow(<<>>, a) = {}
    BY <2>1 DEF PaidIn, PaidOut, Flow
  <2>3. In(<<>>) = 0 /\ Out(<<>>) = 0 /\ \A a : Net(<<>>, a) = 0
    BY <1>4, <2>2 DEF In, Out, Net, Total
  <2>4. \A a : On(<<>>, a) = {}
    BY <2>1 DEF On
  <2>5. \A a : Number(<<>>, a) = 0
    BY <2>4, FS_EmptySet DEF Number
  <2> QED  BY <2>3, <2>5
<1>6. Worth(A) = Total(v) /\ Total(v) \in Nat
  <2>1. \A a \in Accounts : Funds(A)[a] = v[a]
    BY <1>3 DEF Funds
  <2>2. Bank!Sum(Funds(A), Accounts) = Bank!Sum(v, Accounts)
    <3> HIDE DEF A, v
    <3> QED  BY <2>1, AccountsAssumption, SumSame
  <2>3. Total(v) = Bank!Sum(v, Accounts)
    BY DEF Total
  <2>4. Total(v) \in Nat
    <3> HIDE DEF v
    <3> QED  BY <1>3, OpeningTotal
  <2> QED  BY <2>2, <2>3, <2>4 DEF Worth
<1> HIDE DEF A, v, D
<1>7. Sound(x, A, <<>>, v)
  BY <1>3, <1>5, <1>6 DEF Sound
<1>8. \A a \in Accounts : Booked(A, <<>>, v, a)
  BY <1>3, <1>5 DEF Booked
<1>9. Books(x, A, <<>>, v)
  BY <1>3, <1>7, <1>8 DEF Books
<1>10. \A a \in Accounts : OpenedWith(l, D, A, v, a)
  BY <1>2, <1>3 DEF OpenedWith, Opens
<1>11. Accounted(x, Bank!new, l, D)
  BY <1>1, <1>9, <1>10 DEF Accounted
<1> QED  BY <1>11 DEF D

-----------------------------------------------------------------------------
(* The books of every replica                                                *)

\* State s is accounted for by the first k batches of the log.
InOrderBooks(m, s, l, k) ==
  m \in Banks => \E x \in BOOLEAN : Checks(m, x) /\ Accounted(x, s, l, Places(l, k, 0))

LedgerInv ==
  /\ \A r \in Replicas : Up(r) => InOrderBooks(machine, state[r], log, applied[r])
  /\ snapshot # None => InOrderBooks(machine, snapshot.bytes, log, snapshot.applied)

\* A new machine.
LEMMA NewInOrder ==
  ASSUME NEW m, NEW l  PROVE InOrderBooks(m, New(m), l, 0)
<1> SUFFICES ASSUME m \in Banks  PROVE \E x \in BOOLEAN : Checks(m, x) /\ Accounted(x, New(m), l, Places(l, 0, 0))
  BY DEF InOrderBooks
<1>1. New(m) = Bank!new
  BY DEF New, Banks
<1>2. \E x \in BOOLEAN : Checks(m, x)
  BY DEF Checks
<1>3. \A x \in BOOLEAN : Accounted(x, Bank!new, l, Places(l, 0, 0))
  BY NewAccounted
<1> QED  BY <1>1, <1>2, <1>3

\* One more batch in the log.
LEMMA DeliveredInOrder ==
  ASSUME NEW m, NEW s, NEW W, NEW l \in Seq(W), NEW b \in W, NEW k \in 0..Len(l), InOrderBooks(m, s, l, k)
  PROVE  InOrderBooks(m, s, Append(l, b), k)
<1> SUFFICES ASSUME m \in Banks
             PROVE  \E x \in BOOLEAN : Checks(m, x) /\ Accounted(x, s, Append(l, b), Places(Append(l, b), k, 0))
  BY DEF InOrderBooks
<1>1. PICK x \in BOOLEAN : Checks(m, x) /\ Accounted(x, s, l, Places(l, k, 0))
  BY DEF InOrderBooks
<1>2. Accounted(x, s, Append(l, b), Places(Append(l, b), k, 0))
  BY <1>1, DeliveredAccounted
<1> QED  BY <1>1, <1>2

\* The next batch is applied.
LEMMA AppliedInOrder ==
  ASSUME NEW m, NEW s, Good(m, s), NEW l, NEW k \in Nat, InOrderBooks(m, s, l, k), IsBatch(m, l[k + 1]),
         NEW env, IsEnv(env), apply_commands(m, s, l[k + 1], env).status # "panic"
  PROVE  InOrderBooks(m, apply_commands(m, s, l[k + 1], env).state, l, k + 1)
<1> DEFINE t == apply_commands(m, s, l[k + 1], env).state
<1> SUFFICES ASSUME m \in Banks
             PROVE  \E x \in BOOLEAN : Checks(m, x) /\ Accounted(x, t, l, Places(l, k + 1, 0))
  BY DEF InOrderBooks
<1>1. PICK x \in BOOLEAN : Checks(m, x) /\ Accounted(x, s, l, Places(l, k, 0))
  BY DEF InOrderBooks
<1>2. Accounted(x, t, l, Places(l, k + 1, 0))
  BY <1>1, BatchAccounted
<1> HIDE DEF t
<1> QED  BY <1>1, <1>2

\* The first states.
LEMMA LedgerInit == Init => LedgerInv
<1> SUFFICES ASSUME Init  PROVE LedgerInv
  OBVIOUS
<1>1. (\A r \in Replicas : state[r] = New(machine) /\ applied[r] = 0) /\ snapshot = None
  BY DEF Init
<1> QED  BY <1>1, NewInOrder DEF LedgerInv

\* deliver.
LEMMA LedgerDeliver ==
  ASSUME SmrInv, LedgerInv, NEW b \in workload.batches, deliver(b)
  PROVE  LedgerInv'
<1>1. /\ log' = Append(log, b) /\ machine' = machine /\ UNCHANGED <<state, applied, snapshot>>
  BY DEF deliver, machine
<1>2. /\ log \in Seq(workload.batches) /\ \A r \in Replicas : applied[r] \in 0..Len(log)
      /\ snapshot # None => snapshot.applied \in 0..Len(log)
  BY DEF SmrInv, SmrTypes, Following, Kept
<1> DEFINE W == workload.batches
<1> HIDE DEF W
<1>3. log \in Seq(W) /\ b \in W
  BY <1>2 DEF W
<1>4. ASSUME NEW r \in Replicas, Up(r)  PROVE InOrderBooks(machine, state[r], Append(log, b), applied[r])
  BY <1>2, <1>3, <1>4, DeliveredInOrder DEF LedgerInv
<1>5. snapshot # None => InOrderBooks(machine, snapshot.bytes, Append(log, b), snapshot.applied)
  BY <1>2, <1>3, DeliveredInOrder DEF LedgerInv
<1> QED  BY <1>1, <1>4, <1>5 DEF LedgerInv, Up

\* A step that gives one replica another state and place, and leaves the rest.
LEMMA LedgerPlace ==
  ASSUME LedgerInv, NEW r \in Replicas, NEW s, NEW k,
         state' = [state EXCEPT ![r] = s], applied' = [applied EXCEPT ![r] = k],
         SmrTypes, UNCHANGED <<workload, log, snapshot>>,
         s # None => InOrderBooks(machine, s, log, k)
  PROVE  LedgerInv'
<1>1. /\ machine' = machine /\ state'[r] = s /\ applied'[r] = k
      /\ \A q \in Replicas : q # r => state'[q] = state[q] /\ applied'[q] = applied[q]
  BY DEF SmrTypes, machine
<1>2. ASSUME NEW q \in Replicas, state'[q] # None  PROVE InOrderBooks(machine, state'[q], log, applied'[q])
  BY <1>1, <1>2 DEF LedgerInv, Up
<1> QED  BY <1>1, <1>2 DEF LedgerInv, Up

\* apply.
LEMMA LedgerApply ==
  ASSUME SmrInv, LedgerInv, NEW r \in Replicas, apply(r)
  PROVE  LedgerInv'
<1> DEFINE m == machine
           k == applied[r]
<1>0. PICK order \in Orders :
        LET env  == [now |-> now[r], process |-> <<r, restarts>>, order |-> order]
            done == apply_commands(m, state[r], log[k + 1], env)
        IN  state' = [state EXCEPT ![r] = IF done.status = "panic" THEN None ELSE done.state]
  BY Zenon DEF apply
<1> DEFINE env == [now |-> now[r], process |-> <<r, restarts>>, order |-> order]
           done == apply_commands(m, state[r], log[k + 1], env)
           s == IF done.status = "panic" THEN None ELSE done.state
<1>1. /\ Up(r) /\ k < Len(log) /\ state' = [state EXCEPT ![r] = s]
      /\ applied' = [applied EXCEPT ![r] = k + 1] /\ UNCHANGED <<workload, log, snapshot>>
  BY <1>0, Zenon DEF apply
<1>2. /\ SmrTypes /\ k \in Nat /\ Len(log) \in Nat /\ log \in Seq(workload.batches)
      /\ workload \in Workloads /\ IsEnv(env)
  <2>1. /\ SmrTypes /\ k \in Nat /\ Len(log) \in Nat /\ now[r] \in Nat /\ log \in Seq(workload.batches)
        /\ workload \in Workloads /\ restarts \in Nat
    BY DEF SmrInv, SmrTypes
  <2>2. <<r, restarts>> \in Processes
    BY <2>1 DEF Processes
  <2> QED  BY <2>1, <2>2 DEF IsEnv
<1>3. IsBatch(m, log[k + 1])
  <2>1. k + 1 \in 1..Len(log)
    BY <1>1, <1>2
  <2>2. log[k + 1] \in workload.batches
    BY <1>2, <2>1
  <2> QED  BY <1>2, <2>2, BatchesHold DEF machine
<1>4. Good(m, state[r]) /\ InOrderBooks(m, state[r], log, k)
  <2>1. PICK f : Following(f)
    BY DEF SmrInv
  <2> QED  BY <1>1, <2>1 DEF Following, Follows, LedgerInv
<1>5. ASSUME s # None  PROVE InOrderBooks(machine, s, log, k + 1)
  <2>1. done.status # "panic" /\ s = done.state
    BY <1>5
  <2>2. InOrderBooks(m, done.state, log, k + 1)
    <3> HIDE DEF k, m, env
    <3> QED  BY <1>2, <1>3, <1>4, <2>1, AppliedInOrder
  <2> QED  BY <2>1, <2>2
<1> HIDE DEF s, k
<1> QED  BY <1>1, <1>2, <1>5, LedgerPlace

\* The other steps.
LEMMA LedgerRest ==
  ASSUME SmrInv, LedgerInv, NEW r \in Replicas, serialize(r) \/ deserialize(r) \/ restart(r) \/ use_store(r)
  PROVE  LedgerInv'
<1>1. SmrTypes
  BY DEF SmrInv
<1>2. CASE serialize(r)
  <2>1. /\ Up(r) /\ snapshot' = [bytes |-> serialize_state(machine, state[r]), applied |-> applied[r]]
        /\ UNCHANGED <<workload, log, state, applied>> /\ machine' = machine
    BY <1>2 DEF serialize, machine
  <2>2. InOrderBooks(machine, serialize_state(machine, state[r]), log, applied[r])
    <3>1. machine \in Banks => serialize_state(machine, state[r]) = state[r]
      BY DEF serialize_state, Banks, Bank!serialize_state
    <3> QED  BY <2>1, <3>1 DEF LedgerInv, InOrderBooks
  <2>3. snapshot'.bytes = serialize_state(machine, state[r]) /\ snapshot'.applied = applied[r]
    BY <2>1
  <2> QED  BY <2>1, <2>2, <2>3 DEF LedgerInv, Up
<1>3. CASE deserialize(r)
  <2> DEFINE s == deserialize_state(machine, state[r], snapshot.bytes)
             k == snapshot.applied
  <2>1. /\ snapshot # None /\ state' = [state EXCEPT ![r] = s]
        /\ applied' = [applied EXCEPT ![r] = k] /\ UNCHANGED <<workload, log, snapshot>>
    BY <1>3 DEF deserialize
  <2>2. InOrderBooks(machine, s, log, k)
    <3>1. machine \in Banks => s = snapshot.bytes
      BY DEF deserialize_state, Banks, Bank!deserialize_state
    <3> QED  BY <2>1, <3>1 DEF LedgerInv, InOrderBooks
  <2> HIDE DEF s, k
  <2> QED  BY <1>1, <2>1, <2>2, LedgerPlace
<1>4. CASE restart(r)
  <2> DEFINE s == New(machine)
  <2>1. /\ state' = [state EXCEPT ![r] = s]
        /\ applied' = [applied EXCEPT ![r] = 0] /\ UNCHANGED <<workload, log, snapshot>>
    BY <1>4 DEF restart
  <2>2. InOrderBooks(machine, s, log, 0)
    BY NewInOrder
  <2> HIDE DEF s
  <2> QED  BY <1>1, <2>1, <2>2, LedgerPlace
<1>5. CASE use_store(r)
  <2>1. machine \notin Banks /\ machine' = machine
    BY <1>5 DEF use_store, Banks, machine
  <2> QED  BY <2>1 DEF LedgerInv, InOrderBooks
<1> QED  BY <1>2, <1>3, <1>4, <1>5

\* Every step keeps the books.
LEMMA LedgerNext == SmrInv /\ LedgerInv /\ [Next]_vars => LedgerInv'
<1> SUFFICES ASSUME SmrInv, LedgerInv, [Next]_vars  PROVE LedgerInv'
  OBVIOUS
<1>1. CASE UNCHANGED vars
  BY <1>1 DEF vars, LedgerInv, Up, machine
<1>2. ASSUME NEW r \in Replicas, tick(r)  PROVE LedgerInv'
  BY <1>2 DEF tick, LedgerInv, Up, machine
<1> QED  BY <1>1, <1>2, LedgerDeliver, LedgerApply, LedgerRest DEF Next

\* The invariant behind the books of a bank: every state, and the serialized one, can be
\* accounted for, command by command, from the batches it was made by.
THEOREM LedgerCorrect == Spec => []LedgerInv
<1>1. Init => LedgerInv
  BY LedgerInit
<1>2. SmrInv /\ LedgerInv /\ [Next]_vars => LedgerInv'
  BY LedgerNext
<1> QED  BY <1>1, <1>2, SmrCorrect, PTL DEF Spec

\* What Openings and Opening say, in terms of places.
LEMMA OpeningsAre ==
  ASSUME NEW k \in Nat, NEW a
  PROVE  /\ Openings(k, a) = Opens(log, Places(log, k, 0), a)
         /\ \A at \in Openings(k, a) : at[1] \in Nat /\ at[2] \in Nat /\ at = <<at[1], at[2]>>
<1> DEFINE F == UNION {{i} \X (1..Len(log[i])) : i \in 1..k}
<1>1. Places(log, k, 0) = F
  <2>1. {k + 1} \X (1..0) = {}
    OBVIOUS
  <2> QED  BY <2>1 DEF Places
<1>2. \A at \in F : at[1] \in Nat /\ at[2] \in Nat /\ at = <<at[1], at[2]>>
  OBVIOUS
<1> HIDE DEF F
<1>3. Openings(k, a) = {at \in F : LET c == log[at[1]][at[2]] IN
                          c.op = "CreateAccount" /\ c.id = a /\ c.amount >= 0}
  BY DEF Openings, F
<1>4. Openings(k, a) = {at \in F : OpensAt(log[at[1]][at[2]], a)}
  BY <1>3 DEF OpensAt
<1> QED  BY <1>1, <1>2, <1>4 DEF Opens

\* The opening balance of an account is what the first command that opens it pays in.
LEMMA OpeningIs ==
  ASSUME NEW k \in Nat, NEW a, NEW at \in Openings(k, a), \A o \in Openings(k, a) : NotAfter(at, o)
  PROVE  Opening(k, a) = log[at[1]][at[2]].amount
<1> DEFINE first == CHOOSE p \in Openings(k, a) : \A o \in Openings(k, a) :
                      p[1] < o[1] \/ (p[1] = o[1] /\ p[2] <= o[2])
<1>1. Opening(k, a) = log[first[1]][first[2]].amount
  BY DEF Opening
<1>2. \A o \in Openings(k, a) : at[1] < o[1] \/ (at[1] = o[1] /\ at[2] <= o[2])
  BY DEF NotAfter
<1>3. first \in Openings(k, a) /\ \A o \in Openings(k, a) :
        first[1] < o[1] \/ (first[1] = o[1] /\ first[2] <= o[2])
  BY <1>2
<1> HIDE DEF first
<1>4. /\ at[1] \in Nat /\ at[2] \in Nat /\ at = <<at[1], at[2]>>
      /\ first[1] \in Nat /\ first[2] \in Nat /\ first = <<first[1], first[2]>>
  BY <1>3, OpeningsAre
<1>5. first[1] = at[1] /\ first[2] = at[2]
  BY <1>2, <1>3, <1>4
<1> QED  BY <1>1, <1>5

\* The books of replica r, with what its accounts were opened with
BooksOf(r, x, v) ==
  /\ Checks(machine, x) /\ Books(x, state[r].accounts, state[r].transactions, v)
  /\ \A a \in Accounts :
       IF Openings(applied[r], a) = {} THEN state[r].accounts[a] = None /\ v[a] = 0
       ELSE state[r].accounts[a] # None /\ v[a] = Opening(applied[r], a)

\* What the invariant says of one replica.
LEMMA ReplicaBooks ==
  ASSUME SmrInv, LedgerInv, machine \in Banks, NEW r \in Replicas, Up(r)
  PROVE  \E x \in BOOLEAN : \E v : BooksOf(r, x, v)
<1> DEFINE s == state[r]
           k == applied[r]
           D == Places(log, k, 0)
<1>1. PICK x \in BOOLEAN : Checks(machine, x) /\ Accounted(x, s, log, D)
  BY DEF LedgerInv, InOrderBooks
<1>2. PICK v : /\ Books(x, s.accounts, s.transactions, v)
               /\ \A a \in Accounts : OpenedWith(log, D, s.accounts, v, a)
  BY <1>1 DEF Accounted
<1>3. k \in Nat
  BY DEF SmrInv, SmrTypes
<1> HIDE DEF s, k
<1>4. ASSUME NEW a \in Accounts
      PROVE  IF Openings(k, a) = {} THEN s.accounts[a] = None /\ v[a] = 0
             ELSE s.accounts[a] # None /\ v[a] = Opening(k, a)
  <2> DEFINE O == Openings(k, a)
  <2>1. O = Opens(log, D, a)
    BY <1>3, OpeningsAre
  <2>2. IF O = {} THEN s.accounts[a] = None
        ELSE /\ s.accounts[a] # None
             /\ \E at \in O : v[a] = log[at[1]][at[2]].amount /\ \A o \in O : NotAfter(at, o)
    BY <1>2, <2>1 DEF OpenedWith
  <2>3. CASE O = {}
    BY <1>2, <2>2, <2>3 DEF Books, Booked
  <2>4. CASE O # {}
    <3>1. PICK at \in O : v[a] = log[at[1]][at[2]].amount /\ \A o \in O : NotAfter(at, o)
      BY <2>2, <2>4
    <3>2. Opening(k, a) = log[at[1]][at[2]].amount
      BY <1>3, <3>1, OpeningIs
    <3> QED  BY <2>2, <2>4, <3>1, <3>2
  <2> QED  BY <2>3, <2>4
<1> QED  BY <1>1, <1>2, <1>4 DEF s, k, BooksOf

\* The books of every bank balance (Ledger): an account is there exactly if a command
\* opened it, holds what it was opened with and what transactions brought and took, in the
\* machine's integers, and counts them, whatever the replica restarted from.
THEOREM BooksBalance == Spec => []Ledger
<1>1. SmrInv /\ LedgerInv => Ledger
  <2> SUFFICES ASSUME SmrInv, LedgerInv, machine \in Banks, NEW r \in Replicas, Up(r), NEW a \in Accounts
               PROVE  IF Openings(applied[r], a) = {} THEN state[r].accounts[a] = None
                      ELSE /\ state[r].accounts[a].balance
                                = Bank!Wrapped(Opening(applied[r], a) + Total(Flow(state[r].transactions, a)))
                           /\ state[r].accounts[a].transaction_count = Cardinality(On(state[r].transactions, a))
    BY DEF Ledger, Flow, On
  <2>1. PICK x \in BOOLEAN : \E v : BooksOf(r, x, v)
    BY ReplicaBooks
  <2>2. PICK v : BooksOf(r, x, v)
    BY <2>1
  <2>3. Booked(state[r].accounts, state[r].transactions, v, a)
    BY <2>2 DEF BooksOf, Books
  <2> QED  BY <2>2, <2>3 DEF BooksOf, Booked, Net, Number
<1> QED  BY <1>1, SmrCorrect, LedgerCorrect, PTL

\* No account is overdrawn and no money is made or lost (Solvent), as long as what was paid
\* in fits the machine's integers or the build checks for overflow.
THEOREM BanksStaySolvent == Spec => []Solvent
<1>1. SmrInv /\ LedgerInv => Solvent
  <2>1. SUFFICES ASSUME SmrInv, LedgerInv, machine \in Banks, NEW r \in Replicas, Up(r),
                        machine = "checked_bank" \/ Issued(r) <= MaxInt
                 PROVE  /\ \A a \in Accounts : state[r].accounts[a] # None => state[r].accounts[a].balance >= 0
                        /\ Bank!total_value(state[r]) = Issued(r) - Total(PaidOut(state[r].transactions))
    BY DEF Solvent, PaidOut
  <2> DEFINE A == state[r].accounts
             T == state[r].transactions
  <2>0. PICK x \in BOOLEAN : \E v : BooksOf(r, x, v)
    BY <2>1, ReplicaBooks
  <2>2. PICK v : /\ Checks(machine, x) /\ Books(x, A, T, v)
                 /\ \A b \in Accounts :
                      IF Openings(applied[r], b) = {} THEN A[b] = None /\ v[b] = 0
                      ELSE A[b] # None /\ v[b] = Opening(applied[r], b)
    BY <2>0 DEF BooksOf
  <2> DEFINE w == [a \in Accounts |-> IF Openings(applied[r], a) = {} THEN 0 ELSE Opening(applied[r], a)]
  <2>3. w = v
    <3>1. v \in [Accounts -> Nat]
      BY <2>2 DEF Books
    <3>2. \A a \in Accounts : w[a] = v[a]
      BY <2>2
    <3> QED  BY <3>1, <3>2
  <2>4. Issued(r) = Total(w) + In(T)
    BY DEF Issued, In, PaidIn
  <2>5. Issued(r) = Total(v) + In(T)
    BY <2>3, <2>4
  <2>6. x \/ Total(v) + In(T) <= MaxInt
    BY <2>1, <2>2, <2>5 DEF Checks
  <2>7. /\ \A a \in Accounts : A[a] # None => A[a].balance >= 0
        /\ Worth(A) = Total(v) + In(T) - Out(T)
    BY <2>2, <2>6 DEF Books, Sound
  <2>8. Bank!total_value(state[r]) = Worth(A)
    <3> DEFINE f == [a \in Accounts |-> IF Bank!Exists(state[r], a) THEN Bank!Balance(state[r], a) ELSE 0]
    <3>1. f = Funds(A)
      BY DEF Funds, Bank!Exists, Bank!Balance
    <3>2. Bank!total_value(state[r]) = Bank!Sum(f, Accounts)
      BY DEF Bank!total_value
    <3> QED  BY <3>1, <3>2 DEF Worth
  <2>9. Total(PaidOut(T)) = Out(T)
    BY DEF Out
  <2>10. Bank!total_value(state[r]) = Issued(r) - Total(PaidOut(T))
    <3>1. Total(v) \in Nat /\ In(T) \in Nat /\ Out(T) \in Nat
      BY <2>2, OpeningTotal, BooksTypes DEF Books
    <3>2. Worth(A) = Issued(r) - Out(T)
      BY <2>5, <2>7, <3>1
    <3> QED  BY <2>8, <2>9, <3>2
  <2> QED  BY <2>7, <2>10
<1> QED  BY <1>1, SmrCorrect, LedgerCorrect, PTL
=============================================================================
