------------------------- MODULE StakingPoolsProofs -------------------------
(***************************************************************************)
(* StakingPools for any accounts, calls, amounts and periods: the types,   *)
(* that a delay is exact, and that a stake leaves the gas it should.       *)
(***************************************************************************)
EXTENDS StakingPools, TLAPS

USE AccountNames, StakingAccounts, StakingAmounts

(* What a call knows, `t` being the time of now: the value to be sent is   *)
(* within the balance that was read, and a delay that was answered ends,   *)
(* counted from the block that was read, when the stake becomes available, *)
(* or has ended.                                                           *)
Sound(c, t) ==
    /\ c.at # "idle" => c.from \in Accounts
    /\ c.at = "reading" /\ c.gas => c.stake > 0 /\ c.balance < 0
    /\ c.at = "sending" => c.sender \in Accounts /\ c.value > 0 /\ c.value <= c.balance - fee
    /\ c.at \in {"readingTime", "readingBlock", "answered"} =>
          c.read.status \in {"STAKING", "WITHDRAWING"}
    /\ c.at = "readingBlock" => c.now <= t
    /\ c.at = "answered" =>
          /\ c.due - c.late >= availableFrom(c.read)
          /\ c.due - c.late = availableFrom(c.read) \/ c.due - c.late <= t

IInv == StakingTypeOK /\ \A k \in Calls : Sound(call[k], time)

LEMMA NoCallIsSound ==
    /\ NoStake \in StakeRecords
    /\ NoCall \in CallRecords
    /\ \A t \in Nat : Sound(NoCall, t)
<1>1. NoStake \in StakeRecords
  BY DEF NoStake, StakeRecords
<1>2. 0 \in Nat /\ -1 \in Nat \cup {-1}
  OBVIOUS
<1>3. NoCall \in CallRecords
  BY <1>1, <1>2, Zenon DEF NoCall, CallRecords, Pools
<1>4. NoCall.at = "idle"
  BY DEF NoCall
<1>5. QED
  BY <1>1, <1>3, <1>4 DEF Sound

LEMMA InitInv == StakingInit => IInv
<1> SUFFICES ASSUME StakingInit PROVE IInv
  OBVIOUS
<1>1. StakingTypeOK
  BY NoCallIsSound DEF StakingInit, AccountInit, StakingTypeOK
<1>2. QED
  BY <1>1, NoCallIsSound DEF StakingInit, IInv

(* A step that only takes a call to its next await.                        *)
LEMMA ProceedInv ==
    ASSUME IInv, NEW k \in Calls, NEW c \in CallRecords, Sound(c, time), Proceed(k, c)
    PROVE  IInv'
<1>1. StakingTypeOK'
  BY DEF Proceed, StakingTypeOK, IInv
<1>2. ASSUME NEW j \in Calls PROVE Sound(call[j], time)'
  <2>1. call'[j] \in {c, call[j]} /\ time' = time
    BY DEF Proceed, StakingTypeOK, IInv
  <2>2. Sound(call'[j], time')
    BY <2>1 DEF IInv
  <2>3. QED
    BY <2>2 DEF Sound
<1>3. QED
  BY <1>1, <1>2 DEF IInv

(* A step of the chain, which at most ends a call.                         *)
LEMMA ChainInv ==
    ASSUME IInv, StakingTypeOK',
           \A j \in Calls : call'[j] \in {NoCall, call[j]},
           time' >= time
    PROVE  IInv'
<1>1. ASSUME NEW j \in Calls PROVE Sound(call[j], time)'
  <2>1. time \in Nat /\ time' \in Nat /\ call[j] \in CallRecords
        /\ call[j].due \in Nat /\ call[j].late \in Nat /\ call[j].now \in Nat
    BY DEF IInv, StakingTypeOK, CallRecords
  <2>2. Sound(NoCall, time') /\ Sound(call[j], time)
    BY <2>1, NoCallIsSound DEF IInv
  <2>3. Sound(call[j], time')
    BY <2>1, <2>2 DEF Sound
  <2>4. Sound(call'[j], time')
    BY <2>2, <2>3
  <2>5. QED
    BY <2>4 DEF Sound
<1>2. QED
  BY <1>1 DEF IInv

LEMMA TransferTypes ==
    ASSUME StakingTypeOK, NEW a \in Accounts, NEW v \in Int, Transfer(a, v)
    PROVE  balance' \in [Accounts -> Nat]
<1>1. balance[a] \in Nat
  BY DEF StakingTypeOK
<1>2. balance[a] - v - Gas \in Nat
  BY <1>1, SMT DEF Transfer, Gas
<1>3. QED
  BY <1>2 DEF Transfer, StakingTypeOK

(* A transaction that changes a stake.                                     *)
LEMMA SetStakeInv ==
    ASSUME IInv, NEW p \in Pools, NEW a \in Accounts, NEW v \in Int, NEW s \in StakeRecords,
           Transfer(a, v), SetStake(p, a, s),
           \/ UNCHANGED call
           \/ \E k \in Calls : call' = [call EXCEPT ![k] = NoCall]
    PROVE  IInv'
<1>1. balance' \in [Accounts -> Nat]
  BY TransferTypes DEF IInv
<1>2. call' \in [Calls -> CallRecords] /\ \A j \in Calls : call'[j] \in {NoCall, call[j]}
  BY NoCallIsSound DEF IInv, StakingTypeOK
<1>3. /\ account' = account /\ launched' = launched /\ time' = time /\ time \in Nat
      /\ stakes' \in [Pools -> [Accounts -> StakeRecords]]
  BY DEF SetStake, IInv, StakingTypeOK
<1>4. StakingTypeOK'
  BY <1>1, <1>2, <1>3 DEF IInv, StakingTypeOK
<1>5. QED
  BY <1>2, <1>3, <1>4, ChainInv

(* What becomes of a call with one more answer.                            *)
LEMMA ReadInv ==
    ASSUME IInv, NEW c \in CallRecords,
           c.at = "reading", c.from \in Accounts, c.gas => c.stake > 0
    PROVE  Read(c) \in CallRecords /\ Sound(Read(c), time)
<1>1. CASE ~c.gas \/ c.balance < 0
  BY <1>1 DEF Read, Sound
<1>2. CASE ~(~c.gas \/ c.balance < 0) /\ maxStake(c) <= 0
  BY <1>2, NoCallIsSound DEF Read, IInv, StakingTypeOK
<1>3. CASE ~(~c.gas \/ c.balance < 0) /\ ~(maxStake(c) <= 0)
  <2> DEFINE r == [c EXCEPT !.at = "sending", !.sender = account, !.value = stakeValue(c)]
  <2>1. c.balance \in Nat /\ c.stake \in Nat /\ c.stake > 0 /\ account \in Accounts
    BY <1>3, SMT DEF CallRecords, IInv, StakingTypeOK
  <2>2. stakeValue(c) \in Nat /\ stakeValue(c) > 0 /\ stakeValue(c) <= c.balance - fee
    BY <1>3, <2>1, SMT DEF stakeValue, maxStake, fee, Gas
  <2>3. r \in CallRecords /\ r.at = "sending" /\ r.sender = account /\ r.from = c.from
        /\ r.value = stakeValue(c) /\ r.balance = c.balance
    BY <2>1, <2>2 DEF CallRecords
  <2>4. Sound(r, time)
    BY <2>1, <2>2, <2>3 DEF Sound
  <2>5. QED
    BY <1>3, <2>3, <2>4 DEF Read
<1>4. QED
  BY <1>1, <1>2, <1>3

LEMMA StepInv == IInv /\ [StakingNext]_stakingVars => IInv'
<1> SUFFICES ASSUME IInv, [StakingNext]_stakingVars PROVE IInv'
  OBVIOUS
<1>0. /\ account \in Accounts /\ time \in Nat
      /\ \A k \in Calls : call[k] \in CallRecords /\ Sound(call[k], time)
      /\ \A p \in Pools, a \in Accounts : stakes[p][a] \in StakeRecords
      /\ \A a \in Accounts : balance[a] \in Nat
      /\ "launched" \in Pools /\ "standing" \in Pools
  BY DEF IInv, StakingTypeOK, Pools
<1>1. ASSUME NEW k \in Calls, CallStep(k) PROVE IInv'
  <2> DEFINE c == call[k]
  <2>0. /\ c \in CallRecords /\ Sound(c, time)
        /\ c.from \in Accounts => balance[c.from] \in Nat
    BY <1>0
  <2>1. ASSUME NEW p \in Pools, NEW s \in Stakes, putStake(k, p, s) PROVE IInv'
    <3> DEFINE d == [NoCall EXCEPT !.at = "reading", !.pool = p, !.stake = s, !.from = account]
    <3>1. d \in CallRecords
      BY <1>0, NoCallIsSound DEF CallRecords
    <3>2. d.at = "reading" /\ d.gas = FALSE /\ d.from = account
      BY DEF NoCall
    <3>3. Sound(d, time)
      BY <1>0, <3>2 DEF Sound
    <3>4. QED
      BY <2>1, <3>1, <3>3, ProceedInv DEF putStake
  <2>2. CASE BalanceRead(k)
    <3> DEFINE d == [c EXCEPT !.balance = balance[c.from]]
    <3>1. c.at = "reading" /\ c.from \in Accounts /\ (c.gas => c.stake > 0)
      BY <2>0, <2>2 DEF BalanceRead, Sound
    <3>2. d \in CallRecords /\ d.at = c.at /\ d.from = c.from /\ d.stake = c.stake
          /\ d.gas = c.gas
      BY <2>0, <3>1 DEF CallRecords
    <3>3. Read(d) \in CallRecords /\ Sound(Read(d), time)
      BY <3>1, <3>2, ReadInv
    <3>4. QED
      BY <2>2, <3>3, ProceedInv DEF BalanceRead
  <2>3. CASE GasEstimated(k)
    <3> DEFINE d == [c EXCEPT !.gas = TRUE]
    <3>1. c.at = "reading" /\ c.from \in Accounts /\ c.stake > 0
      BY <2>0, <2>3 DEF GasEstimated, Sound, AcceptsStake
    <3>2. d \in CallRecords /\ d.at = c.at /\ d.from = c.from /\ d.stake = c.stake
      BY <2>0 DEF CallRecords
    <3>3. Read(d) \in CallRecords /\ Sound(Read(d), time)
      BY <3>1, <3>2, ReadInv
    <3>4. QED
      BY <2>3, <3>3, ProceedInv DEF GasEstimated
  <2>4. CASE StakePut(k)
    <3> DEFINE s == stakes[c.pool][c.sender]
               t == [s EXCEPT !.status = "STAKING", !.depositStart = time,
                              !.amount = @ + c.value]
    <3>1. c.sender \in Accounts /\ c.pool \in Pools /\ c.value \in Nat
      BY <2>0, <2>4 DEF StakePut, Sound, CallRecords
    <3>2. s \in StakeRecords /\ s.amount + c.value \in Nat
      BY <1>0, <3>1 DEF StakeRecords
    <3>3. t \in StakeRecords
      BY <1>0, <3>2 DEF StakeRecords
    <3>4. /\ Transfer(c.sender, c.value)
          /\ SetStake(c.pool, c.sender, t)
          /\ call' = [call EXCEPT ![k] = NoCall]
      BY <2>4 DEF StakePut
    <3>5. c.value \in Int
      BY <3>1
    <3> HIDE DEF t
    <3>6. QED
      BY <3>1, <3>3, <3>4, <3>5, SetStakeInv
  <2>5. CASE CallFails(k)
    BY <1>0, <2>5, NoCallIsSound, ProceedInv DEF CallFails
  <2>6. ASSUME NEW w \in {"readingStart", "readingEnd"},
               Proceed(k, [NoCall EXCEPT !.at = w, !.from = account])
        PROVE  IInv'
    <3> DEFINE d == [NoCall EXCEPT !.at = w, !.from = account]
    <3>1. d \in CallRecords /\ d.at = w /\ d.from = account
      BY <1>0, NoCallIsSound DEF CallRecords
    <3>2. Sound(d, time)
      BY <1>0, <3>1 DEF Sound
    <3>3. QED
      BY <2>6, <3>1, <3>2, ProceedInv
  <2>7. CASE StakeRead(k)
    <3> DEFINE d == [c EXCEPT !.at = "readingTime", !.read = getStake(k)]
    <3>1. c.from \in Accounts
      BY <2>0, <2>7 DEF StakeRead, Sound
    <3>2. getStake(k) \in StakeRecords /\ getStake(k).status \in {"STAKING", "WITHDRAWING"}
      BY <1>0, <2>7, <3>1 DEF StakeRead, getStake
    <3>3. d \in CallRecords /\ d.at = "readingTime" /\ d.from = c.from /\ d.read = getStake(k)
      BY <2>0, <3>2 DEF CallRecords
    <3>4. Sound(d, time)
      BY <3>1, <3>2, <3>3 DEF Sound
    <3>5. QED
      BY <2>7, <3>3, <3>4, ProceedInv DEF StakeRead
  <2>8. CASE BlockNumberRead(k)
    <3> DEFINE d == [c EXCEPT !.at = "readingBlock", !.now = time]
    <3>1. c.from \in Accounts /\ c.read.status \in {"STAKING", "WITHDRAWING"}
      BY <2>0, <2>8 DEF BlockNumberRead, Sound
    <3>2. d \in CallRecords /\ d.at = "readingBlock" /\ d.from = c.from /\ d.read = c.read
          /\ d.now = time
      BY <1>0, <2>0 DEF CallRecords
    <3>3. Sound(d, time)
      BY <1>0, <3>1, <3>2 DEF Sound
    <3>4. QED
      BY <2>8, <3>2, <3>3, ProceedInv DEF BlockNumberRead
  <2>9. CASE DelayAnswered(k)
    <3> DEFINE e == time + delay(c.read, c.now)
               l == time - c.now
               d == [c EXCEPT !.at = "answered", !.now = 0, !.late = l, !.due = e]
    <3>1. /\ c.from \in Accounts /\ c.now \in Nat /\ c.now <= time
          /\ c.read.status \in {"STAKING", "WITHDRAWING"} /\ c.read \in StakeRecords
      BY <2>0, <2>9 DEF DelayAnswered, Sound, CallRecords
    <3>2. availableFrom(c.read) \in Nat
      BY <3>1, SMT DEF availableFrom, StakeRecords
    <3>3. e \in Nat /\ l \in Nat /\ e - l >= availableFrom(c.read)
          /\ (e - l = availableFrom(c.read) \/ e - l <= time)
      BY <1>0, <3>1, <3>2, SMT DEF delay
    <3> HIDE DEF e, l
    <3>4. d \in CallRecords /\ d.at = "answered" /\ d.from = c.from /\ d.read = c.read
          /\ d.due = e /\ d.late = l
      BY <2>0, <3>3 DEF CallRecords
    <3>5. Sound(d, time)
      BY <3>1, <3>3, <3>4 DEF Sound
    <3>6. Proceed(k, d)
      BY <2>9 DEF DelayAnswered, e, l
    <3>7. QED
      BY <3>4, <3>5, <3>6, ProceedInv
  <2>10. QED
    BY <1>1, <2>1, <2>2, <2>3, <2>4, <2>5, <2>6, <2>7, <2>8, <2>9
       DEF CallStep, requestWithdrawDelay, withdrawalDelay
<1>2. CASE launchPool
  <2>1. balance' \in [Accounts -> Nat]
    BY <1>0, <1>2, TransferTypes DEF launchPool, IInv
  <2>2. StakingTypeOK'
    BY <1>2, <2>1 DEF launchPool, StakingTypeOK, IInv
  <2>3. QED
    BY <1>0, <1>2, <2>2, ChainInv DEF launchPool
<1>3. CASE requestWithdraw
  <2> DEFINE s == stakes["launched"][account]
  <2>1. [s EXCEPT !.status = "WITHDRAWING", !.depositEnd = time] \in StakeRecords
    BY <1>0 DEF StakeRecords
  <2>2. QED
    BY <1>0, <1>3, <2>1, SetStakeInv DEF requestWithdraw
<1>4. ASSUME NEW p \in Pools, withdraw(p) PROVE IInv'
  <2>1. - stakes[p][account].amount \in Int
    BY <1>0 DEF StakeRecords
  <2>2. QED
    BY <1>0, <1>4, <2>1, NoCallIsSound, SetStakeInv DEF withdraw
<1>5. ASSUME NEW v \in Stakes, partialWithdraw(v) PROVE IInv'
  <2> DEFINE s == stakes["standing"][account]
  <2>1. s \in StakeRecords /\ s.amount - v \in Nat /\ - v \in Int
    BY <1>0, <1>5 DEF StakeRecords, partialWithdraw
  <2>2. [s EXCEPT !.amount = @ - v] \in StakeRecords
    BY <2>1 DEF StakeRecords
  <2>3. QED
    BY <1>0, <1>5, <2>1, <2>2, SetStakeInv DEF partialWithdraw
<1>6. CASE Connect
  <2>1. StakingTypeOK'
    BY <1>6 DEF Connect, ChangeAccount, StakingTypeOK, IInv
  <2>2. QED
    BY <1>0, <1>6, <2>1, ChainInv DEF Connect
<1>7. CASE NewBlock
  <2>1. StakingTypeOK'
    BY <1>7 DEF NewBlock, StakingTypeOK, IInv
  <2>2. QED
    BY <1>0, <1>7, <2>1, ChainInv DEF NewBlock
<1>8. CASE UNCHANGED stakingVars
  <2>1. StakingTypeOK'
    BY <1>8 DEF stakingVars, StakingTypeOK, IInv
  <2>2. QED
    BY <1>0, <1>8, <2>1, ChainInv DEF stakingVars
<1>9. QED
  BY <1>1, <1>2, <1>3, <1>4, <1>5, <1>6, <1>7, <1>8 DEF StakingNext

LEMMA Invariance == StakingSpec => []IInv
BY InitInv, StepInv, PTL DEF StakingSpec

(* Every variable keeps its type: in particular no account's balance and   *)
(* no stake ever becomes negative.                                         *)
THEOREM TypeCorrect == StakingSpec => []StakingTypeOK
<1>1. IInv => StakingTypeOK
  BY DEF IInv
<1>2. QED
  BY <1>1, Invariance, PTL

(* Whoever waits for as long as the answer says is not refused, and could  *)
(* have come earlier by no more than the block was late: for any periods   *)
(* and any number of blocks between the reads and the answer.              *)
THEOREM DelaysAreExact == StakingSpec => []DelayIsExact
<1>1. IInv => DelayIsExact
  <2> SUFFICES ASSUME IInv, NEW k \in Calls, call[k].at = "answered",
                      call[k].read = stakes["launched"][call[k].from]
               PROVE  /\ call[k].read.status = "STAKING" =>
                             (AcceptsRequestWithdraw(call[k].from) <=>
                                 call[k].due - call[k].late <= time)
                      /\ call[k].read.status = "WITHDRAWING" =>
                             (AcceptsWithdraw(call[k].from) <=>
                                 call[k].due - call[k].late <= time)
    BY DEF DelayIsExact
  <2> DEFINE c == call[k]
  <2>1. c \in CallRecords /\ Sound(c, time) /\ time \in Nat
    BY DEF IInv, StakingTypeOK
  <2>2. /\ c.due \in Nat /\ c.late \in Nat
        /\ c.read.depositStart \in Nat /\ c.read.depositEnd \in Nat
    BY <2>1 DEF CallRecords, StakeRecords
  <2>3. /\ c.due - c.late >= availableFrom(c.read)
        /\ c.due - c.late = availableFrom(c.read) \/ c.due - c.late <= time
    BY <2>1 DEF Sound
  <2>4. QED
    BY <2>1, <2>2, <2>3, SMT DEF availableFrom, AcceptsRequestWithdraw, AcceptsWithdraw
<1>2. QED
  BY <1>1, Invariance, PTL

(* However much is asked for, and whatever happens between the reads and   *)
(* the transaction, a stake leaves the gas of another transaction unless   *)
(* the account or its balance is no longer the one that was read.          *)
THEOREM StakesLeaveGas == StakingSpec => []StakeLeavesGas
<1>1. IInv => StakeLeavesGas
  <2> SUFFICES ASSUME IInv, NEW k \in Calls, call[k].at = "sending",
                      call[k].sender = call[k].from,
                      balance[call[k].from] >= call[k].balance
               PROVE  call[k].value > 0 /\ balance[call[k].from] - call[k].value - Gas >= Gas
    BY DEF StakeLeavesGas
  <2>1. /\ call[k] \in CallRecords
        /\ call[k].sender \in Accounts
        /\ call[k].value > 0 /\ call[k].value <= call[k].balance - fee
    BY DEF IInv, StakingTypeOK, Sound
  <2>2. /\ call[k].value \in Nat /\ call[k].balance \in Int
        /\ balance[call[k].from] \in Nat
    BY <2>1 DEF IInv, StakingTypeOK, CallRecords
  <2>3. QED
    BY <2>1, <2>2, SMT DEF fee, Gas
<1>2. QED
  BY <1>1, Invariance, PTL
=============================================================================
