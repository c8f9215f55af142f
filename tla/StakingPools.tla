---------------------------- MODULE StakingPools ----------------------------
(***************************************************************************)
(* Staking: StakingService and its StakingPool (staking.service.ts), for   *)
(* the pools that organizations launch, and StakingPoolService             *)
(* (staking-pool.service.ts), for the one that is always there.            *)
(*                                                                         *)
(* An operation reads the pool, the balance and the price of gas, for the  *)
(* account it started with, and then sends a transaction for the account   *)
(* that the signer has by then.  Operations overlap, and the account may   *)
(* change between any two of these.  The pools are contracts and external: *)
(* what they accept is what e2e/staking.pool.e2e.ts expects of them.       *)
(*                                                                         *)
(* Amounts are in units of the gas that one transaction costs, times in    *)
(* blocks.  Rewards, and the roles that may stake, are left out.           *)
(***************************************************************************)
EXTENDS Account, Integers

CONSTANTS
    OrgOwner,           \* the account that owns the organization
    Funds,              \* what each account has at first
    Stakes,             \* what putStake() is asked for: bounds it
    Principal,          \* what whoever launches a pool puts in
    MinStakingPeriod,
    WithdrawDelay,
    MaxTime             \* bounds the blocks

Pools == {"launched", "standing"}

Gas == 1                \* what a transaction costs

ASSUME StakingAccounts == OrgOwner \in Accounts
ASSUME StakingAmounts ==
    /\ Funds \in Nat /\ Principal \in Nat /\ Stakes \subseteq Nat
    /\ MinStakingPeriod \in Nat /\ WithdrawDelay \in Nat /\ MaxTime \in Nat

VARIABLES
    call,               \* the operations under way, and the answers they gave
    balance,            \* chain: what each account has
    stakes,             \* pools: the stake of each account in each pool
    launched,           \* factory: the organization's pool has been launched
    time                \* chain: the timestamp of the last block

stakingVars == <<account, call, balance, stakes, launched, time>>

NoStake == [status |-> "NONSTAKING", amount |-> 0, depositStart |-> 0, depositEnd |-> 0]

(* The local variables of an operation.  When it has answered, `due` is    *)
(* the time at which a caller who waits for as long as the answer says has *)
(* waited, and `late` how old the block was that it was computed from      *)
(* (history).                                                              *)
NoCall == [at |-> "idle", pool |-> "standing", stake |-> 0, from |-> Nobody, gas |-> FALSE,
           balance |-> -1, sender |-> Nobody, value |-> 0, read |-> NoStake,
           now |-> 0, due |-> 0, late |-> 0]

StakingInit ==
    /\ AccountInit
    /\ call = [k \in Calls |-> NoCall]
    /\ balance = [a \in Accounts |-> Funds]
    /\ stakes = [p \in Pools |-> [a \in Accounts |-> NoStake]]
    /\ launched = FALSE
    /\ time = 0

Free(k) == call[k].at \in {"idle", "answered"}

Proceed(k, c) ==
    /\ call' = [call EXCEPT ![k] = c]
    /\ UNCHANGED <<account, balance, stakes, launched, time>>

----------------------------------------------------------------------------
(* The contracts: what they accept, and what it does.                      *)

AcceptsStake(p, a, value) ==
    /\ value > 0
    /\ p = "launched" => launched /\ stakes[p][a].status = "NONSTAKING"

AcceptsRequestWithdraw(a) ==
    LET s == stakes["launched"][a]
    IN  s.status = "STAKING" /\ s.depositStart + MinStakingPeriod <= time

AcceptsWithdraw(a) ==
    LET s == stakes["launched"][a]
    IN  s.status = "WITHDRAWING" /\ s.depositEnd + WithdrawDelay <= time

(* A transaction of `a` pays `value` (gets it, if negative) and the gas.   *)
Transfer(a, value) ==
    /\ balance[a] >= value + Gas /\ balance[a] >= Gas
    /\ balance' = [balance EXCEPT ![a] = @ - value - Gas]

SetStake(p, a, s) ==
    /\ stakes' = [stakes EXCEPT ![p][a] = s]
    /\ UNCHANGED <<account, launched, time>>

----------------------------------------------------------------------------
(* One transaction each, of the account of now.  Where no value depends on *)
(* what was read, sending and mining are one action.                       *)

launchPool ==
    /\ ~launched /\ account = OrgOwner
    /\ Transfer(account, Principal)
    /\ launched' = TRUE
    /\ UNCHANGED <<account, call, stakes, time>>

requestWithdraw ==
    /\ AcceptsRequestWithdraw(account)
    /\ Transfer(account, 0)
    /\ SetStake("launched", account, [stakes["launched"][account] EXCEPT
                                         !.status = "WITHDRAWING", !.depositEnd = time])
    /\ UNCHANGED call

(* Also StakingPoolService.withdraw(), which takes all there is.           *)
withdraw(p) ==
    /\ p = "launched" => AcceptsWithdraw(account)
    /\ p = "standing" => stakes[p][account].amount > 0
    /\ Transfer(account, - stakes[p][account].amount)
    /\ SetStake(p, account, NoStake)
    /\ UNCHANGED call

partialWithdraw(value) ==
    LET s == stakes["standing"][account]
    IN  /\ 0 < value /\ value < s.amount
        /\ Transfer(account, - value)
        /\ SetStake("standing", account, [s EXCEPT !.amount = @ - value])
        /\ UNCHANGED call

----------------------------------------------------------------------------
(* putStake().  StakingPool asks for balance and gas together, and either  *)
(* may answer first; StakingPoolService asks for the balance first.        *)

putStake(k, p, stake) ==
    /\ Free(k)
    /\ p = "launched" => launched               \* or getPool() returned null
    /\ Proceed(k, [NoCall EXCEPT !.at = "reading", !.pool = p, !.stake = stake,
                                 !.from = account])

singleFee == Gas                                \* mutant: fee not doubled

fee == 2 * Gas

maxStake(c) == c.balance - fee

stakeValue(c) == IF c.stake < maxStake(c) THEN c.stake ELSE maxStake(c)

ReadUnchecked(c) ==                             \* mutant: stakes although nothing is left to
    IF ~c.gas \/ c.balance < 0 THEN c
    ELSE [c EXCEPT !.at = "sending", !.sender = account, !.value = stakeValue(c)]

(* With the last answer the value is computed and, unless nothing is left  *)
(* to stake, sent in the same turn.                                        *)
Read(c) ==
    IF ~c.gas \/ c.balance < 0 THEN c
    ELSE IF maxStake(c) <= 0 THEN NoCall
    ELSE [c EXCEPT !.at = "sending", !.sender = account, !.value = stakeValue(c)]

BalanceRead(k) ==
    /\ call[k].at = "reading" /\ call[k].balance < 0
    /\ Proceed(k, Read([call[k] EXCEPT !.balance = balance[call[k].from]]))

(* The estimate runs the transaction as it was built.                      *)
GasEstimated(k) ==
    /\ call[k].at = "reading" /\ ~call[k].gas
    /\ call[k].pool = "standing" => call[k].balance >= 0
    /\ AcceptsStake(call[k].pool, call[k].from, call[k].stake)
    /\ Proceed(k, Read([call[k] EXCEPT !.gas = TRUE]))

StakePut(k) ==
    LET c == call[k]
        s == stakes[c.pool][c.sender]
    IN  /\ c.at = "sending"
        /\ AcceptsStake(c.pool, c.sender, c.value)
        /\ Transfer(c.sender, c.value)
        /\ SetStake(c.pool, c.sender, [s EXCEPT !.status = "STAKING", !.depositStart = time,
                                                !.amount = @ + c.value])
        /\ call' = [call EXCEPT ![k] = NoCall]

(* Whatever is awaited fails, or the transaction reverts.                  *)
CallFails(k) == ~Free(k) /\ Proceed(k, NoCall)

----------------------------------------------------------------------------
(* requestWithdrawDelay() and withdrawalDelay(): the stake is read, then   *)
(* the period, then the number of the last block, then that block.         *)

requestWithdrawDelay(k) ==
    /\ Free(k) /\ launched
    /\ Proceed(k, [NoCall EXCEPT !.at = "readingStart", !.from = account])

withdrawalDelay(k) ==
    /\ Free(k) /\ launched
    /\ Proceed(k, [NoCall EXCEPT !.at = "readingEnd", !.from = account])

getStake(k) == stakes["launched"][call[k].from]

StakeRead(k) ==
    \/ /\ call[k].at = "readingStart" /\ getStake(k).status = "STAKING"
       /\ Proceed(k, [call[k] EXCEPT !.at = "readingTime", !.read = getStake(k)])
    \/ /\ call[k].at = "readingEnd" /\ getStake(k).status = "WITHDRAWING"
       /\ Proceed(k, [call[k] EXCEPT !.at = "readingTime", !.read = getStake(k)])

availableFromStart(s) ==                        \* mutant: the other date of the stake
    IF s.status = "STAKING" THEN s.depositStart + MinStakingPeriod
                            ELSE s.depositStart + WithdrawDelay

availableFrom(s) ==
    IF s.status = "STAKING" THEN s.depositStart + MinStakingPeriod
                            ELSE s.depositEnd + WithdrawDelay

delay(s, now) == IF availableFrom(s) <= now THEN 0 ELSE availableFrom(s) - now

(* now(): which block is the last is settled before the block is fetched.  *)
BlockNumberRead(k) ==
    /\ call[k].at = "readingTime"
    /\ Proceed(k, [call[k] EXCEPT !.at = "readingBlock", !.now = time])

DelayAnswered(k) ==
    /\ call[k].at = "readingBlock"
    /\ Proceed(k, [call[k] EXCEPT !.at = "answered", !.now = 0, !.late = time - call[k].now,
                                  !.due = time + delay(call[k].read, call[k].now)])

----------------------------------------------------------------------------
Connect ==
    /\ ChangeAccount
    /\ UNCHANGED <<call, balance, stakes, launched, time>>

NewBlock ==
    /\ time < MaxTime
    /\ time' = time + 1
    /\ UNCHANGED <<account, call, balance, stakes, launched>>

CallStep(k) ==
    \/ \E p \in Pools, s \in Stakes : putStake(k, p, s)
    \/ BalanceRead(k) \/ GasEstimated(k) \/ StakePut(k) \/ CallFails(k)
    \/ requestWithdrawDelay(k) \/ withdrawalDelay(k) \/ StakeRead(k)
    \/ BlockNumberRead(k) \/ DelayAnswered(k)

StakingNext ==
    \/ \E k \in Calls : CallStep(k)
    \/ launchPool \/ requestWithdraw
    \/ \E p \in Pools : withdraw(p)
    \/ \E s \in Stakes : partialWithdraw(s)
    \/ Connect \/ NewBlock

StakingSpec == StakingInit /\ [][StakingNext]_stakingVars

----------------------------------------------------------------------------
StakeRecords == [status : {"NONSTAKING", "STAKING", "WITHDRAWING"}, amount : Nat,
                 depositStart : Nat, depositEnd : Nat]

CallRecords ==
    [at : {"idle", "reading", "sending", "readingStart", "readingEnd", "readingTime",
           "readingBlock", "answered"},
     pool : Pools, stake : Nat, from : Accounts \cup {Nobody}, gas : BOOLEAN,
     balance : Nat \cup {-1}, sender : Accounts \cup {Nobody}, value : Nat,
     read : StakeRecords, now : Nat, due : Nat, late : Nat]

StakingTypeOK ==
    /\ account \in Accounts
    /\ call \in [Calls -> CallRecords]
    /\ balance \in [Accounts -> Nat]
    /\ stakes \in [Pools -> [Accounts -> StakeRecords]]
    /\ launched \in BOOLEAN
    /\ time \in Nat

(* As long as the stake is the one that was read, a caller who has waited  *)
(* for as long as the answer says is not refused by the contract, and      *)
(* could have been served earlier by no more than the block was late that  *)
(* the delay was computed from.                                            *)
DelayIsExact ==
    \A k \in Calls :
        LET c == call[k]
        IN  c.at = "answered" /\ c.read = stakes["launched"][c.from] =>
               /\ c.read.status = "STAKING" =>
                     (AcceptsRequestWithdraw(c.from) <=> c.due - c.late <= time)
               /\ c.read.status = "WITHDRAWING" =>
                     (AcceptsWithdraw(c.from) <=> c.due - c.late <= time)

(* However much is asked for, the stake leaves the gas of one transaction  *)
(* besides its own, unless another operation has spent from the account    *)
(* since its balance was read, or the account has changed.                 *)
StakeLeavesGas ==
    \A k \in Calls :
        LET c == call[k]
        IN  c.at = "sending" /\ c.sender = c.from /\ balance[c.from] >= c.balance =>
               c.value > 0 /\ balance[c.from] - c.value - Gas >= Gas
=============================================================================
