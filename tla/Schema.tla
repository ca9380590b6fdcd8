------------------------------- MODULE Schema -------------------------------
(***************************************************************************)
(* What the modules of the ledger share: the constants, the fixed accounts *)
(* and the rows of the tables in migrations/00001_initial.sql.             *)
(***************************************************************************)
EXTENDS Integers, FiniteSets, Functions

CONSTANTS
    UserAccount,      \* ids uuid.New() may give to accounts of users
    User,             \* users who register
    HoldId,           \* ids uuid.New() may give to holds
    Payment,          \* payment ids callers name
    Currency,         \* the currencies the migration creates system accounts for
    DefaultCurrency,  \* consumer.defaultCurrency
    Amount,           \* amounts callers may ask for, wrong ones included
    WelcomeSeed,      \* values Config.WelcomeSeedMinor has over time; 0 disables the deposit
    SweepLimit,       \* "limit 100" of SweepExpiredHolds
    MaxBigint,        \* the largest value of a bigint column
    NoRow             \* a row that does not exist

\* The fixed accounts of settlementAccounts and merchantPayableAccounts.
Settlement(cur) == <<"settlement", cur>>
Payable(cur) == <<"payable", cur>>
SystemAccount == {Settlement(cur) : cur \in Currency} \cup {Payable(cur) : cur \in Currency}
AccountId == UserAccount \cup SystemAccount

\* accounts.type: the settlement rows are 'asset', all others 'liability'.
IsAsset(a) == \E cur \in Currency : a = Settlement(cur)

\* accounts.currency: a user's account is opened in the default currency.
AccountCurrency(a) ==
    IF a \in UserAccount THEN DefaultCurrency
    ELSE CHOOSE cur \in Currency : a = Settlement(cur) \/ a = Payable(cur)

\* Release reasons a caller can give; any reason but "expiry" is treated alike.
Reason == {"compensation", "expiry"}

\* ledger_transactions.idempotency_key: "capture:"+holdID and "welcome:"+userID.
CaptureKey(h) == <<"capture", h>>
WelcomeKey(u) == <<"welcome", u>>
IdemKey == {CaptureKey(h) : h \in HoldId} \cup {WelcomeKey(u) : u \in User}

HoldStatus == {"active", "captured", "released", "expired"}
HoldRow == [account : AccountId, payment : Payment, amount : Nat \ {0},
            currency : Currency, status : HoldStatus]

\* A ledger_transactions row with its two ledger_entries: one debit, one credit.
Posting == [debit : AccountId, credit : AccountId, amount : Nat \ {0}, currency : Currency]

\* An outbox row: accounts.funds.{held,captured,released}.v1.
Topic == {"held", "captured", "released"}
EventReason == Reason \cup {"none", "partial_capture_remainder"}
Event == [topic : Topic, hold : HoldId, account : AccountId, amount : Nat \ {0},
          reason : EventReason]

\* outbox.Writer.Write of one funds event.
Funds(topic, h, a, amt, reason) ==
    [topic |-> topic, hold |-> h, account |-> a, amount |-> amt, reason |-> reason]

ASSUME ConstantsAssumption ==
    /\ IsFiniteSet(HoldId) /\ IsFiniteSet(User)
    /\ IsFiniteSet(UserAccount) /\ IsFiniteSet(Currency)
    /\ UserAccount \cap SystemAccount = {}
    /\ DefaultCurrency \in Currency
    /\ Amount \subseteq Int
    /\ WelcomeSeed \subseteq Int
    /\ SweepLimit \in Nat \ {0}
    /\ MaxBigint \in Nat
    /\ NoRow \notin HoldRow
    /\ NoRow \notin Posting
=============================================================================
