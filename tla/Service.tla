------------------------------ MODULE Service -------------------------------
(***************************************************************************)
(* The two entrances to the ledger: the gRPC money API (internal/grpcapi), *)
(* idempotent on request_id, and the Kafka events (consumer.handle),       *)
(* idempotent on event_id.  Each handler runs its gate, the operation of   *)
(* Ledger and the row that records it in one InTx transaction.  A call     *)
(* that fails leaves no row, so it is not a step.                          *)
(*                                                                         *)
(* A caller may repeat a request, because the answer was lost or for any   *)
(* other reason, and Kafka may deliver an event again, at any time.        *)
(***************************************************************************)
EXTENDS Ledger

CONSTANTS
    RequestId,   \* request_ids callers choose
    Copy         \* tells apart the events published about one user or payment

\* Events with distinct event_ids: identity.user.registered.v1,
\* payments.payment.failed.v1 and, on the same topics, any other event_type.
Registered == {<<"registered", u, n>> : u \in User, n \in Copy}
PaymentFailed == {<<"failed", p, n>> : p \in Payment, n \in Copy}
Unknown == {<<"unknown", n>> : n \in Copy}
EventId == Registered \cup PaymentFailed \cup Unknown

\* The responses, as store marshals them: HoldFundsResponse,
\* CaptureFundsResponse (the posting stands for ledger_transaction_id) and
\* ReleaseFundsResponse, which holds a status only.
HoldFundsResponse == [method : {"HoldFunds"}, hold : HoldId, availableAfter : Nat]
CaptureFundsResponse == [method : {"CaptureFunds"}, transaction : IdemKey]
ReleaseFundsResponse == [method : {"ReleaseFunds"}]
Response == HoldFundsResponse \cup CaptureFundsResponse \cup ReleaseFundsResponse
Method == {"HoldFunds", "CaptureFunds", "ReleaseFunds"}

\* What a caller makes of bytes stored by another method.
Foreign(method) == [foreign |-> method]

ASSUME ServiceAssumption ==
    /\ IsFiniteSet(Copy)
    /\ NoRow \notin Response

VARIABLES
    grpcIdempotency,   \* table grpc_idempotency
    processedEvents,   \* table processed_events
    answers            \* <<request_id, response>> pairs that reached a caller

serviceVars == <<vars, grpcIdempotency, processedEvents, answers>>

ServiceTypeOK ==
    /\ TypeOK
    /\ grpcIdempotency \in [RequestId -> Response \cup {NoRow}]
    /\ processedEvents \subseteq EventId
    /\ answers \subseteq RequestId \X (Response \cup {Foreign(m) : m \in Method})

ServiceInit ==
    /\ Init
    /\ grpcIdempotency = [r \in RequestId |-> NoRow]
    /\ processedEvents = {}
    /\ answers = {}

-----------------------------------------------------------------------------

\* The answer to a call reaches the caller, or is lost on the way.
Answer(r, response) == answers' \in {answers, answers \cup {<<r, response>>}}

\* Mutant of Store: no gate before the operation, and the newer response wins.
StoreAgain(r, response) ==
    /\ grpcIdempotency' = [grpcIdempotency EXCEPT ![r] = response]
    /\ Answer(r, response)
    /\ UNCHANGED processedEvents

\* Mutant of Store: the row is written after the commit, and a crash loses it.
StoreLater(r, response) ==
    /\ grpcIdempotency[r] = NoRow
    /\ grpcIdempotency' \in {grpcIdempotency, [grpcIdempotency EXCEPT ![r] = response]}
    /\ Answer(r, response)
    /\ UNCHANGED processedEvents

\* store: the response becomes the row of the request.  A second row for the
\* request_id is a primary key violation.
Store(r, response) ==
    /\ grpcIdempotency[r] = NoRow
    /\ grpcIdempotency' = [grpcIdempotency EXCEPT ![r] = response]
    /\ Answer(r, response)
    /\ UNCHANGED processedEvents

\* replay: a request_id seen before is answered from its row and nothing else
\* happens.  The row is looked up by request_id alone, whatever the method.
Replay(r, method) ==
    /\ grpcIdempotency[r] # NoRow
    /\ Answer(r, IF grpcIdempotency[r].method = method THEN grpcIdempotency[r] ELSE Foreign(method))
    /\ UNCHANGED <<vars, grpcIdempotency, processedEvents>>

HoldFunds(r, h, a, p, amt, cur) ==
    /\ Hold(h, a, p, amt, cur)
    /\ Store(r, [method |-> "HoldFunds", hold |-> h, availableAfter |-> available[a] - amt])

CaptureFunds(r, h, amt) ==
    /\ Capture(h, amt)
    /\ Store(r, [method |-> "CaptureFunds", transaction |-> CaptureKey(h)])

ReleaseFunds(r, h, reason) ==
    /\ Release(h, reason)
    /\ Store(r, [method |-> "ReleaseFunds"])

\* Mutant of Gate: an event seen before is handled all the same.
GateOpen(e) ==
    /\ processedEvents' = processedEvents \cup {e}
    /\ UNCHANGED <<grpcIdempotency, answers>>

\* consumer.handle: the gate of processed_events, and its row.
Gate(e) ==
    /\ e \notin processedEvents
    /\ processedEvents' = processedEvents \cup {e}
    /\ UNCHANGED <<grpcIdempotency, answers>>

HandleRegistered(e, a, seed) ==
    /\ Gate(e)
    /\ OnUserRegistered(e[2], a, seed)

\* onPaymentFailed.  ReleaseByPayment looks for the hold in the snapshot of its
\* transaction, which may be older than a hold that is active when the event is
\* committed: it releases the active hold, or finds none and releases nothing.
\* (Transactions has the snapshots, and MissesOnlyNewer what can be missed.)
HandlePaymentFailed(e) ==
    /\ Gate(e)
    /\ ReleaseByPayment(e[2], "compensation") \/ UNCHANGED vars

\* "not ours; ack silently".
HandleUnknown(e) == Gate(e) /\ UNCHANGED vars

\* The sweeper and the clock do not touch the tables of the entrances.
Background ==
    /\ SweepExpiredHolds \/ \E h \in HoldId : PassExpiry(h)
    /\ UNCHANGED <<grpcIdempotency, processedEvents, answers>>

ServiceNext ==
    \/ \E r \in RequestId, h \in HoldId, a \in AccountId, p \in Payment, amt \in Amount, cur \in Currency :
            HoldFunds(r, h, a, p, amt, cur)
    \/ \E r \in RequestId, h \in HoldId, amt \in Amount : CaptureFunds(r, h, amt)
    \/ \E r \in RequestId, h \in HoldId, reason \in Reason : ReleaseFunds(r, h, reason)
    \/ \E r \in RequestId, method \in Method : Replay(r, method)
    \/ \E e \in Registered, a \in UserAccount, seed \in WelcomeSeed : HandleRegistered(e, a, seed)
    \/ \E e \in PaymentFailed : HandlePaymentFailed(e)
    \/ \E e \in Unknown : HandleUnknown(e)
    \/ Background

ServiceSpec == ServiceInit /\ [][ServiceNext]_serviceVars

-----------------------------------------------------------------------------
(* Properties. *)

\* The callers that repeat a request are told the same each time, and what they
\* are told is true: the hold exists and the ledger transaction was posted
\* (replay, store).  Only a request_id used for two methods gets a foreign answer.
AnswersAgree ==
    /\ \A x, y \in answers : x[1] = y[1] /\ x[2] \in Response /\ y[2] \in Response => x = y
    /\ \A x \in answers :
        /\ x[2] \in HoldFundsResponse => holds[x[2].hold] # NoRow
        /\ x[2] \in CaptureFundsResponse => postings[x[2].transaction] # NoRow

\* No hold and no capture is made twice for a request, and none exists that no
\* request accounts for: each is named by exactly one row of grpc_idempotency,
\* so that a caller whose answer was lost can always learn the hold_id.
EffectsAnswered == \A h \in HoldId :
    /\ holds[h] # NoRow =>
        Cardinality({r \in RequestId : grpcIdempotency[r] \in HoldFundsResponse
                                       /\ grpcIdempotency[r].hold = h}) = 1
    /\ postings[CaptureKey(h)] # NoRow =>
        Cardinality({r \in RequestId : grpcIdempotency[r] \in CaptureFundsResponse
                                       /\ grpcIdempotency[r].transaction = CaptureKey(h)}) = 1

\* Each registration opens exactly one account however often it is delivered,
\* and there is no account without one: the gate, the account and the welcome
\* deposit commit together, or the event stays to be handled again.
RegistrationsOpenAccounts ==
    Cardinality(accounts \cap UserAccount) = Cardinality(processedEvents \cap Registered)

\* What a row of grpc_idempotency reports exists, and an answer that reached a
\* caller is the row's (store and replay marshal and unmarshal the same bytes).
RowsTrue == \A r \in RequestId :
    /\ grpcIdempotency[r] \in HoldFundsResponse => holds[grpcIdempotency[r].hold] # NoRow
    /\ grpcIdempotency[r] \in CaptureFundsResponse => postings[grpcIdempotency[r].transaction] # NoRow

AnswersFromRows == \A x \in answers : x[2] \in Response => grpcIdempotency[x[1]] = x[2]

\* The tables keep their types, one account is open for each registration
\* handled, and the answers are the rows' and true, whatever is repeated, lost
\* or delivered again.
ServiceInv == ServiceTypeOK /\ RegistrationsOpenAccounts /\ RowsTrue /\ AnswersFromRows
=============================================================================
