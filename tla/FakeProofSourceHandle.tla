------------------------ MODULE FakeProofSourceHandle ------------------------
(***************************************************************************)
(* quic/test_tools/fake_proof_source_handle.cc: a ProofSourceHandle whose  *)
(* two operations, selecting a certificate and computing a signature, are  *)
(* answered at once or kept pending until the test completes them, as the  *)
(* Action given for each at construction says.                             *)
(*                                                                         *)
(* The caller is a TLS server handshake: it selects a certificate once,    *)
(* asks for a signature once the certificate is there, and may cancel.     *)
(* Addresses, host names, chains and signatures are abstracted to whether  *)
(* the delegate succeeds.                                                  *)
(***************************************************************************)
EXTENDS Integers, Sequences, FiniteSets, SequencesExt

CONSTANTS
    MaxCallbacks,  \* bound on the callbacks one handshake receives
    None           \* an absl::optional without a value

VARIABLES
    select_cert_action_,        \* Action of SelectCertificate
    compute_signature_action_,  \* Action of ComputeSignature
    select_cert_op_,            \* the pending SelectCertOperation, or None
    compute_signature_op_,      \* the pending ComputeSignatureOperation, or None
    callbacks,                  \* what callback_ has been told, in order
    status,                     \* what the last call of each kind returned
    cancelled                   \* the handshake has given up

vars == <<select_cert_action_, compute_signature_action_, select_cert_op_,
          compute_signature_op_, callbacks, status, cancelled>>

Action  == {"DELEGATE_SYNC", "DELEGATE_ASYNC", "FAIL_SYNC", "FAIL_ASYNC"}
IsAsync(a) == a \in {"DELEGATE_ASYNC", "FAIL_ASYNC"}

Kinds   == {"select_cert", "compute_signature"}
QuicAsyncStatus == {"QUIC_SUCCESS", "QUIC_FAILURE", "QUIC_PENDING"}

\* OnSelectCertificateDone(ok, is_sync, ...) or OnComputeSignatureDone(...)
Done(kind, ok, is_sync) == [kind |-> kind, ok |-> ok, is_sync |-> is_sync]

NumPendingOperations ==
    (IF select_cert_op_ # None THEN 1 ELSE 0)
        + (IF compute_signature_op_ # None THEN 1 ELSE 0)

HasPendingOperation == NumPendingOperations > 0

\* What the handshake has learnt from its callbacks.
CertificateSelected ==
    \E i \in DOMAIN callbacks :
        callbacks[i].kind = "select_cert" /\ callbacks[i].ok

-----------------------------------------------------------------------------

\* The constructor, with any pair of actions.
Init ==
    /\ select_cert_action_ \in Action
    /\ compute_signature_action_ \in Action
    /\ select_cert_op_ = None
    /\ compute_signature_op_ = None
    /\ callbacks = <<>>
    /\ status = [k \in Kinds |-> None]
    /\ cancelled = FALSE

\* What a request does under an action: an asynchronous action keeps the
\* operation and returns QUIC_PENDING; FAIL_SYNC calls back with ok = false;
\* DELEGATE_SYNC calls back with what the delegate says.  Either callback
\* runs before the call returns.
Answer(kind, action, delegate_ok) ==
    LET ok == action = "DELEGATE_SYNC" /\ delegate_ok
    IN  [op        |-> IF IsAsync(action) THEN [action |-> action] ELSE None,
         callbacks |-> IF IsAsync(action) THEN callbacks
                       ELSE Append(callbacks, Done(kind, ok, TRUE)),
         status    |-> IF IsAsync(action) THEN "QUIC_PENDING"
                       ELSE IF ok THEN "QUIC_SUCCESS" ELSE "QUIC_FAILURE"]

\* SelectCertificate().  chain_ok: the delegate's GetCertChain() returns a
\* chain with certificates.
SelectCertificate(chain_ok) ==
    LET a == Answer("select_cert", select_cert_action_, chain_ok)
    IN  /\ ~cancelled
        /\ status["select_cert"] = None
        /\ select_cert_op_' = a.op
        /\ callbacks' = a.callbacks
        /\ status' = [status EXCEPT !["select_cert"] = a.status]
        /\ UNCHANGED <<select_cert_action_, compute_signature_action_,
                       compute_signature_op_, cancelled>>

\* ComputeSignature().  sig_ok: ComputeSignatureNow() gets a signature from
\* the delegate.
ComputeSignature(sig_ok) ==
    LET a == Answer("compute_signature", compute_signature_action_, sig_ok)
    IN  /\ ~cancelled
        /\ CertificateSelected
        /\ status["compute_signature"] = None
        /\ compute_signature_op_' = a.op
        /\ callbacks' = a.callbacks
        /\ status' = [status EXCEPT !["compute_signature"] = a.status]
        /\ UNCHANGED <<select_cert_action_, compute_signature_action_,
                       select_cert_op_, cancelled>>

\* Fault: a failing operation reports what the delegate says.
OperationRunIgnoresFail(kind, op, delegate_ok) == Done(kind, delegate_ok, FALSE)

\* SelectCertOperation::Run() and ComputeSignatureOperation::Run(): the
\* callback of a pending operation.
OperationRun(kind, op, delegate_ok) ==
    Done(kind, op.action = "DELEGATE_ASYNC" /\ delegate_ok, FALSE)

\* CompletePendingOperation(): runs the certificate selection if there is
\* one, else the signature; the operation it ran stays where it is.
CompletePendingOperation(delegate_ok) ==
    /\ HasPendingOperation
    /\ Len(callbacks) < MaxCallbacks
    /\ callbacks' = Append(callbacks,
           IF select_cert_op_ # None
           THEN OperationRun("select_cert", select_cert_op_, delegate_ok)
           ELSE OperationRun("compute_signature", compute_signature_op_,
                             delegate_ok))
    /\ UNCHANGED <<select_cert_action_, compute_signature_action_,
                   select_cert_op_, compute_signature_op_, status, cancelled>>

\* Fault: only the certificate selection is dropped.
CancelPendingOperationKeepsSignature ==
    /\ ~cancelled
    /\ select_cert_op_' = None
    /\ cancelled' = TRUE
    /\ UNCHANGED <<select_cert_action_, compute_signature_action_,
                   compute_signature_op_, callbacks, status>>

\* CancelPendingOperation(): both operations are dropped.
CancelPendingOperation ==
    /\ ~cancelled
    /\ select_cert_op_' = None
    /\ compute_signature_op_' = None
    /\ cancelled' = TRUE
    /\ UNCHANGED <<select_cert_action_, compute_signature_action_, callbacks,
                   status>>

Next ==
    \/ \E ok \in BOOLEAN : SelectCertificate(ok)
    \/ \E ok \in BOOLEAN : ComputeSignature(ok)
    \/ \E ok \in BOOLEAN : CompletePendingOperation(ok)
    \/ CancelPendingOperation

Spec == Init /\ [][Next]_vars

-----------------------------------------------------------------------------
(* Properties *)

\* The action the handle was constructed with for a kind of operation.
ActionOf(kind) ==
    IF kind = "select_cert" THEN select_cert_action_ ELSE compute_signature_action_

\* Whatever the order of requests, completions and cancellation, a callback
\* tells the handshake what the handle was configured to do: is_sync exactly
\* when the action is a synchronous one, never ok when the action is to fail
\* (SelectCertificate(), ComputeSignature() and the two Run() methods), and a
\* call returned QUIC_PENDING exactly when no callback ran inside it.
CallbackMatchesAction ==
    /\ \A i \in DOMAIN callbacks :
          LET cb == callbacks[i]
          IN  /\ cb.is_sync = ~IsAsync(ActionOf(cb.kind))
              /\ ActionOf(cb.kind) \in {"FAIL_SYNC", "FAIL_ASYNC"} => ~cb.ok
    /\ \A k \in Kinds :
          status[k] # None => (status[k] = "QUIC_PENDING") = IsAsync(ActionOf(k))

\* A handshake that cancelled is never called back: whatever was pending when
\* CancelPendingOperation() ran, selection or signature, a completion the
\* test makes afterwards finds nothing to run.
NoCallbackAfterCancel ==
    [][cancelled => callbacks' = callbacks]_vars

\* DCHECK_LE(NumPendingOperations(), 1) in CompletePendingOperation(): the
\* handshake has one operation in flight at a time, so the test never finds
\* two to complete.
AtMostOnePendingOperation == NumPendingOperations <= 1

=============================================================================
