---------------------------- MODULE HostCounter ----------------------------
(***************************************************************************)
(* How the failure of a host tokenizer reaches the caller of prepare when  *)
(* several threads prepare on one arena (src/contextlease/native.py over   *)
(* rust/contextlease-ffi/src/lib.rs over the core).  Three layers note the *)
(* failure: the Python object keeps the exception, the C ABI a flag in the *)
(* handle, the core a flag of its own for each call.  The first two are    *)
(* shared by all calls and cleared by each when it starts.                 *)
(***************************************************************************)
EXTENDS Integers

CONSTANTS
  Threads,
  MaxCalls,  \* bound: calls of prepare of each thread
  None

ASSUME HostCounterAssumption == MaxCalls \in Nat /\ None \notin Threads

VARIABLES
  pc,          \* where each thread is
  exception,   \* _token_callback_error is set
  failed,      \* HostTokenCounter.failed
  coreFailed,  \* CountContext.failed of each call
  mutex,       \* the thread in the second critical section of the core
  code,        \* what the core, then the C ABI, returns to each thread
  committed,   \* the transaction of this call was committed
  outcome,     \* what the last call of each thread did for its caller
  calls,       \* calls of each thread
  own,         \* history: the tokenizer failed for this call
  others       \* history: it failed for another call meanwhile

flags == <<exception, failed, coreFailed>>
histories == <<own, others>>
vars == <<pc, flags, mutex, code, committed, outcome, calls, histories>>

Init ==
  /\ pc = [t \in Threads |-> "idle"]
  /\ exception = FALSE /\ failed = FALSE
  /\ coreFailed = [t \in Threads |-> FALSE]
  /\ mutex = None
  /\ code = [t \in Threads |-> "ok"]
  /\ committed = [t \in Threads |-> FALSE]
  /\ outcome = [t \in Threads |-> "none"]
  /\ calls = [t \in Threads |-> 0]
  /\ own = [t \in Threads |-> FALSE] /\ others = [t \in Threads |-> FALSE]

Go(t, from, to) == pc[t] = from /\ pc' = [pc EXCEPT ![t] = to]

(* NativeArena.prepare begins: no exception so far.                        *)
Enter(t) ==
  /\ Go(t, "idle", "entered")
  /\ calls[t] < MaxCalls /\ calls' = [calls EXCEPT ![t] = @ + 1]
  /\ exception' = FALSE
  /\ coreFailed' = [coreFailed EXCEPT ![t] = FALSE]
  /\ committed' = [committed EXCEPT ![t] = FALSE]
  /\ outcome' = [outcome EXCEPT ![t] = "none"]
  /\ own' = [own EXCEPT ![t] = FALSE] /\ others' = [others EXCEPT ![t] = FALSE]
  /\ UNCHANGED <<failed, mutex, code>>

(* Mutant: the flag of an earlier call stays.                              *)
KeepFlag == UNCHANGED failed

ClearFlag == failed' = FALSE

(* counter.reset() of the C ABI.                                           *)
Reset(t) ==
  /\ Go(t, "entered", "planning")
  /\ ClearFlag
  /\ UNCHANGED <<exception, coreFailed, mutex, code, committed, outcome, calls, histories>>

InCall(t) == pc[t] # "idle"

Disturbed(t) == [u \in Threads |-> others[u] \/ (u # t /\ InCall(u))]

(* The tokenizer raises: Python keeps the exception and returns -1.        *)
Raise(t) ==
  /\ Go(t, "planning", "raised") \/ Go(t, "locked", "raised locked")
  /\ exception' = TRUE
  /\ own' = [own EXCEPT ![t] = TRUE] /\ others' = Disturbed(t)
  /\ UNCHANGED <<failed, coreFailed, mutex, code, committed, outcome, calls>>

(* Mutant: the core relies on the flag of the handle.                      *)
NoteNowhere(t) == UNCHANGED coreFailed

NoteInCore(t) == coreFailed' = [coreFailed EXCEPT ![t] = TRUE]

(* count_text of the C ABI, then of the core, see the negative count.      *)
Note(t) ==
  /\ Go(t, "raised", "planning") \/ Go(t, "raised locked", "locked")
  /\ failed' = TRUE
  /\ NoteInCore(t)
  /\ others' = Disturbed(t)
  /\ UNCHANGED <<exception, mutex, code, committed, outcome, calls, own>>

MutexFree == mutex = None

Lock(t) ==
  /\ Go(t, "planning", "locked")
  /\ MutexFree /\ mutex' = t
  /\ UNCHANGED <<flags, code, committed, outcome, calls, histories>>

CoreReturns(t, result) == code' = [code EXCEPT ![t] = result]

(* The core refuses the request before the second critical section.        *)
Refuse(t) ==
  /\ Go(t, "planning", "returned")
  /\ CoreReturns(t, "error")
  /\ UNCHANGED <<flags, mutex, committed, outcome, calls, histories>>

(* The core leaves the critical section without committing: the prompt     *)
(* does not fit, or ensure_valid found a failed count.                     *)
Drop(t) ==
  /\ Go(t, "locked", "returned")
  /\ mutex' = None
  /\ CoreReturns(t, "error")
  /\ UNCHANGED <<flags, committed, outcome, calls, histories>>

(* ensure_valid passes and the transaction is committed.                   *)
Commit(t) ==
  /\ Go(t, "locked", "returned")
  /\ ~coreFailed[t]
  /\ mutex' = None
  /\ committed' = [committed EXCEPT ![t] = TRUE]
  /\ CoreReturns(t, "ok")
  /\ UNCHANGED <<flags, outcome, calls, histories>>

(* The C ABI returns CL_PREPARE_ERROR if its flag is set.                  *)
ReadFlag(t) ==
  /\ Go(t, "returned", "checking")
  /\ code' = [code EXCEPT ![t] = IF failed THEN "error" ELSE @]
  /\ UNCHANGED <<flags, mutex, committed, outcome, calls, histories>>

(* Mutant: the code of the C ABI is not looked at.                         *)
ExceptionOnly(t) == IF exception THEN "error" ELSE "ok"

(* _check_token_callback, then _check(code).                               *)
Outcome(t) == IF exception THEN "error" ELSE code[t]

Leave(t) ==
  /\ Go(t, "checking", IF exception THEN "clearing" ELSE "idle")
  /\ outcome' = [outcome EXCEPT ![t] = Outcome(t)]
  /\ UNCHANGED <<flags, mutex, code, committed, calls, histories>>

(* _check_token_callback forgets the exception before it raises.           *)
ClearException(t) ==
  /\ Go(t, "clearing", "idle")
  /\ exception' = FALSE
  /\ UNCHANGED <<failed, coreFailed, mutex, code, committed, outcome, calls, histories>>

Next ==
  \E t \in Threads :
    \/ Enter(t) \/ Reset(t) \/ Raise(t) \/ Note(t) \/ Lock(t)
    \/ Refuse(t) \/ Drop(t) \/ Commit(t)
    \/ ReadFlag(t) \/ Leave(t) \/ ClearException(t)

Spec == Init /\ [][Next]_vars

-----------------------------------------------------------------------------
(* Properties.                                                             *)

Phases == {"idle", "entered", "planning", "raised", "locked", "raised locked",
           "returned", "checking", "clearing"}

(* Every variable keeps its type, and the mutex belongs to the one call in *)
(* the second critical section.                                            *)
TypeOK ==
  /\ pc \in [Threads -> Phases]
  /\ exception \in BOOLEAN /\ failed \in BOOLEAN /\ coreFailed \in [Threads -> BOOLEAN]
  /\ mutex \in Threads \cup {None}
  /\ \A t \in Threads : mutex = t <=> pc[t] \in {"locked", "raised locked"}
  /\ code \in [Threads -> {"ok", "error"}] /\ committed \in [Threads -> BOOLEAN]
  /\ outcome \in [Threads -> {"none", "ok", "error"}]
  /\ calls \in [Threads -> 0 .. MaxCalls]
  /\ own \in [Threads -> BOOLEAN] /\ others \in [Threads -> BOOLEAN]

Returned(t) == outcome[t] # "none"

(* A prompt that the tokenizer failed to count is never committed, and its *)
(* caller is never told that all is well, although both shared flags may   *)
(* have been cleared by another call between the failure and their check.  *)
FailureReported ==
  \A t \in Threads :
    own[t] => ~committed[t] /\ (Returned(t) => outcome[t] = "error")

(* A caller that is told that all is well has a committed prepare.         *)
SuccessCommitted == \A t \in Threads : outcome[t] = "ok" => committed[t]

(* A prepare fails in the eyes of its caller but stays committed only if   *)
(* the tokenizer failed for another call during it.                        *)
CommittedSucceedsAlone ==
  \A t \in Threads :
    Returned(t) /\ committed[t] /\ ~others[t] => outcome[t] = "ok"

(* tests/test_native_binding.py: after a prepare that raises, snapshot and *)
(* events are those of before.  Were it so in general, no prepare that is  *)
(* reported as failed would have been committed.                           *)
FailedPrepareLeavesNothing ==
  \A t \in Threads : outcome[t] = "error" => ~committed[t]
=============================================================================
