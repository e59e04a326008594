------------------------------ MODULE Bindings ------------------------------
(***************************************************************************)
(* One native arena and the object of a language binding that owns it      *)
(* (bindings/go/contextlease.go, ContextLeaseArena.cs of bindings/dotnet,  *)
(* src/contextlease/native.py with the lock of the facade in runtime.py),  *)
(* against the contract that the functions of contextlease-ffi state under *)
(* "Safety".                                                               *)
(*                                                                         *)
(* Go and .NET hold a mutex in every method.  In Python only prepare and   *)
(* record_usage of the facade hold a lock: close, snapshot, events and     *)
(* set_token_counter do not, and ctypes lets other threads run during a    *)
(* native call.  Nothing keeps the threads of a Python host from any of    *)
(* these calls at any time, so the model lets them make all of them, also  *)
(* those that end in a freed arena; `raced` remembers which kind of        *)
(* overlap there has been.                                                 *)
(***************************************************************************)
EXTENDS Integers

CONSTANTS
  Threads,
  Kinds,        \* the bindings that are tried
  MaxCounters,  \* bound: token counters that are set
  None

ASSUME BindingsAssumption ==
  /\ Kinds \subseteq {"go", "dotnet", "python"}
  /\ MaxCounters \in Nat /\ None \notin Threads

VARIABLES
  kind,
  lock,     \* mu, _sync, or _prepare_lock
  handle,   \* 1, or 0 once the binding has cleared it
  field,    \* the counter the binding keeps alive, or 0
  live,     \* whether the handle points to an arena
  counter,  \* token_counter of the arena, or 0
  last,     \* counters made so far
  call,     \* of each thread: where it is, and what it has passed
  raced     \* history: the risks that overlapping calls have taken

vars == <<kind, lock, handle, field, live, counter, last, call, raced>>

Idle == [at |-> "idle", op |-> None, given |-> 0, made |-> 0, uses |-> 0]

Init ==
  /\ kind \in Kinds
  /\ lock = None /\ handle = 1 /\ field = 0
  /\ live = TRUE /\ counter = 0 /\ last = 0
  /\ call = [t \in Threads |-> Idle] /\ raced = {}

Ops == {"prepare", "record_usage", "snapshot", "set_token_counter", "close"}

(* Mutant: close forgets the lock.                                         *)
LockedButClose(op) == op # "close" /\ (kind # "python" \/ op \in {"prepare", "record_usage"})

Locked(op) == kind # "python" \/ op \in {"prepare", "record_usage"}

(* The risks two calls take that overlap: that one closes the arena during *)
(* the other, that one replaces the counter during the other.              *)
Risks(op, other) ==
  {risk \in {"close", "set_token_counter"} \cap {op, other} :
     risk = "close" \/ {op, other} \subseteq {risk, "prepare"}}

(* _json_output gets the handle with its arguments, before it checks that  *)
(* the arena is not closed.                                                *)
GivenEarly(op) == kind = "python" /\ op \in {"record_usage", "snapshot"}

Enter(t, op) ==
  LET sets == op = "set_token_counter"
  IN /\ call[t].at = "idle"
     /\ Locked(op) => lock = None
     /\ lock' = IF Locked(op) THEN t ELSE lock
     /\ sets => last < MaxCounters
     /\ last' = IF sets THEN last + 1 ELSE last
     /\ call' = [call EXCEPT ![t] = [Idle EXCEPT !.at = "entered", !.op = op,
                                       !.given = IF GivenEarly(op) THEN handle ELSE 0,
                                       !.made = IF sets THEN last' ELSE 0]]
     /\ raced' = raced \cup
          UNION {Risks(op, call[u].op) : u \in {v \in Threads : call[v].at # "idle"}}
     /\ UNCHANGED <<kind, handle, field, live, counter>>

Leave(t) ==
  /\ call' = [call EXCEPT ![t] = Idle]
  /\ lock' = IF lock = t THEN None ELSE lock

(* A closed arena raises, and closing it again does nothing.               *)
Closed(t) ==
  /\ call[t].at = "entered" /\ handle = 0 /\ Leave(t)
  /\ UNCHANGED <<kind, handle, field, live, counter, last, raced>>

(* Mutant: prepare clears the counter where it clears its error.           *)
ClearedByPrepare(t) ==
  CASE call[t].op = "prepare" -> 0
    [] call[t].op = "set_token_counter" /\ kind # "go" -> call[t].made
    [] OTHER -> field

(* Python and .NET let go of the old counter before the native arena does; *)
(* Go keeps it until the call is over.                                     *)
FieldBefore(t) ==
  IF call[t].op = "set_token_counter" /\ kind # "go" THEN call[t].made ELSE field

(* The arena is not closed.                                                *)
Check(t) ==
  /\ call[t].at = "entered" /\ handle # 0
  /\ field' = FieldBefore(t)
  /\ call' = [call EXCEPT ![t].at = "checked"]
  /\ UNCHANGED <<kind, lock, handle, live, counter, last, raced>>

(* The handle is read for the call.  A null handle is refused.             *)
Call(t) ==
  LET given == IF GivenEarly(call[t].op) THEN call[t].given ELSE handle
      uses == IF given # 0 /\ call[t].op = "prepare" THEN counter ELSE 0
  IN /\ call[t].at = "checked"
     /\ call' = [call EXCEPT ![t].given = given, ![t].uses = uses,
                             ![t].at = IF given = 0 THEN "over" ELSE "native"]
     /\ UNCHANGED <<kind, lock, handle, field, live, counter, last, raced>>

(* The native function; a prepare has called its counter all along.        *)
Native(t) ==
  /\ call[t].at = "native" /\ live
  /\ call' = [call EXCEPT ![t].at = "over", ![t].uses = 0]
  /\ counter' = IF call[t].op = "set_token_counter" THEN call[t].made ELSE counter
  /\ live' = (call[t].op # "close")
  /\ UNCHANGED <<kind, lock, handle, field, last, raced>>

(* A native function in a freed arena.  Its behaviour is undefined: here   *)
(* it may return, or never do.                                             *)
UseFreed(t) ==
  /\ call[t].at = "native" /\ ~live
  /\ call' = [call EXCEPT ![t].at = "over", ![t].uses = 0]
  /\ UNCHANGED <<kind, lock, handle, field, live, counter, last, raced>>

(* Mutant: the counter is still kept when the arena is freed.              *)
KeptWhenClosed(t) ==
  IF kind = "go" /\ call[t].op = "set_token_counter" THEN call[t].made ELSE field

(* releaseTokenCounter of Go; close of Python and .NET.                    *)
FieldAfter(t) ==
  IF call[t].op = "close" THEN 0
  ELSE IF kind = "go" /\ call[t].op = "set_token_counter" THEN call[t].made ELSE field

Return(t) ==
  /\ call[t].at = "over" /\ Leave(t)
  /\ field' = FieldAfter(t)
  /\ handle' = IF call[t].op = "close" THEN 0 ELSE handle
  /\ UNCHANGED <<kind, live, counter, last, raced>>

Next ==
  \E t \in Threads :
    \/ \E op \in Ops : Enter(t, op)
    \/ Closed(t) \/ Check(t) \/ Call(t) \/ Native(t) \/ UseFreed(t) \/ Return(t)

Spec == Init /\ [][Next]_vars

-----------------------------------------------------------------------------
(* Properties.                                                             *)

(* Only in Python is a risk ever taken.                                    *)
Taken(risk) == kind = "python" /\ risk \in raced

(* "arena must be a live handle": whoever is inside the native library was *)
(* given a handle that is not freed, and only one of them frees it.  So    *)
(* close waits for prepare, or prepare finds the arena closed.  In Go and  *)
(* .NET this holds whatever their threads call; in Python it is lost when  *)
(* a close has overlapped another call, and in no other way.               *)
CallsUseLiveHandle ==
  ~Taken("close") =>
    \A t \in Threads : call[t].at = "native" =>
      /\ live
      /\ call[t].op = "close" => \A u \in Threads \ {t} : call[u].at # "native"

Kept(c) == c = field \/ \E t \in Threads : call[t].made = c

(* "callback state must remain valid until the callback is replaced or the *)
(* arena is freed": while a prepare may call its counter, the binding      *)
(* keeps that counter alive and nobody replaces it in the arena, in        *)
(* whichever order the binding renews its own reference.  In Python this   *)
(* is lost when the counter was set during a prepare or another such call, *)
(* or the arena closed during any, and in no other way.                    *)
CallsLiveCallback ==
  ~Taken("close") /\ ~Taken("set_token_counter") =>
    \A t \in Threads : call[t].uses # 0 =>
      /\ Kept(call[t].uses)
      /\ \A u \in Threads : call[u].at = "native" => call[u].op # "set_token_counter"

(* When no call is inside, an arena that the binding has lost the handle   *)
(* of is freed, and the binding keeps exactly the counter that the arena   *)
(* would call: in Python unless two calls raced to set it.                 *)
NothingLeftBehind ==
  ~Taken("close") /\ (\A t \in Threads : call[t].at = "idle") =>
    /\ live <=> handle # 0
    /\ ~live => field = 0
    /\ live /\ ~Taken("set_token_counter") => field = counter
=============================================================================
