--------------------------- MODULE BindingsProofs ---------------------------
(***************************************************************************)
(* The life cycle of handles and callbacks, for any threads and bindings.  *)
(*                                                                         *)
(* The argument: as long as no overlap has taken a risk, calls that could  *)
(* harm each other are never inside together (ApartFrom).  So a call that  *)
(* found the arena open stays in an open arena, and while no new counter   *)
(* is on its way the binding keeps the one that the arena calls.  In Go    *)
(* and .NET the lock sees to it that no risk is ever taken (Unraced).      *)
(***************************************************************************)
EXTENDS Bindings, TLAPS

Places == {"idle", "entered", "checked", "native", "over"}

TypeOK ==
  /\ kind \in {"go", "dotnet", "python"}
  /\ lock \in Threads \cup {None}
  /\ handle \in {0, 1} /\ live \in BOOLEAN
  /\ field \in Nat /\ counter \in Nat /\ last \in Nat
  /\ call \in [Threads -> [at : Places, op : Ops \cup {None}, given : {0, 1},
                           made : Nat, uses : Nat]]

Inside(t) == call[t].at # "idle"

LockHeld ==
  \A t \in Threads :
    Inside(t) => call[t].op \in Ops /\ (Locked(call[t].op) => lock = t)

Unraced == kind # "python" => raced = {}

Quiet == "close" \notin raced
Calm == Quiet /\ "set_token_counter" \notin raced

ApartFrom(risk) ==
  \A t, u \in Threads :
    t # u /\ Inside(t) /\ Inside(u) => risk \notin Risks(call[t].op, call[u].op)

Past(t) == call[t].at \in {"checked", "native", "over"}
Freed(t) == call[t].at = "over" /\ call[t].op = "close"
Setting(t) == Past(t) /\ call[t].op = "set_token_counter"

OpenInside == \A t \in Threads : Past(t) => handle = 1 /\ (live <=> ~Freed(t))

ClosedState ==
  /\ handle = 0 => ~live /\ field = 0
  /\ handle = 1 /\ ~live => \E t \in Threads : Freed(t)

CounterKept ==
  /\ live /\ (\A t \in Threads : ~Setting(t)) => field = counter
  /\ \A t \in Threads : Setting(t) =>
       /\ kind # "go" => field = call[t].made
       /\ call[t].at = "over" => counter = call[t].made

UsesCounter ==
  \A t \in Threads : call[t].uses # 0 =>
    call[t].at = "native" /\ call[t].op = "prepare" /\ call[t].uses = counter

HandleInv == ApartFrom("close") /\ OpenInside /\ ClosedState
CounterInv == ApartFrom("set_token_counter") /\ CounterKept /\ UsesCounter

IndInv ==
  /\ TypeOK /\ LockHeld /\ Unraced
  /\ Quiet => HandleInv
  /\ Calm => CounterInv

-----------------------------------------------------------------------------

(* Two calls that take no risk: neither closes the arena, and neither sets *)
(* the counter while the other uses or sets it.                            *)
LEMMA NoRisk ==
  ASSUME NEW op, NEW other
  PROVE  /\ "close" \notin Risks(op, other) <=> op # "close" /\ other # "close"
         /\ "set_token_counter" \notin Risks(op, other) /\ op = "set_token_counter"
              => other \notin {"set_token_counter", "prepare"}
         /\ Risks(op, other) = Risks(other, op)
BY DEF Risks

LEMMA InitInv == Init => IndInv
BY BindingsAssumption
   DEF Init, IndInv, TypeOK, Idle, Places, LockHeld, Unraced, HandleInv, CounterInv, ApartFrom,
       Inside, OpenInside, Past, Freed, ClosedState, CounterKept, Setting, UsesCounter

(* A call enters; what it risks is noted.                                  *)
LEMMA EnterInv ==
  ASSUME IndInv, NEW t \in Threads, NEW op \in Ops, Enter(t, op)
  PROVE  IndInv'
<1> USE DEF IndInv
<1>1. /\ call[t].at = "idle"
      /\ call'[t].at = "entered" /\ call'[t].op = op /\ call'[t].uses = 0
      /\ \A u \in Threads : u # t => call'[u] = call[u]
      /\ UNCHANGED <<kind, handle, field, live, counter>>
  BY DEF Enter, TypeOK, Idle
<1>2. TypeOK'
  <2>1. /\ last' \in Nat /\ lock' \in Threads \cup {None}
        /\ UNCHANGED <<kind, handle, live, field, counter>>
    BY DEF Enter, TypeOK
  <2>2. [Idle EXCEPT !.at = "entered", !.op = op,
                     !.given = IF GivenEarly(op) THEN handle ELSE 0,
                     !.made = IF op = "set_token_counter" THEN last' ELSE 0]
          \in [at : Places, op : Ops \cup {None}, given : {0, 1}, made : Nat, uses : Nat]
    BY <2>1 DEF TypeOK, Idle, Places
  <2>3. call' \in [Threads -> [at : Places, op : Ops \cup {None}, given : {0, 1},
                               made : Nat, uses : Nat]]
    BY <2>2 DEF Enter, TypeOK
  <2> QED  BY <2>1, <2>3 DEF TypeOK
<1>3. raced' = raced \cup
        UNION {Risks(op, call[u].op) : u \in {v \in Threads : call[v].at # "idle"}}
  BY DEF Enter
<1>4. LockHeld'
  BY <1>1, BindingsAssumption DEF LockHeld, Inside, Locked, Enter
<1>5. Unraced'
  <2>1. ASSUME kind # "python" PROVE \A u \in Threads : call[u].at = "idle"
    BY <2>1, BindingsAssumption DEF Enter, Locked, LockHeld, Inside
  <2> QED  BY <1>1, <1>3, <2>1 DEF Unraced
<1>6. (Quiet' => Quiet) /\ (Calm' => Calm)
  BY <1>3 DEF Quiet, Calm
<1>7. ASSUME NEW risk, risk \notin raced', ApartFrom(risk) PROVE ApartFrom(risk)'
  <2>1. ASSUME NEW u \in Threads, u # t, Inside(u)
        PROVE  risk \notin Risks(op, call[u].op) /\ risk \notin Risks(call[u].op, op)
    <3>1. risk \notin Risks(op, call[u].op)
      BY <1>3, <1>7, <2>1 DEF Inside
    <3> QED  BY <3>1, NoRisk
  <2> QED  BY <1>1, <1>7, <2>1 DEF ApartFrom, Inside
<1>8. \A u \in Threads : /\ Past(u)' <=> Past(u)
                         /\ Freed(u)' <=> Freed(u)
                         /\ Setting(u)' <=> Setting(u)
  BY <1>1 DEF Past, Freed, Setting
<1>9. ASSUME Quiet' PROVE HandleInv'
  <2>1. OpenInside' /\ ClosedState'
    BY <1>1, <1>6, <1>8, <1>9 DEF HandleInv, OpenInside, ClosedState
  <2> QED  BY <1>6, <1>7, <1>9, <2>1 DEF HandleInv, Quiet
<1>10. ASSUME Calm' PROVE CounterInv'
  <2>1. CounterKept'
    BY <1>1, <1>6, <1>8, <1>10 DEF CounterInv, CounterKept, Setting, Past
  <2>2. UsesCounter'
    BY <1>1, <1>6, <1>10 DEF CounterInv, UsesCounter
  <2> QED  BY <1>6, <1>7, <1>10, <2>1, <2>2 DEF CounterInv, Calm
<1> QED  BY <1>2, <1>4, <1>5, <1>9, <1>10

-----------------------------------------------------------------------------
(* Every other step moves a call that is inside.                           *)

Moves(t) ==
  /\ Inside(t)
  /\ \A u \in Threads : u # t => call'[u] = call[u]
  /\ UNCHANGED <<kind, last, raced>>

LEMMA MoveKeeps ==
  ASSUME IndInv, NEW t \in Threads, Moves(t),
         \/ call'[t].at = "idle" /\ lock' = (IF lock = t THEN None ELSE lock)
         \/ call'[t].at # "idle" /\ call'[t].op = call[t].op /\ lock' = lock
  PROVE  /\ LockHeld' /\ Unraced' /\ (Quiet' <=> Quiet) /\ (Calm' <=> Calm)
         /\ \A risk : ApartFrom(risk) => ApartFrom(risk)'
         /\ \A u \in Threads : u # t =>
              /\ Past(u)' <=> Past(u)
              /\ Freed(u)' <=> Freed(u)
              /\ Setting(u)' <=> Setting(u)
<1> USE DEF IndInv, Moves
<1>1. LockHeld'
  BY DEF LockHeld, Inside, Locked
<1>2. Unraced' /\ (Quiet' <=> Quiet) /\ (Calm' <=> Calm)
  BY DEF Unraced, Quiet, Calm
<1>3. ASSUME NEW risk, ApartFrom(risk) PROVE ApartFrom(risk)'
  BY <1>3 DEF ApartFrom, Inside, Risks
<1>4. \A u \in Threads : u # t =>
        (Past(u)' <=> Past(u)) /\ (Freed(u)' <=> Freed(u)) /\ (Setting(u)' <=> Setting(u))
  BY DEF Past, Freed, Setting
<1> QED  BY <1>1, <1>2, <1>3, <1>4

(* What the others inside cannot be doing.                                 *)
LEMMA Others ==
  ASSUME IndInv, Quiet, NEW t \in Threads, NEW u \in Threads, t # u, Inside(t), Inside(u)
  PROVE  /\ call[t].op # "close" /\ call[u].op # "close"
         /\ Calm /\ call[t].op = "set_token_counter" =>
              call[u].op \notin {"set_token_counter", "prepare"}
<1>1. "close" \notin Risks(call[t].op, call[u].op)
  BY DEF IndInv, HandleInv, ApartFrom
<1>2. Calm => "set_token_counter" \notin Risks(call[t].op, call[u].op)
  BY DEF IndInv, CounterInv, ApartFrom
<1> QED  BY <1>1, <1>2, NoRisk

(* A closed arena refuses the call.                                        *)
LEMMA ClosedInv ==
  ASSUME IndInv, NEW t \in Threads, Closed(t)
  PROVE  IndInv'
<1>1. /\ Moves(t) /\ call'[t] = Idle /\ call'[t].at = "idle" /\ call'[t].uses = 0
      /\ lock' = (IF lock = t THEN None ELSE lock)
      /\ UNCHANGED <<handle, field, live, counter>> /\ handle = 0
      /\ ~Past(t) /\ ~Past(t)'
  BY DEF Closed, Leave, Moves, Inside, IndInv, TypeOK, Idle, Past
<1>2. TypeOK'
  BY DEF Closed, Leave, IndInv, TypeOK, Idle, Places
<1>3. /\ LockHeld' /\ Unraced' /\ (Quiet' <=> Quiet) /\ (Calm' <=> Calm)
      /\ \A risk : ApartFrom(risk) => ApartFrom(risk)'
      /\ \A u \in Threads : (Past(u)' <=> Past(u)) /\ (Freed(u)' <=> Freed(u)) /\ (Setting(u)' <=> Setting(u))
  BY <1>1, MoveKeeps DEF Freed, Setting, Past
<1>4. ASSUME HandleInv PROVE HandleInv'
  BY <1>1, <1>3, <1>4 DEF HandleInv, OpenInside, ClosedState
<1>5. ASSUME CounterInv PROVE CounterInv'
  <2>1. CounterKept'
    BY <1>1, <1>3, <1>5 DEF CounterInv, CounterKept, Moves, Setting, Past
  <2>2. UsesCounter'
    BY <1>1, <1>5 DEF CounterInv, UsesCounter, Moves
  <2> QED  BY <1>3, <1>5, <2>1, <2>2 DEF CounterInv
<1> QED  BY <1>2, <1>3, <1>4, <1>5 DEF IndInv

(* The arena is open, and nobody is about to close it.                     *)
LEMMA CheckInv ==
  ASSUME IndInv, NEW t \in Threads, Check(t)
  PROVE  IndInv'
<1>1. /\ Moves(t) /\ call[t].at = "entered"
      /\ call'[t].at = "checked" /\ call'[t].op = call[t].op /\ call'[t].made = call[t].made
      /\ call'[t].uses = call[t].uses
      /\ UNCHANGED <<lock, handle, live, counter>> /\ handle = 1
      /\ field' = FieldBefore(t)
  BY DEF Check, Moves, Inside, IndInv, TypeOK
<1>2. TypeOK'
  BY DEF Check, IndInv, TypeOK, Places, FieldBefore
<1>3. /\ LockHeld' /\ Unraced' /\ (Quiet' <=> Quiet) /\ (Calm' <=> Calm)
      /\ \A risk : ApartFrom(risk) => ApartFrom(risk)'
  BY <1>1, MoveKeeps
<1>4. \A u \in Threads : u # t =>
        /\ Past(u)' <=> Past(u)
        /\ Freed(u)' <=> Freed(u)
        /\ Setting(u)' <=> Setting(u)
  BY <1>1, MoveKeeps
<1>5. ASSUME Quiet PROVE HandleInv'
  <2>1. live
    <3>1. ASSUME NEW u \in Threads, Freed(u)  PROVE FALSE
      BY <1>1, <1>5, <3>1, Others DEF Freed, Inside, Moves
    <3> QED  BY <1>1, <1>5, <3>1 DEF IndInv, HandleInv, ClosedState, TypeOK
  <2>2. OpenInside'
    BY <1>1, <1>4, <1>5, <2>1 DEF IndInv, HandleInv, OpenInside, Freed
  <2>3. ClosedState'
    BY <1>1, <2>1 DEF ClosedState
  <2> QED  BY <1>3, <1>5, <2>2, <2>3 DEF IndInv, HandleInv
<1>6. ASSUME Calm PROVE CounterInv'
  <2>1. ASSUME call[t].op = "set_token_counter" PROVE CounterKept'
    <3>1. Setting(t)' /\ (kind # "go" => field' = call[t].made)
      BY <1>1, <2>1 DEF Setting, Past, FieldBefore
    <3>2. \A u \in Threads : u # t => ~Setting(u)'
      BY <1>1, <1>4, <1>6, <2>1, Others DEF Calm, Setting, Past, Inside, Moves
    <3> QED  BY <1>1, <3>1, <3>2 DEF CounterKept, Moves
  <2>2. ASSUME call[t].op # "set_token_counter" PROVE CounterKept'
    <3>1. field' = field /\ ~Setting(t) /\ ~Setting(t)'
      BY <1>1, <2>2 DEF Setting, FieldBefore
    <3> QED  BY <1>1, <1>4, <1>6, <3>1 DEF IndInv, CounterInv, CounterKept, Moves
  <2>3. UsesCounter'
    BY <1>1, <1>6 DEF IndInv, CounterInv, UsesCounter, Moves
  <2> QED  BY <1>3, <1>6, <2>1, <2>2, <2>3 DEF IndInv, CounterInv
<1> QED  BY <1>2, <1>3, <1>5, <1>6 DEF IndInv

(* The handle that is passed is not null: the call goes on.                *)
LEMMA CallInv ==
  ASSUME IndInv, NEW t \in Threads, Call(t)
  PROVE  IndInv'
<1> DEFINE given == IF GivenEarly(call[t].op) THEN call[t].given ELSE handle
           uses == IF given # 0 /\ call[t].op = "prepare" THEN counter ELSE 0
<1>1. /\ Moves(t) /\ call[t].at = "checked"
      /\ call'[t].at = (IF given = 0 THEN "over" ELSE "native")
      /\ call'[t].op = call[t].op /\ call'[t].made = call[t].made
      /\ call'[t].uses = uses
      /\ UNCHANGED <<lock, handle, live, counter, field>>
  BY DEF Call, Moves, Inside, IndInv, TypeOK
<1>2. TypeOK'
  BY DEF Call, IndInv, TypeOK, Places
<1>3. /\ LockHeld' /\ Unraced' /\ (Quiet' <=> Quiet) /\ (Calm' <=> Calm)
      /\ \A risk : ApartFrom(risk) => ApartFrom(risk)'
  BY <1>1, MoveKeeps
<1>4. \A u \in Threads : u # t =>
        /\ Past(u)' <=> Past(u)
        /\ Freed(u)' <=> Freed(u)
        /\ Setting(u)' <=> Setting(u)
  BY <1>1, MoveKeeps
<1>5. ASSUME Quiet
      PROVE  /\ handle = 1 /\ live
             /\ call[t].op \in {"close", "set_token_counter", "prepare"} => call'[t].at = "native"
             /\ Past(t) /\ Past(t)' /\ ~Freed(t) /\ ~Freed(t)' /\ (Setting(t)' <=> Setting(t))
  <2>1. handle = 1 /\ live
    BY <1>1, <1>5 DEF IndInv, HandleInv, OpenInside, Past, Freed
  <2>2. call[t].op \in {"close", "set_token_counter", "prepare"} => call'[t].at = "native"
    BY <1>1, <2>1 DEF GivenEarly
  <2> QED  BY <1>1, <2>1, <2>2 DEF Past, Freed, Setting
<1>6. ASSUME Quiet PROVE HandleInv'
  <2>1. OpenInside' /\ ClosedState'
    BY <1>1, <1>4, <1>5, <1>6 DEF IndInv, HandleInv, OpenInside, ClosedState
  <2> QED  BY <1>3, <1>6, <2>1 DEF IndInv, HandleInv
<1>7. ASSUME Calm PROVE CounterInv'
  <2>1. \A u \in Threads : (Setting(u)' <=> Setting(u)) /\ call'[u].made = call[u].made
    BY <1>1, <1>4, <1>5, <1>7 DEF Calm, Moves
  <2>2. \A u \in Threads : Setting(u) /\ call'[u].at = "over" => call[u].at = "over"
    BY <1>1, <1>5, <1>7 DEF Calm, Setting, Moves
  <2>3. CounterKept'
    BY <1>1, <1>7, <2>1, <2>2 DEF IndInv, CounterInv, CounterKept, Moves
  <2>4. UsesCounter'
    BY <1>1, <1>7 DEF IndInv, CounterInv, UsesCounter, Moves
  <2> QED  BY <1>3, <1>7, <2>3, <2>4 DEF IndInv, CounterInv
<1> QED  BY <1>2, <1>3, <1>6, <1>7 DEF IndInv

(* The native function: close frees the arena with nobody else inside, a   *)
(* counter is replaced with no prepare and no other counter inside.        *)
LEMMA NativeInv ==
  ASSUME IndInv, NEW t \in Threads, Native(t)
  PROVE  IndInv'
<1>1. /\ Moves(t) /\ call[t].at = "native" /\ live
      /\ call'[t].at = "over" /\ call'[t].op = call[t].op /\ call'[t].made = call[t].made
      /\ call'[t].uses = 0
      /\ UNCHANGED <<lock, handle, field>>
      /\ counter' = (IF call[t].op = "set_token_counter" THEN call[t].made ELSE counter)
      /\ live' = (call[t].op # "close")
  BY DEF Native, Moves, Inside, IndInv, TypeOK
<1>2. TypeOK'
  BY ZenonT(60) DEF Native, IndInv, TypeOK, Places
<1>3. /\ LockHeld' /\ Unraced' /\ (Quiet' <=> Quiet) /\ (Calm' <=> Calm)
      /\ \A risk : ApartFrom(risk) => ApartFrom(risk)'
  BY <1>1, MoveKeeps
<1>4. \A u \in Threads : u # t =>
        /\ Past(u)' <=> Past(u)
        /\ Freed(u)' <=> Freed(u)
        /\ Setting(u)' <=> Setting(u)
  BY <1>1, MoveKeeps
<1>5. Past(t) /\ Past(t)' /\ (Setting(t)' <=> Setting(t)) /\ (Freed(t)' <=> call[t].op = "close")
  BY <1>1 DEF Past, Freed, Setting
<1>6. ASSUME Quiet, NEW u \in Threads, u # t, Inside(u)
      PROVE  /\ call[t].op # "close"
             /\ Calm /\ call[t].op = "set_token_counter" =>
                  call[u].op \notin {"set_token_counter", "prepare"}
  BY <1>1, <1>6, Others DEF Moves
<1>7. ASSUME Quiet PROVE HandleInv'
  <2>1. handle = 1
    BY <1>1, <1>7 DEF IndInv, HandleInv, OpenInside, Past
  <2>2. ASSUME NEW u \in Threads, u # t, Past(u)  PROVE ~Freed(u) /\ live' /\ handle' = 1
    <3>1. Inside(u)  BY <2>2 DEF Past, Inside
    <3> QED  BY <1>1, <1>6, <1>7, <2>1, <2>2, <3>1 DEF IndInv, HandleInv, OpenInside
  <2>3. OpenInside'
    BY <1>1, <1>4, <1>5, <2>1, <2>2 DEF OpenInside
  <2>4. ~live' => Freed(t)'
    BY <1>1, <1>5
  <2>5. ClosedState'
    BY <1>1, <2>1, <2>4 DEF ClosedState
  <2> QED  BY <1>3, <1>7, <2>3, <2>5 DEF IndInv, HandleInv
<1>8. ASSUME Calm PROVE CounterInv'
  <2>1. Quiet
    BY <1>8 DEF Calm
  <2>2. ASSUME call[t].op = "set_token_counter" PROVE CounterKept'
    <3>1. \A u \in Threads : u # t => ~Setting(u)'
      BY <1>4, <1>6, <1>8, <2>1, <2>2 DEF Setting, Past, Inside
    <3>2. Setting(t) /\ Setting(t)'
      BY <1>5, <2>2 DEF Setting
    <3> QED  BY <1>1, <1>8, <2>2, <3>1, <3>2 DEF IndInv, CounterInv, CounterKept, Moves
  <2>3. ASSUME call[t].op # "set_token_counter" PROVE CounterKept'
    <3>1. ~Setting(t) /\ ~Setting(t)'
      BY <1>1, <2>3 DEF Setting
    <3> QED  BY <1>1, <1>4, <1>8, <2>3, <3>1 DEF IndInv, CounterInv, CounterKept, Moves
  <2>4. UsesCounter'
    <3>1. ASSUME NEW u \in Threads, u # t, call[u].uses # 0  PROVE counter' = counter
      <4>1. Inside(u) /\ call[u].op = "prepare"
        BY <1>8, <3>1 DEF IndInv, CounterInv, UsesCounter, Inside
      <4> QED  BY <1>1, <1>6, <1>8, <2>1, <3>1, <4>1
    <3> QED  BY <1>1, <1>8, <3>1 DEF IndInv, CounterInv, UsesCounter, Moves
  <2> QED  BY <1>3, <1>8, <2>2, <2>3, <2>4 DEF IndInv, CounterInv
<1> QED  BY <1>2, <1>3, <1>7, <1>8 DEF IndInv

(* A call in a freed arena: a close has overlapped another call.           *)
LEMMA UseFreedInv ==
  ASSUME IndInv, NEW t \in Threads, UseFreed(t)
  PROVE  IndInv'
<1>1. /\ Moves(t) /\ call[t].at = "native" /\ ~live
      /\ call'[t].at = "over" /\ call'[t].op = call[t].op /\ lock' = lock
  BY DEF UseFreed, Moves, Inside, IndInv, TypeOK
<1>2. TypeOK'
  BY ZenonT(60) DEF UseFreed, IndInv, TypeOK, Places
<1>3. LockHeld' /\ Unraced' /\ (Quiet' <=> Quiet) /\ (Calm' <=> Calm)
  BY <1>1, MoveKeeps
<1>4. ~Quiet
  BY <1>1 DEF IndInv, HandleInv, OpenInside, Past, Freed
<1> QED  BY <1>2, <1>3, <1>4 DEF IndInv, Calm

(* The binding settles its own fields and the call leaves.                 *)
LEMMA ReturnInv ==
  ASSUME IndInv, NEW t \in Threads, Return(t)
  PROVE  IndInv'
<1>1. /\ Moves(t) /\ call[t].at = "over"
      /\ call'[t].at = "idle" /\ call'[t].uses = 0
      /\ lock' = (IF lock = t THEN None ELSE lock)
      /\ UNCHANGED <<live, counter>>
      /\ field' = FieldAfter(t)
      /\ handle' = (IF call[t].op = "close" THEN 0 ELSE handle)
  BY DEF Return, Leave, Moves, Inside, IndInv, TypeOK, Idle
<1>2. TypeOK'
  BY DEF Return, Leave, IndInv, TypeOK, Idle, Places, FieldAfter
<1>3. /\ LockHeld' /\ Unraced' /\ (Quiet' <=> Quiet) /\ (Calm' <=> Calm)
      /\ \A risk : ApartFrom(risk) => ApartFrom(risk)'
  BY <1>1, MoveKeeps
<1>4. \A u \in Threads : u # t =>
        /\ Past(u)' <=> Past(u)
        /\ Freed(u)' <=> Freed(u)
        /\ Setting(u)' <=> Setting(u)
  BY <1>1, MoveKeeps
<1>5. ASSUME Quiet
      PROVE  Past(t) /\ handle = 1 /\ (live <=> call[t].op # "close")
  BY <1>1, <1>5 DEF IndInv, HandleInv, OpenInside, Past, Freed
<1>6. ~Past(t)' /\ ~Freed(t)' /\ ~Setting(t)'
  BY <1>1 DEF Past, Freed, Setting
<1>7. ASSUME Quiet, NEW u \in Threads, u # t, Inside(u)
      PROVE  /\ call[t].op # "close"
             /\ Calm /\ call[t].op = "set_token_counter" =>
                  call[u].op \notin {"set_token_counter", "prepare"}
  BY <1>1, <1>7, Others DEF Moves
<1>8. \A u \in Threads : Past(u) => Inside(u)
  BY DEF Past, Inside
<1>9. ASSUME Quiet PROVE HandleInv'
  <2>1. ASSUME NEW u \in Threads, u # t, Past(u)  PROVE (live <=> ~Freed(u)) /\ handle' = 1
    BY <1>1, <1>5, <1>7, <1>8, <1>9, <2>1 DEF IndInv, HandleInv, OpenInside
  <2>2. OpenInside'
    BY <1>1, <1>4, <1>6, <2>1 DEF OpenInside
  <2>3. ClosedState'
    BY <1>1, <1>5, <1>9 DEF ClosedState, FieldAfter
  <2> QED  BY <1>3, <1>9, <2>2, <2>3 DEF IndInv, HandleInv
<1>10. ASSUME Calm PROVE CounterInv'
  <2>1. Quiet /\ CounterKept /\ UsesCounter
    BY <1>10 DEF Calm, IndInv, CounterInv
  <2>2. ASSUME call[t].op = "set_token_counter" PROVE CounterKept'
    <3>1. \A u \in Threads : ~Setting(u)'
      BY <1>4, <1>6, <1>7, <1>8, <1>10, <2>1, <2>2 DEF Setting
    <3>2. field' = counter
      BY <1>1, <1>5, <2>1, <2>2 DEF CounterKept, Setting, FieldAfter
    <3> QED  BY <1>1, <3>1, <3>2 DEF CounterKept
  <2>3. ASSUME call[t].op = "close" PROVE CounterKept'
    BY <1>1, <1>4, <1>5, <1>6, <1>7, <1>8, <2>1, <2>3 DEF CounterKept, Setting
  <2>4. ASSUME call[t].op \notin {"close", "set_token_counter"} PROVE CounterKept'
    <3>1. field' = field /\ ~Setting(t)
      BY <1>1, <2>4 DEF FieldAfter, Setting
    <3> QED  BY <1>1, <1>4, <1>6, <2>1, <3>1 DEF CounterKept, Moves
  <2>5. UsesCounter'
    BY <1>1, <2>1 DEF UsesCounter, Moves
  <2> QED  BY <1>3, <1>10, <2>2, <2>3, <2>4, <2>5 DEF IndInv, CounterInv
<1> QED  BY <1>2, <1>3, <1>9, <1>10 DEF IndInv

-----------------------------------------------------------------------------

LEMMA Stutter ==
  ASSUME IndInv, UNCHANGED vars  PROVE IndInv'
BY DEF IndInv, vars, TypeOK, LockHeld, Unraced, Quiet, Calm, HandleInv, CounterInv, ApartFrom,
       Inside, OpenInside, Past, Freed, ClosedState, CounterKept, Setting, UsesCounter, Locked,
       Risks

LEMMA InvAlways == Spec => []IndInv
<1>1. IndInv /\ [Next]_vars => IndInv'
  <2> SUFFICES ASSUME IndInv, [Next]_vars  PROVE IndInv'
    OBVIOUS
  <2>1. CASE Next
    BY <2>1, EnterInv, ClosedInv, CheckInv, CallInv, NativeInv, UseFreedInv, ReturnInv DEF Next
  <2>2. CASE UNCHANGED vars
    BY <2>2, Stutter
  <2> QED  BY <2>1, <2>2
<1> QED  BY InitInv, <1>1, PTL DEF Spec

(* What the properties ask for is what the invariant offers.               *)
LEMMA RisksTaken ==
  ASSUME IndInv
  PROVE  /\ ~Taken("close") <=> Quiet
         /\ ~Taken("close") /\ ~Taken("set_token_counter") <=> Calm
BY DEF IndInv, Unraced, Taken, Quiet, Calm

(* For any threads, whatever they call and when: in Go and .NET a thread   *)
(* inside the native library has a live handle, because of their mutex; in *)
(* Python only a close that overlaps another call can take it away.        *)
THEOREM HandlesLive == Spec => []CallsUseLiveHandle
<1>1. IndInv => CallsUseLiveHandle
  <2> SUFFICES ASSUME IndInv, Quiet, NEW t \in Threads, call[t].at = "native"
               PROVE  /\ live
                      /\ call[t].op = "close" =>
                           \A u \in Threads \ {t} : call[u].at # "native"
    BY RisksTaken DEF CallsUseLiveHandle
  <2>1. live
    BY DEF IndInv, HandleInv, OpenInside, Past, Freed
  <2>2. \A u \in Threads \ {t} : call[u].at = "native" => call[t].op # "close"
    BY Others DEF Inside
  <2> QED  BY <2>1, <2>2
<1> QED  BY InvAlways, <1>1, PTL

(* For any threads and any number of counters: the counter a prepare calls *)
(* is kept alive by the binding and not replaced under it; in Python       *)
(* unless one was set, or the arena closed, during another call.           *)
THEOREM CallbacksLive == Spec => []CallsLiveCallback
<1>1. IndInv => CallsLiveCallback
  <2> SUFFICES ASSUME IndInv, Calm, NEW t \in Threads, call[t].uses # 0
               PROVE  /\ Kept(call[t].uses)
                      /\ \A u \in Threads : call[u].at = "native" => call[u].op # "set_token_counter"
    BY RisksTaken DEF CallsLiveCallback
  <2>1. call[t].at = "native" /\ call[t].op = "prepare" /\ call[t].uses = counter /\ Quiet
    BY DEF IndInv, CounterInv, UsesCounter, Calm
  <2>2. \A u \in Threads : Inside(u) => call[u].op # "set_token_counter"
    BY <2>1, Others DEF Inside
  <2>3. field = counter
    <3>1. \A u \in Threads : ~Setting(u)
      BY <2>2 DEF Setting, Past, Inside
    <3>2. live
      BY <2>1 DEF IndInv, HandleInv, OpenInside, Past, Freed
    <3> QED  BY <3>1, <3>2 DEF IndInv, CounterInv, CounterKept
  <2> QED  BY <2>1, <2>2, <2>3 DEF Kept, Inside
<1> QED  BY InvAlways, <1>1, PTL

(* Between calls an arena that is closed is freed, and the binding keeps   *)
(* exactly what the arena would call; in Python unless a close overlapped  *)
(* another call, or two calls raced to set it.                             *)
THEOREM NothingLeft == Spec => []NothingLeftBehind
<1>1. IndInv => NothingLeftBehind
  <2> SUFFICES ASSUME IndInv, Quiet, \A t \in Threads : call[t].at = "idle"
               PROVE  /\ live <=> handle # 0
                      /\ ~live => field = 0
                      /\ live /\ Calm => field = counter
    BY RisksTaken DEF NothingLeftBehind
  <2>1. \A t \in Threads : ~Freed(t) /\ ~Setting(t)
    BY DEF Freed, Setting, Past
  <2>2. (live <=> handle # 0) /\ (~live => field = 0)
    BY <2>1 DEF IndInv, HandleInv, OpenInside, ClosedState, TypeOK
  <2> QED  BY <2>1, <2>2 DEF IndInv, CounterInv, CounterKept
<1> QED  BY InvAlways, <1>1, PTL
=============================================================================
