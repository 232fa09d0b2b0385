------------------------- MODULE MEGDTAdapter_proofs -------------------------
(***************************************************************************)
(* Theorems about MEGDTAdapter, for every set of calls and of app ids: GDT *)
(* is registered once, before any call returns, and its outcome is told to *)
(* at most one of them.                                                    *)
(***************************************************************************)
EXTENDS MEGDTAdapter, TLAPS

\* A call that is in the block of dispatch_once.
Inside(c) == pc[c] \in {"inside", "registered", "completed", "stuck"}

\* dispatch_once lets one call at a time into the block; its token says
\* whether one is inside and whether one has left.
OnceInv ==
    /\ \A c, d \in Calls : Inside(c) /\ Inside(d) => c = d
    /\ \A c \in Calls : Inside(c) => onceToken = "running"
    /\ \A c \in Calls : pc[c] = "returned" => onceToken = "done"

\* How far the call inside is tells whether GDT has been registered.
RegisteredInv ==
    /\ onceToken = "fresh" => Len(registrations) = 0
    /\ onceToken = "done" => Len(registrations) = 1
    /\ \A c \in Calls : pc[c] = "inside" => Len(registrations) = 0
    /\ \A c \in Calls :
         Inside(c) /\ pc[c] # "inside" => Len(registrations) = 1

\* Only a call that has been through the block has been told something.
ToldInv ==
    \A c \in Calls :
      completed[c] # "no" => pc[c] \in {"completed", "stuck", "returned"}

IInv == TypeOK /\ OnceInv /\ RegisteredInv /\ ToldInv /\ OutcomeIsTold

LEMMA InitInv == Init => IInv
BY DEF Init, IInv, TypeOK, OnceInv, RegisteredInv, ToldInv, OutcomeIsTold,
       Inside, Completions

LEMMA UpdateInv ==
    ASSUME IInv, NEW id \in AppIds \cup {NoAppId},
           UpdateInitializationParameters(id)
    PROVE  IInv'
BY DEF UpdateInitializationParameters, IInv, TypeOK, OnceInv, RegisteredInv,
       ToldInv, OutcomeIsTold, Inside, Completions

LEMMA CallInv ==
    ASSUME IInv, NEW c \in Calls, Call(c)
    PROVE  IInv'
<1>1. TypeOK'
  BY DEF Call, IInv, TypeOK
<1>2. OnceInv' /\ RegisteredInv'
  BY DEF Call, IInv, TypeOK, OnceInv, RegisteredInv, Inside
<1>3. ToldInv' /\ OutcomeIsTold'
  BY DEF Call, IInv, TypeOK, ToldInv, OutcomeIsTold
<1> QED BY <1>1, <1>2, <1>3 DEF IInv

LEMMA EnterInv ==
    ASSUME IInv, NEW c \in Calls, Enter(c)
    PROVE  IInv'
<1>1. TypeOK'
  BY DEF Enter, IInv, TypeOK
<1>2. OnceInv' /\ RegisteredInv'
  BY DEF Enter, IInv, TypeOK, OnceInv, RegisteredInv, Inside
<1>3. ToldInv' /\ OutcomeIsTold'
  BY DEF Enter, IInv, TypeOK, OnceInv, Inside, ToldInv, OutcomeIsTold
<1> QED BY <1>1, <1>2, <1>3 DEF IInv

LEMMA PassInv ==
    ASSUME IInv, NEW c \in Calls, Pass(c)
    PROVE  IInv'
<1>1. TypeOK'
  BY DEF Pass, IInv, TypeOK
<1>2. OnceInv' /\ RegisteredInv'
  BY DEF Pass, IInv, TypeOK, OnceInv, RegisteredInv, Inside
<1>3. ToldInv' /\ OutcomeIsTold'
  BY DEF Pass, IInv, TypeOK, OnceInv, Inside, ToldInv, OutcomeIsTold
<1> QED BY <1>1, <1>2, <1>3 DEF IInv

\* The only step that registers: the call inside is the only one, and
\* nobody has registered or been told before it.
LEMMA RegisterInv ==
    ASSUME IInv, NEW c \in Calls, Register(c)
    PROVE  IInv'
<1>1. PICK result \in BOOLEAN :
        registrations' = Append(registrations,
                                [id |-> kGDTAppID, ok |-> result])
  BY DEF Register
<1>2. Inside(c) /\ Len(registrations) = 0 /\ onceToken = "running"
  BY DEF Register, IInv, OnceInv, RegisteredInv, Inside
<1>3. /\ Len(registrations') = 1
      /\ registrations' \in Seq([id : AppIds \cup {kGDTAppID}, ok : BOOLEAN])
  BY <1>1, <1>2 DEF IInv, TypeOK
<1>4. TypeOK'
  BY <1>3 DEF Register, IInv, TypeOK
<1>5. OnceInv' /\ RegisteredInv'
  BY <1>2, <1>3 DEF Register, IInv, TypeOK, OnceInv, RegisteredInv, Inside
<1>6. \A d \in Calls : completed[d] = "no"
  <2>1. ASSUME NEW d \in Calls, completed[d] # "no"
        PROVE  FALSE
    <3>1. pc[d] \in {"completed", "stuck", "returned"}
      BY <2>1 DEF IInv, ToldInv
    <3>2. Len(registrations) = 1
      BY <2>1 DEF IInv, OutcomeIsTold
    <3> QED BY <1>2, <3>2
  <2> QED BY <2>1
<1>7. ToldInv' /\ OutcomeIsTold'
  BY <1>2, <1>6
     DEF Register, IInv, TypeOK, OnceInv, Inside, ToldInv, OutcomeIsTold
<1> QED BY <1>4, <1>5, <1>7 DEF IInv

\* The only step that tells an outcome: the call inside is the only one, and
\* none has returned.
LEMMA CompleteInv ==
    ASSUME IInv, NEW c \in Calls, Complete(c)
    PROVE  IInv'
<1>1. Inside(c) /\ Len(registrations) = 1 /\ onceToken = "running"
  BY DEF Complete, IInv, OnceInv, RegisteredInv, Inside
<1>2. TypeOK'
  BY DEF Complete, IInv, TypeOK
<1>3. OnceInv' /\ RegisteredInv'
  BY <1>1 DEF Complete, IInv, TypeOK, OnceInv, RegisteredInv, Inside
<1>4. \A d \in Calls : completed[d] = "no"
  <2>1. ASSUME NEW d \in Calls, completed[d] # "no"
        PROVE  FALSE
    <3>1. pc[d] \in {"completed", "stuck", "returned"}
      BY <2>1 DEF IInv, ToldInv
    <3>2. CASE pc[d] = "returned"
      BY <3>2, <1>1 DEF IInv, OnceInv
    <3>3. CASE pc[d] # "returned"
      BY <3>1, <3>3, <1>1 DEF IInv, OnceInv, Inside, Complete
    <3> QED BY <3>2, <3>3
  <2> QED BY <2>1
<1>5. ToldInv'
  BY <1>4 DEF Complete, IInv, TypeOK, ToldInv
<1>6. OutcomeIsTold'
  BY <1>1, <1>4 DEF Complete, IInv, TypeOK, OutcomeIsTold
<1> QED BY <1>2, <1>3, <1>5, <1>6 DEF IInv

LEMMA LeaveInv ==
    ASSUME IInv, NEW c \in Calls, Leave(c)
    PROVE  IInv'
<1>1. TypeOK'
  BY DEF Leave, IInv, TypeOK
<1>2. OnceInv'
  BY DEF Leave, IInv, TypeOK, OnceInv, Inside
<1>3. RegisteredInv'
  BY DEF Leave, IInv, TypeOK, OnceInv, RegisteredInv, Inside
<1>4. ToldInv' /\ OutcomeIsTold'
  BY DEF Leave, IInv, TypeOK, OnceInv, Inside, ToldInv, OutcomeIsTold
<1> QED BY <1>1, <1>2, <1>3, <1>4 DEF IInv

LEMMA StepInv == IInv /\ [Next]_vars => IInv'
<1> SUFFICES ASSUME IInv, [Next]_vars PROVE IInv'
  OBVIOUS
<1>1. CASE UNCHANGED vars
  BY <1>1 DEF vars, IInv, TypeOK, OnceInv, RegisteredInv, ToldInv,
              OutcomeIsTold, Inside, Completions
<1>2. CASE \E id \in AppIds \cup {NoAppId} :
             UpdateInitializationParameters(id)
  BY <1>2, UpdateInv
<1>3. ASSUME NEW c \in Calls, Call(c) \/ Proceed(c) PROVE IInv'
  BY <1>3, CallInv, EnterInv, PassInv, RegisterInv, CompleteInv, LeaveInv
     DEF Proceed
<1> QED BY <1>1, <1>2, <1>3 DEF Next

LEMMA AlwaysIInv == Spec => []IInv
BY InitInv, StepInv, PTL DEF Spec

\* Type correctness of the initialisation, which includes that GDT is
\* registered at most once.
THEOREM InitTypeCorrect == Spec => []TypeOK
<1>1. IInv => TypeOK
  BY DEF IInv
<1> QED BY <1>1, AlwaysIInv, PTL

\* However many threads initialise, no call of
\* initializeNetworkWithConfiguration:complete: returns before GDT has been
\* registered.
THEOREM NoEarlyReturn == Spec => []ReturnsRegistered
<1>1. IInv => ReturnsRegistered
  BY DEF IInv, OnceInv, RegisteredInv, ReturnsRegistered
<1> QED BY <1>1, AlwaysIInv, PTL

\* At most one completion block is called, with the outcome of the one
\* registration, and before any call returns.
THEOREM OneOutcome == Spec => []OutcomeIsTold
<1>1. IInv => OutcomeIsTold
  BY DEF IInv
<1> QED BY <1>1, AlwaysIInv, PTL
=============================================================================
