---------------------------- MODULE MEGDTAdapter ----------------------------
(***************************************************************************)
(* Initialising the GDT SDK.                                               *)
(*                                                                         *)
(* initializeNetworkWithConfiguration:complete: may be called from any     *)
(* thread, and more than once; dispatch_once lets one call through and     *)
(* holds the calls that arrive meanwhile until that one has left its       *)
(* block.  updateInitializationParameters: caches the app id that an ad    *)
(* response carries.                                                       *)
(***************************************************************************)
EXTENDS Naturals, Sequences

CONSTANTS
    Calls,    \* the calls of initializeNetworkWithConfiguration:complete:
    AppIds,   \* the app ids a configuration may carry
    NoAppId   \* the configuration, or the cache, has no app id

ASSUME NoAppIdAssumption == NoAppId \notin AppIds

VARIABLES
    pc,             \* pc[c]: how far call c has come
    configuration,  \* configuration[c]: the app id call c was given
    block,          \* block[c]: what complete does; "nil": there is none
    onceToken,      \* "fresh", "running" or "done"
    registrations,  \* the ids GDT was registered with, and the results
    completed,      \* completed[c]: what complete was called with, if it was
    cached          \* the app id of setCachedInitializationParameters:

vars == <<pc, configuration, block, onceToken, registrations, completed,
          cached>>

\* The key under which a configuration holds the app id.
kGDTAppID == "appid"

\* What a caller may pass as complete.
Completions == {"nil", "returns", "initialises"}

Init ==
    /\ pc = [c \in Calls |-> "before"]
    /\ configuration = [c \in Calls |-> NoAppId]
    /\ block = [c \in Calls |-> "nil"]
    /\ onceToken = "fresh"
    /\ registrations = <<>>
    /\ completed = [c \in Calls |-> "no"]
    /\ cached = NoAppId

\* updateInitializationParameters: with the app id of an ad response.
UpdateInitializationParameters(appId) ==
    /\ cached' = IF appId # NoAppId THEN appId ELSE cached
    /\ UNCHANGED <<pc, configuration, block, onceToken, registrations,
                   completed>>

\* A thread calls initializeNetworkWithConfiguration:complete:.
Call(c) ==
    /\ pc[c] = "before"
    /\ pc' = [pc EXCEPT ![c] = "called"]
    /\ \E id \in AppIds \cup {NoAppId} :
         configuration' = [configuration EXCEPT ![c] = id]
    /\ \E b \in Completions : block' = [block EXCEPT ![c] = b]
    /\ UNCHANGED <<onceToken, registrations, completed, cached>>

\* Mutant: a flag that is set when the block ends instead of dispatch_once.
EnterUnlessDone(c) ==
    /\ pc[c] = "called"
    /\ onceToken # "done"
    /\ onceToken' = "running"
    /\ pc' = [pc EXCEPT ![c] = "inside"]
    /\ UNCHANGED <<configuration, block, registrations, completed, cached>>

\* dispatch_once: the first call enters the block.
Enter(c) ==
    /\ pc[c] = "called"
    /\ onceToken = "fresh"
    /\ onceToken' = "running"
    /\ pc' = [pc EXCEPT ![c] = "inside"]
    /\ UNCHANGED <<configuration, block, registrations, completed, cached>>

\* Mutant: a flag that is set when the block begins instead of dispatch_once.
PassUnlessFresh(c) ==
    /\ pc[c] = "called"
    /\ onceToken # "fresh"
    /\ pc' = [pc EXCEPT ![c] = "returned"]
    /\ UNCHANGED <<configuration, block, onceToken, registrations,
                   completed, cached>>

\* dispatch_once: once the block has been run the others go by, waiting for
\* that if need be.
Pass(c) ==
    /\ pc[c] = "called"
    /\ onceToken = "done"
    /\ pc' = [pc EXCEPT ![c] = "returned"]
    /\ UNCHANGED <<configuration, block, onceToken, registrations,
                   completed, cached>>

\* [GDTSDKConfig registerAppId:], with the key, not with what the
\* configuration holds under it; GDT says whether it worked.
Register(c) ==
    /\ pc[c] = "inside"
    /\ pc' = [pc EXCEPT ![c] = "registered"]
    /\ \E result \in BOOLEAN :
         registrations' = Append(registrations,
                                 [id |-> kGDTAppID, ok |-> result])
    /\ UNCHANGED <<configuration, block, onceToken, completed, cached>>

\* Mutant: the result is not looked at.
CompleteAlwaysNil(c) ==
    /\ pc[c] = "registered"
    /\ pc' = [pc EXCEPT ![c] = IF block[c] = "initialises" THEN "stuck"
                               ELSE "completed"]
    /\ completed' = [completed EXCEPT ![c] = IF block[c] = "nil" THEN "no"
                                             ELSE "nil"]
    /\ UNCHANGED <<configuration, block, onceToken, registrations, cached>>

\* complete(nil) or complete(error), if there is a block to call.  A block
\* that initialises again meets the dispatch_once it is called from, and does
\* not come back.
Complete(c) ==
    /\ pc[c] = "registered"
    /\ pc' = [pc EXCEPT ![c] = IF block[c] = "initialises" THEN "stuck"
                               ELSE "completed"]
    /\ completed' =
         [completed EXCEPT ![c] =
            IF block[c] = "nil" THEN "no"
            ELSE IF registrations[Len(registrations)].ok THEN "nil"
            ELSE "error"]
    /\ UNCHANGED <<configuration, block, onceToken, registrations, cached>>

\* Mutant: the token is not marked.
LeaveUnmarked(c) ==
    /\ pc[c] = "completed"
    /\ pc' = [pc EXCEPT ![c] = "returned"]
    /\ UNCHANGED <<configuration, block, onceToken, registrations,
                   completed, cached>>

\* The block ends.
Leave(c) ==
    /\ pc[c] = "completed"
    /\ onceToken' = "done"
    /\ pc' = [pc EXCEPT ![c] = "returned"]
    /\ UNCHANGED <<configuration, block, registrations, completed, cached>>

\* What a call does once it has begun.
Proceed(c) == Enter(c) \/ Pass(c) \/ Register(c) \/ Complete(c) \/ Leave(c)

Next ==
    \/ \E id \in AppIds \cup {NoAppId} : UpdateInitializationParameters(id)
    \/ \E c \in Calls : Call(c) \/ Proceed(c)

\* Threads that can run do run; nobody has to call.
Spec == Init /\ [][Next]_vars /\ \A c \in Calls : WF_vars(Proceed(c))

----------------------------------------------------------------------------
(* Properties.                                                             *)

\* Every variable has its type; GDT is registered at most once.
TypeOK ==
    /\ pc \in [Calls -> {"before", "called", "inside", "registered",
                         "completed", "stuck", "returned"}]
    /\ configuration \in [Calls -> AppIds \cup {NoAppId}]
    /\ block \in [Calls -> Completions]
    /\ onceToken \in {"fresh", "running", "done"}
    /\ registrations \in Seq([id : AppIds \cup {kGDTAppID}, ok : BOOLEAN])
    /\ Len(registrations) <= 1
    /\ completed \in [Calls -> {"no", "nil", "error"}]
    /\ cached \in AppIds \cup {NoAppId}

\* No call returns before GDT has been registered, whichever call did it.
ReturnsRegistered ==
    \A c \in Calls : pc[c] = "returned" => Len(registrations) = 1

\* At most one call is told the outcome, and it is the outcome of the one
\* registration.  The call that registers is told if it brought a block, and
\* by the time anybody returns that has happened: no call is left that would
\* still register or be told.
OutcomeIsTold ==
    /\ \A c, d \in Calls :
         completed[c] # "no" /\ completed[d] # "no" => c = d
    /\ \A c \in Calls :
         completed[c] # "no" => /\ Len(registrations) = 1
                                /\ completed[c] =
                                     IF registrations[1].ok THEN "nil"
                                     ELSE "error"
    /\ \A c \in Calls :
         pc[c] \in {"completed", "stuck"} =>
           (completed[c] = "no" <=> block[c] = "nil")
    /\ \A c, d \in Calls :
         pc[c] = "returned" => pc[d] \notin {"inside", "registered"}

\* Every call returns, unless the completion block of the one inside
\* dispatch_once initialises again: nothing else makes the others wait for
\* ever.
CallsReturn ==
    \A c \in Calls :
      (pc[c] = "called") ~>
        (pc[c] = "returned" \/ \E d \in Calls : pc[d] = "stuck")
=============================================================================
