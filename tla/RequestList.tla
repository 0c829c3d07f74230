---------------------------- MODULE RequestList ----------------------------
(***************************************************************************)
(* The list of Engine API requests that the RPC handlers hand to the       *)
(* staged-sync loop (turbo/engineapi/request_list.go).                     *)
(*                                                                         *)
(* Every exported method holds syncCond.L from its first to its last line, *)
(* so it is one step here, enabled while no one else holds that mutex.     *)
(* WaitForRequest is the exception: it releases the mutex while parked in  *)
(* syncCond.Wait, and it raises `waiting` under a second mutex before it   *)
(* looks at the list, so it is several steps.                              *)
(***************************************************************************)
EXTENDS Naturals, FiniteSets, FiniteSetsExt

CONSTANTS
  Payloads,     \* messages of type *types.Block
  ForkChoices,  \* messages of type *ForkChoiceMessage
  Callers,      \* RPC handlers that ask whether the loop is waiting
  MaxRequests   \* bound: number of requests ever added

ASSUME RequestListAssumption ==
  /\ Payloads \cap ForkChoices = {}
  /\ MaxRequests \in Nat

VARIABLES
  requestId,  \* id of the last request added
  requests,   \* [id -> [message, status]], the treemap ordered by id
  interrupt,  \* "None", "Synced" or "Stopping"
  waiting,    \* the atomic flag: the loop is inside WaitForRequest
  waiters,    \* callers whose channel is registered and still open
  signalled,  \* callers whose channel has been closed and not yet received
  loop,       \* where the loop thread stands in WaitForRequest
  onlyNew     \* the argument of the call in progress

rlVars == <<requestId, requests, interrupt, waiting, waiters, signalled, loop, onlyNew>>

Messages == Payloads \cup ForkChoices
Ids == 1..MaxRequests
Request == [message : Messages, status : {"New", "DataWasMissing"}]

RLInit ==
  /\ requestId = 0
  /\ requests = [i \in {} |-> 0]
  /\ interrupt = "None"
  /\ waiting = FALSE
  /\ waiters = {}
  /\ signalled = {}
  /\ loop = "outside"
  /\ onlyNew = FALSE

(***************************************************************************)
(* syncCond.L: it is held by WaitForRequest while it looks at the list,    *)
(* and by nobody while the loop thread is outside or parked.  Broadcast    *)
(* makes a parked loop runnable; it has to take the mutex again.           *)
(***************************************************************************)
MutexFree == loop # "holding"
Broadcast == loop' = IF loop = "parked" THEN "woken" ELSE loop

Put(rs, id, m) == [i \in DOMAIN rs \cup {id} |->
                     IF i = id THEN [message |-> m, status |-> "New"] ELSE rs[i]]

\* the fork choices that are still syncing are dropped
Purged(rs) ==
  [i \in {j \in DOMAIN rs : rs[j].status = "New" \/ rs[j].message \notin ForkChoices} |-> rs[i]]

\* mutant: the request is stored under the id of the one before it
AddPayloadRequestStaleId(m) ==
  /\ MutexFree
  /\ requestId' = requestId + 1
  /\ requests' = Put(requests, requestId, m)
  /\ Broadcast
  /\ UNCHANGED <<interrupt, waiting, waiters, signalled, onlyNew>>

\* mutant: the condition variable is not signalled
AddPayloadRequestSilent(m) ==
  /\ MutexFree
  /\ requestId' = requestId + 1
  /\ requests' = Put(requests, requestId + 1, m)
  /\ UNCHANGED <<interrupt, waiting, waiters, signalled, loop, onlyNew>>

AddPayloadRequest(m) ==
  /\ MutexFree
  /\ requestId' = requestId + 1
  /\ requests' = Put(requests, requestId + 1, m)
  /\ Broadcast
  /\ UNCHANGED <<interrupt, waiting, waiters, signalled, onlyNew>>

\* mutant: earlier fork choices stay in the list
AddForkChoiceRequestNoPurge(m) == AddPayloadRequest(m)

\* purges the earlier fork choices that are still syncing
AddForkChoiceRequest(m) ==
  /\ MutexFree
  /\ requestId' = requestId + 1
  /\ requests' = Put(Purged(requests), requestId + 1, m)
  /\ Broadcast
  /\ UNCHANGED <<interrupt, waiting, waiters, signalled, onlyNew>>

\* mutant: the condition variable is not signalled
InterruptSilent(kind) ==
  /\ MutexFree
  /\ interrupt' = kind
  /\ UNCHANGED <<requestId, requests, waiting, waiters, signalled, loop, onlyNew>>

Interrupt(kind) ==
  /\ MutexFree
  /\ interrupt' = kind
  /\ Broadcast
  /\ UNCHANGED <<requestId, requests, waiting, waiters, signalled, onlyNew>>

\* mutant: an answered request stays in the list
RemoveNothing(id) == MutexFree /\ UNCHANGED rlVars

Remove(id) ==
  /\ MutexFree
  /\ requests' = [i \in DOMAIN requests \ {id} |-> requests[i]]
  /\ UNCHANGED <<requestId, interrupt, waiting, waiters, signalled, loop, onlyNew>>

SetStatus(id, status) ==
  /\ MutexFree
  /\ requests' = IF id \in DOMAIN requests
                 THEN [requests EXCEPT ![id].status = status]
                 ELSE requests
  /\ Broadcast
  /\ UNCHANGED <<requestId, interrupt, waiting, waiters, signalled, onlyNew>>

-----------------------------------------------------------------------------
(* WaitForRequest *)

\* ids of the requests firstRequest chooses from
Eligible(rs, new) == {i \in DOMAIN rs : new => rs[i].status = "New"}
firstRequest(rs, new) == Min(Eligible(rs, new))

\* mutant: the flag is raised and the channels are left open
EnterWaitNoClose(new) ==
  /\ loop = "outside"
  /\ loop' = "holding"
  /\ onlyNew' = new
  /\ waiting' = TRUE
  /\ UNCHANGED <<requestId, requests, interrupt, waiters, signalled>>

\* takes the mutex, sets waiting and closes the channel of every waiter
EnterWait(new) ==
  /\ loop = "outside"
  /\ loop' = "holding"
  /\ onlyNew' = new
  /\ waiting' = TRUE
  /\ signalled' = signalled \cup waiters
  /\ waiters' = {}
  /\ UNCHANGED <<requestId, requests, interrupt>>

\* the return statements, with the deferred updateWaiting(0)
LeaveWait ==
  /\ loop' = "outside"
  /\ waiting' = FALSE
  /\ UNCHANGED <<requestId, requests, waiters, signalled, onlyNew>>

ReturnInterrupt ==
  /\ loop = "holding"
  /\ interrupt # "None"
  /\ interrupt' = IF interrupt = "Stopping" THEN interrupt ELSE "None"
  /\ LeaveWait

ReturnRequest ==
  /\ loop = "holding"
  /\ interrupt = "None"
  /\ Eligible(requests, onlyNew) # {}
  /\ UNCHANGED interrupt
  /\ LeaveWait

Park ==
  /\ loop = "holding"
  /\ interrupt = "None"
  /\ Eligible(requests, onlyNew) = {}
  /\ loop' = "parked"
  /\ UNCHANGED <<requestId, requests, interrupt, waiting, waiters, signalled, onlyNew>>

Wake ==
  /\ loop = "woken"
  /\ loop' = "holding"
  /\ UNCHANGED <<requestId, requests, interrupt, waiting, waiters, signalled, onlyNew>>

-----------------------------------------------------------------------------
(* WaitForWaiting holds only waiterMtx: it may run while the mutex is held. *)

SeesWaiting(c) ==
  /\ waiting
  /\ UNCHANGED rlVars

RegisterWaiter(c) ==
  /\ ~waiting
  /\ waiters' = waiters \cup {c}
  /\ signalled' = signalled \ {c}
  /\ UNCHANGED <<requestId, requests, interrupt, waiting, loop, onlyNew>>

\* the channel was closed
ReceiveWaiting(c) ==
  /\ c \in signalled
  /\ signalled' = signalled \ {c}
  /\ UNCHANGED <<requestId, requests, interrupt, waiting, waiters, loop, onlyNew>>

\* the caller's context expired; the channel stays registered
AbandonWait(c) ==
  /\ c \in waiters \cup signalled
  /\ UNCHANGED rlVars

-----------------------------------------------------------------------------
(* The list on its own: any goroutine may call any method at any time; only  *)
(* WaitForRequest belongs to one thread, the stage loop.                     *)

WaitForRequest ==
  \/ \E new \in BOOLEAN : EnterWait(new)
  \/ ReturnInterrupt \/ ReturnRequest \/ Park \/ Wake

RLNext ==
  \/ requestId < MaxRequests /\ \E m \in Payloads : AddPayloadRequest(m)
  \/ requestId < MaxRequests /\ \E m \in ForkChoices : AddForkChoiceRequest(m)
  \/ \E kind \in {"Synced", "Stopping"} : Interrupt(kind)
  \/ \E id \in 0..MaxRequests : Remove(id)
  \/ \E id \in 0..MaxRequests : SetStatus(id, "DataWasMissing")
  \/ WaitForRequest
  \/ \E c \in Callers : RegisterWaiter(c) \/ ReceiveWaiting(c)

RLSpec == RLInit /\ [][RLNext]_rlVars

\* a thread that holds the mutex, or was woken, goes on
RLFairSpec == RLSpec /\ WF_rlVars(ReturnInterrupt \/ ReturnRequest \/ Park \/ Wake)

\* Every variable has its type, and ids are given out in order (RequestList).
RLTypeOK ==
  /\ requestId \in 0..MaxRequests
  /\ DOMAIN requests \subseteq 1..requestId
  /\ requests \in [DOMAIN requests -> Request]
  /\ interrupt \in {"None", "Synced", "Stopping"}
  /\ waiting \in BOOLEAN /\ onlyNew \in BOOLEAN
  /\ waiters \subseteq Callers /\ signalled \subseteq Callers
  /\ loop \in {"outside", "holding", "parked", "woken"}

\* The loop is never parked in syncCond.Wait while an interrupt is raised or a request it
\* may take is in the list: every method that can make one available broadcasts, and
\* Remove, which does not, cannot.
NoLostWakeup ==
  loop = "parked" => interrupt = "None" /\ Eligible(requests, onlyNew) = {}

\* The flag says exactly that the loop is inside WaitForRequest, and a caller that found it
\* lowered is not left behind: no channel stays registered once the flag is up.
NoLostSignal ==
  /\ waiting <=> loop # "outside"
  /\ waiting => waiters = {}

\* A request the waiting loop may take, or an interrupt, makes it return, unless the
\* request is withdrawn before the loop gets the mutex again.
WaitEnds ==
  (loop # "outside" /\ (interrupt # "None" \/ Eligible(requests, onlyNew) # {}))
     ~> (loop = "outside" \/ (interrupt = "None" /\ Eligible(requests, onlyNew) = {}))
=============================================================================
