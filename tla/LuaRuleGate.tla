----------------------------- MODULE LuaRuleGate -----------------------------
(***************************************************************************)
(* The Lua rule gate of the rules module (src/modules/rules.c): the        *)
(* process-wide Lua state g_ironbee_rules_lua, the semaphore g_lua_lock    *)
(* that guards it, the module's init and fini callbacks with the atexit    *)
(* handler clean_up_ipc_mem, and worker threads that evaluate Lua rules    *)
(* concurrently through lua_operator_execute.                              *)
(*                                                                         *)
(* Each evaluation creates a Lua thread of the shared state inside the     *)
(* gate, runs the rule function on it outside the gate, and joins the      *)
(* thread inside the gate again.  ib_lock_* is a System V semaphore: lock  *)
(* and unlock fail on a semaphore that was never created or was removed.   *)
(***************************************************************************)
EXTENDS Naturals, FiniteSets

CONSTANTS
  Workers,   \* engine worker threads running transactions
  NoWorker,  \* no thread holds the gate
  MaxCalls   \* Lua rule evaluations each worker performs

ASSUME MaxCalls \in Nat /\ NoWorker \notin Workers

VARIABLES
  phase,     \* "boot", "ready" (rules_init returned IB_OK), "failed",
             \* "finished" (rules_fini ran) or "exited" (process exit)
  lock,      \* g_lua_lock: "none" (before init), "valid", "invalid"
             \* (ib_lock_init failed) or "removed"
  destroys,  \* calls of ib_lock_destroy(&g_lua_lock) so far
  atexitSet, \* clean_up_ipc_mem is registered with atexit
  root,      \* g_ironbee_rules_lua: "none", "open" or "closed"
  wpc,       \* where each worker is in lua_operator_execute
  holder,    \* the worker holding the semaphore
  L,         \* the Lua thread each worker's local L refers to (0: none)
  crc,       \* critical_rc of each worker's current critical section
  rc,        \* the status each worker's last evaluation returned
  calls,     \* evaluations each worker has started
  live,      \* Lua threads of the shared state not yet joined
  created    \* Lua threads created so far (their ids: 1..created)

vars == <<phase, lock, destroys, atexitSet, root, wpc, holder, L, crc, rc,
          calls, live, created>>

Status == {"OK", "ELOCK", "EALLOC", "EEVAL"}

\* The points at which rules_init can return early, in code order.
InitFailures ==
  {"nullModule", "newstate", "config", "malloc", "load", "require", "ffi"}

\* Failures after which rules_init calls clean_up_ipc_mem itself.
CleansUp == {"nullModule", "malloc", "load", "require", "ffi"}

-----------------------------------------------------------------------------
Init ==
  /\ phase = "boot"
  /\ lock = "none"
  /\ destroys = 0
  /\ atexitSet = FALSE
  /\ root = "none"
  /\ wpc = [w \in Workers |-> "idle"]
  /\ holder = NoWorker
  /\ L = [w \in Workers |-> 0]
  /\ crc = [w \in Workers |-> "OK"]
  /\ rc = [w \in Workers |-> "OK"]
  /\ calls = [w \in Workers |-> 0]
  /\ live = {}
  /\ created = 0

\* rules_init (lines 747-843) runs once, single-threaded, at engine start:
\* ib_lock_init (whose failure is only logged), atexit, then the Lua state
\* set-up, any step of which may fail.
RulesInit ==
  /\ phase = "boot"
  /\ \E lockOk \in BOOLEAN, fail \in InitFailures \cup {"none"} :
       /\ lock' = CASE fail \in CleansUp -> "removed"
                    [] lockOk            -> "valid"
                    [] OTHER             -> "invalid"
       /\ destroys' = IF fail \in CleansUp THEN 1 ELSE 0
       /\ root' = IF fail \in {"nullModule", "newstate"} THEN "none" ELSE "open"
       /\ phase' = IF fail = "none" THEN "ready" ELSE "failed"
  /\ atexitSet' = TRUE
  /\ UNCHANGED <<wpc, holder, L, crc, rc, calls, live, created>>

\* rules_fini (lines 845-858), once the engine has stopped running rules.
RulesFini ==
  /\ phase = "ready"
  /\ \A w \in Workers : wpc[w] = "idle"
  /\ destroys' = destroys + 1
  /\ lock' = "removed"
  /\ root' = IF root = "open" THEN "closed" ELSE root
  /\ phase' = "finished"
  /\ UNCHANGED <<atexitSet, wpc, holder, L, crc, rc, calls, live, created>>

\* Process exit runs the atexit handler clean_up_ipc_mem (lines 742-745).
ProcessExit ==
  /\ phase \in {"failed", "finished"}
  /\ destroys' = IF atexitSet THEN destroys + 1 ELSE destroys
  /\ lock' = IF atexitSet THEN "removed" ELSE lock
  /\ phase' = "exited"
  /\ UNCHANGED <<atexitSet, root, wpc, holder, L, crc, rc, calls, live,
                 created>>

-----------------------------------------------------------------------------
(* One evaluation: lua_operator_execute (lines 479-496) calls             *)
(* ib_lua_func_eval_r (lines 433-467), which runs call_in_critical_section *)
(* (lines 383-418) with ib_lua_new_thread, the rule, and                   *)
(* call_in_critical_section with ib_lua_join_thread.                       *)

\* lua_operator_execute is called for a Lua rule.
StartCall(w) ==
  /\ phase = "ready" /\ wpc[w] = "idle" /\ calls[w] < MaxCalls
  /\ wpc' = [wpc EXCEPT ![w] = "lockNew"]
  /\ calls' = [calls EXCEPT ![w] = @ + 1]
  /\ UNCHANGED <<phase, lock, destroys, atexitSet, root, holder, L, crc, rc,
                 live, created>>

\* Mutant: the status of ib_lock_lock is not checked.
LockGateNoCheck(w) ==
  /\ wpc[w] \in {"lockNew", "lockJoin"}
  /\ lock # "valid" \/ holder = NoWorker
  /\ holder' = IF lock = "valid" THEN w ELSE holder
  /\ wpc' = [wpc EXCEPT ![w] = IF @ = "lockNew" THEN "newThread"
                                                ELSE "joinThread"]
  /\ UNCHANGED <<phase, lock, destroys, atexitSet, root, L, crc, rc, calls,
                 live, created>>

\* Lines 394-400: ib_lock_lock blocks until the semaphore is free; on a
\* semaphore that does not exist it fails and the evaluation returns.
LockGate(w) ==
  /\ wpc[w] \in {"lockNew", "lockJoin"}
  /\ \/ /\ lock = "valid" /\ holder = NoWorker
        /\ holder' = w
        /\ wpc' = [wpc EXCEPT ![w] = IF @ = "lockNew" THEN "newThread"
                                                      ELSE "joinThread"]
        /\ UNCHANGED rc
     \/ /\ lock # "valid"
        /\ wpc' = [wpc EXCEPT ![w] = "idle"]
        /\ rc' = [rc EXCEPT ![w] = "ELOCK"]
        /\ UNCHANGED holder
  /\ UNCHANGED <<phase, lock, destroys, atexitSet, root, L, crc, calls, live,
                 created>>

\* Mutant: the thread count is not advanced.
NewThreadNoCount(w) ==
  /\ wpc[w] = "newThread"
  /\ L' = [L EXCEPT ![w] = created + 1]
  /\ live' = live \cup {created + 1}
  /\ crc' = [crc EXCEPT ![w] = "OK"]
  /\ wpc' = [wpc EXCEPT ![w] = "unlockNew"]
  /\ UNCHANGED <<phase, lock, destroys, atexitSet, root, holder, rc, calls,
                 created>>

\* Line 403 with ib_lua_new_thread: a new Lua thread of the shared state,
\* or IB_EALLOC.
NewThread(w) ==
  /\ wpc[w] = "newThread"
  /\ \/ /\ L' = [L EXCEPT ![w] = created + 1]
        /\ live' = live \cup {created + 1}
        /\ created' = created + 1
        /\ crc' = [crc EXCEPT ![w] = "OK"]
     \/ /\ crc' = [crc EXCEPT ![w] = "EALLOC"]
        /\ UNCHANGED <<L, live, created>>
  /\ wpc' = [wpc EXCEPT ![w] = "unlockNew"]
  /\ UNCHANGED <<phase, lock, destroys, atexitSet, root, holder, rc, calls>>

\* Line 403 with ib_lua_join_thread: the thread is released.
JoinThread(w) ==
  /\ wpc[w] = "joinThread"
  /\ live' = live \ {L[w]}
  /\ crc' = [crc EXCEPT ![w] = "OK"]
  /\ wpc' = [wpc EXCEPT ![w] = "unlockJoin"]
  /\ UNCHANGED <<phase, lock, destroys, atexitSet, root, holder, L, rc,
                 calls, created>>

\* Mutant: a failed critical call returns before the semaphore is released.
UnlockGateKeepsOnError(w) ==
  /\ wpc[w] \in {"unlockNew", "unlockJoin"}
  /\ IF crc[w] = "OK"
     THEN /\ holder' = NoWorker
          /\ wpc' = [wpc EXCEPT ![w] = IF @ = "unlockNew" THEN "eval"
                                                         ELSE "idle"]
          /\ rc' = IF wpc[w] = "unlockNew" THEN rc
                   ELSE [rc EXCEPT ![w] = crc[w]]
     ELSE /\ wpc' = [wpc EXCEPT ![w] = "idle"]
          /\ rc' = [rc EXCEPT ![w] = crc[w]]
          /\ UNCHANGED holder
  /\ UNCHANGED <<phase, lock, destroys, atexitSet, root, L, crc, calls, live,
                 created>>

\* Lines 405-417 and 445-448: release the semaphore and return
\* critical_rc; after creating the thread, go on to the rule only if that
\* succeeded.
UnlockGate(w) ==
  /\ wpc[w] \in {"unlockNew", "unlockJoin"}
  /\ holder' = NoWorker
  /\ IF wpc[w] = "unlockNew" /\ crc[w] = "OK"
     THEN /\ wpc' = [wpc EXCEPT ![w] = "eval"]
          /\ UNCHANGED rc
     ELSE /\ wpc' = [wpc EXCEPT ![w] = "idle"]
          /\ rc' = [rc EXCEPT ![w] = crc[w]]
  /\ UNCHANGED <<phase, lock, destroys, atexitSet, root, L, crc, calls, live,
                 created>>

\* Lines 454-461: run the rule function on the thread, outside the gate;
\* on failure return at once.
EvalRule(w) ==
  /\ wpc[w] = "eval"
  /\ \/ wpc' = [wpc EXCEPT ![w] = "lockJoin"] /\ UNCHANGED rc
     \/ /\ wpc' = [wpc EXCEPT ![w] = "idle"]
        /\ rc' = [rc EXCEPT ![w] = "EEVAL"]
  /\ UNCHANGED <<phase, lock, destroys, atexitSet, root, holder, L, crc,
                 calls, live, created>>

Next ==
  \/ RulesInit \/ RulesFini \/ ProcessExit
  \/ \E w \in Workers :
       \/ StartCall(w) \/ LockGate(w) \/ NewThread(w) \/ JoinThread(w)
       \/ UnlockGate(w) \/ EvalRule(w)

\* Every worker runs its evaluation to the end unless it blocks on the
\* semaphore: each step is weakly fair.  Starting a call and shutting the
\* engine down are the host's choice and get no fairness.
Spec == Init /\ [][Next]_vars
          /\ \A w \in Workers :
               /\ WF_vars(LockGate(w)) /\ WF_vars(NewThread(w))
               /\ WF_vars(JoinThread(w)) /\ WF_vars(UnlockGate(w))
               /\ WF_vars(EvalRule(w))

-----------------------------------------------------------------------------
(* Properties.                                                             *)

InGate == {"newThread", "joinThread", "unlockNew", "unlockJoin"}

TypeOK ==
  /\ phase \in {"boot", "ready", "failed", "finished", "exited"}
  /\ lock \in {"none", "valid", "invalid", "removed"}
  /\ destroys \in Nat /\ atexitSet \in BOOLEAN
  /\ root \in {"none", "open", "closed"}
  /\ wpc \in [Workers -> {"idle", "lockNew", "lockJoin", "eval"} \cup InGate]
  /\ holder \in Workers \cup {NoWorker}
  /\ L \in [Workers -> Nat] /\ crc \in [Workers -> Status]
  /\ rc \in [Workers -> Status] /\ calls \in [Workers -> 0..MaxCalls]
  /\ live \subseteq 1..created

\* The shared Lua state is changed (a thread created or joined) only by the
\* worker holding g_lua_lock: call_in_critical_section runs fn only after
\* ib_lock_lock succeeded, also when ib_lock_init had failed in rules_init.
RootChangedOnlyUnderGate ==
  [][\A w \in Workers :
       wpc[w] \in {"newThread", "joinThread"} /\ wpc'[w] # wpc[w]
         => holder = w /\ lock = "valid"]_vars

\* Every evaluation a worker starts returns: no worker waits forever on
\* g_lua_lock, whatever the other workers' critical calls return.
EveryCallReturns == \A w \in Workers : wpc[w] # "idle" ~> wpc[w] = "idle"

\* Every Lua resource the module creates is released exactly once: when
\* ib_lua_func_eval_r returns, the Lua thread it created has been joined
\* ("atomically create and destroy a lua_State*", lines 422-424), and the
\* semaphore is removed at most once, since a second ib_lock_destroy acts
\* on an id the system may have handed to another semaphore meanwhile.
LuaResourcesReleasedOnce ==
  /\ \A w \in Workers : wpc[w] = "idle" => L[w] \notin live
  /\ destroys <= 1

====
