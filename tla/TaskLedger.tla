----------------------------- MODULE TaskLedger -----------------------------
(***************************************************************************)
(* What the kernel promises the callers of Kernel.submit, and nothing of   *)
(* how it schedules: every admitted task owes exactly one terminal         *)
(* completion (scheduler.py:438-444), its outcome is decided once, and     *)
(* the outcome the handlers are told differs from the decided one only by  *)
(* the reclassifications of dispatch_event (COMPLETED to STALE, STALE to   *)
(* STALE_REUSED).  Kernel.tla is shown to implement this module.           *)
(***************************************************************************)
CONSTANTS Tasks,      \* the submissions
          NoOutcome   \* no terminal completion yet

VARIABLES phase,      \* [Tasks -> Phases]
          outcome     \* [Tasks -> the terminal outcome, or NoOutcome]

ledgerVars == <<phase, outcome>>

Phases == {"absent", "waiting", "started", "settled", "told"}

\* TaskOutcome, task.py:87-95: DROPPED "never ran"; STALE "finished, but
\* superseded/scope-cleared"; STALE_REUSED exists only at dispatch.
WithoutRunning == {"cancelled", "dropped"}
AfterRunning == {"completed", "failed", "cancelled", "stale"}
AtDispatch(o) == CASE o = "completed" -> {"completed", "stale", "stale_reused"}
                   [] o = "stale"     -> {"stale", "stale_reused"}
                   [] OTHER           -> {o}

LedgerInit ==
    /\ phase = [i \in Tasks |-> "absent"]
    /\ outcome = [i \in Tasks |-> NoOutcome]

\* One task's life line.
Goes(i, from, to) == phase[i] = from /\ phase'[i] = to
Admit(i)   == Goes(i, "absent", "waiting") /\ outcome'[i] = outcome[i]
Begin(i)   == Goes(i, "waiting", "started") /\ outcome'[i] = outcome[i]
Discard(i) == Goes(i, "waiting", "settled") /\ outcome'[i] \in WithoutRunning
Finish(i)  == Goes(i, "started", "settled") /\ outcome'[i] \in AfterRunning
Tell(i)    == Goes(i, "settled", "told") /\ outcome'[i] \in AtDispatch(outcome[i])
Rest(i)    == phase'[i] = phase[i] /\ outcome'[i] = outcome[i]

\* One critical section of the kernel moves several tasks at once: a
\* submission settles those it supersedes, a failure takes its dependents.
LedgerNext ==
    /\ phase' \in [Tasks -> Phases]
    /\ outcome' \in [Tasks -> {NoOutcome} \cup WithoutRunning \cup AfterRunning
                                          \cup {"stale_reused"}]
    /\ \A i \in Tasks :
          Admit(i) \/ Begin(i) \/ Discard(i) \/ Finish(i) \/ Tell(i) \/ Rest(i)

LedgerSpec == LedgerInit /\ [][LedgerNext]_ledgerVars
=============================================================================
