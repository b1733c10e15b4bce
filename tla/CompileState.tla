---------------------------- MODULE CompileState ----------------------------
(***************************************************************************)
(* Several threads, each with a TCCState of its own, in one process.  The  *)
(* compiler proper keeps its data in globals: tcc_enter_state() takes the  *)
(* semaphore tcc_compile_sem and points tcc_state to the caller's state,   *)
(* tcc_exit_state() undoes it.  While a state compiles, its field          *)
(* error_set_jmp_enabled makes both do nothing.  error1() reports a        *)
(* message, releasing the semaphore first unless the state compiles, and   *)
(* ends the compilation by longjmp if the message is an error.             *)
(*                                                                         *)
(* A thread calls tcc_compile() ("compile") or meets an error or a warning *)
(* outside of it, in the linker or the option parser ("report"), which the *)
(* code writes (tcc_enter_state(s1), _tcc_error_noabort)(...).             *)
(***************************************************************************)
EXTENDS Naturals

CONSTANTS
  Thread,     \* threads, each standing for its TCCState too
  None,
  MaxJobs,    \* bound: calls per thread
  MaxWork     \* bound: #if expressions and messages per compilation

ASSUME StateAssumption ==
  None \notin Thread /\ MaxJobs \in Nat /\ MaxWork \in Nat

VARIABLES
  sem,        \* tcc_compile_sem.init
  ready,      \* tcc_compile_sem.cs has been initialized
  owner,      \* the thread inside it, or None
  tcc_state,  \* whose state, or None
  globals,    \* whose compilation the preprocessor's tables and its macro
              \* stack belong to; None when they are released
  pp_expr,    \* 0, 1 while an #if expression is read, 2 while it is parsed
  pc,         \* where each thread is
  op,         \* "compile" or "report": the call it is in
  mode,       \* error1(): "warn", "noabort" or "error"
  s1,         \* error1(): the state the message belongs to
  enabled,    \* error_set_jmp_enabled of each state
  nb_errors,  \* of each state
  raised,     \* history: errors the thread has called error1() for
  jobs,       \* calls made
  work        \* what the compilation has done so far

sem_vars == <<sem, ready>>
counters == <<jobs, work>>
err_vars == <<mode, s1, nb_errors, raised>>
vars == <<sem, ready, owner, tcc_state, globals, pp_expr, pc, op, mode, s1,
          enabled, nb_errors, raised, jobs, work>>

Init ==
  /\ sem = 0 /\ ready = FALSE /\ owner = None
  /\ tcc_state = None /\ globals = None /\ pp_expr = 0
  /\ pc = [t \in Thread |-> "idle"]
  /\ op = [t \in Thread |-> "compile"]
  /\ mode = [t \in Thread |-> "warn"]
  /\ s1 = [t \in Thread |-> None]
  /\ enabled = [t \in Thread |-> FALSE]
  /\ nb_errors = [t \in Thread |-> 0]
  /\ raised = [t \in Thread |-> 0]
  /\ jobs = [t \in Thread |-> 0]
  /\ work = [t \in Thread |-> 0]

Goto(t, l) == pc' = [pc EXCEPT ![t] = l]

\* Counting an error of mode m with thread t.
Count(f, t, m) == [f EXCEPT ![t] = IF m = "warn" THEN @ ELSE @ + 1]
-----------------------------------------------------------------------------
\* tcc_compile()
CallCompile(t) ==
  /\ pc[t] = "idle" /\ jobs[t] < MaxJobs
  /\ jobs' = [jobs EXCEPT ![t] = @ + 1]
  /\ op' = [op EXCEPT ![t] = "compile"]
  /\ Goto(t, "cas")
  /\ UNCHANGED <<sem_vars, owner, tcc_state, globals, pp_expr, err_vars, enabled, work>>

\* A message outside tcc_compile().
CallReport(t, m) ==
  /\ pc[t] = "idle" /\ jobs[t] < MaxJobs
  /\ jobs' = [jobs EXCEPT ![t] = @ + 1]
  /\ op' = [op EXCEPT ![t] = "report"]
  /\ mode' = [mode EXCEPT ![t] = m]
  /\ raised' = Count(raised, t, m)
  /\ Goto(t, "cas")
  /\ UNCHANGED <<sem_vars, owner, tcc_state, globals, pp_expr, s1, nb_errors,
                 enabled, work>>

\* wait_sem(): the first thread to get here initializes the critical section,
\* the others wait until it has.
CompareExchange(t) ==
  /\ pc[t] = "cas"
  /\ sem' = IF sem = 0 THEN 1 ELSE sem
  /\ Goto(t, IF sem = 0 THEN "init" ELSE "spin")
  /\ UNCHANGED <<ready, owner, tcc_state, globals, pp_expr, op, err_vars, enabled,
                 counters>>

InitializeCriticalSection(t) ==
  /\ pc[t] = "init"
  /\ ready' = TRUE
  /\ Goto(t, "publish")
  /\ UNCHANGED <<sem, owner, tcc_state, globals, pp_expr, op, err_vars, enabled,
                 counters>>

Publish(t) ==
  /\ pc[t] = "publish"
  /\ sem' = 2
  /\ Goto(t, "acquire")
  /\ UNCHANGED <<ready, owner, tcc_state, globals, pp_expr, op, err_vars, enabled,
                 counters>>

\* Seeded bug: a thread that loses the race does not wait for the winner.
Spin_NoWait(t) ==
  /\ pc[t] = "spin"
  /\ sem # 0
  /\ Goto(t, "acquire")
  /\ UNCHANGED <<sem_vars, owner, tcc_state, globals, pp_expr, op, err_vars, enabled,
                 counters>>

Spin(t) ==
  /\ pc[t] = "spin"
  /\ sem = 2
  /\ Goto(t, "acquire")
  /\ UNCHANGED <<sem_vars, owner, tcc_state, globals, pp_expr, op, err_vars, enabled,
                 counters>>

EnterCriticalSection(t) ==
  /\ pc[t] = "acquire"
  /\ owner = None
  /\ owner' = t
  /\ Goto(t, "enter")
  /\ UNCHANGED <<sem_vars, tcc_state, globals, pp_expr, op, err_vars, enabled, counters>>

\* The last line of tcc_enter_state().
TccEnterState(t) ==
  /\ pc[t] = "enter"
  /\ tcc_state' = t
  /\ Goto(t, IF op[t] = "compile" THEN "begin" ELSE "error1")
  /\ UNCHANGED <<sem_vars, owner, globals, pp_expr, op, err_vars, enabled, counters>>

\* tcc_compile() up to and including preprocess_start().
Begin(t) ==
  /\ pc[t] = "begin"
  /\ enabled' = [enabled EXCEPT ![t] = TRUE]
  /\ globals' = t
  /\ pp_expr' = 0
  /\ work' = [work EXCEPT ![t] = 0]
  /\ Goto(t, "work")
  /\ UNCHANGED <<sem_vars, owner, tcc_state, op, err_vars, jobs>>

\* Seeded bug: pp_expr is not reset after the expression.
ExprPreprocess_NoReset(t) ==
  /\ pc[t] = "work"
  /\ \/ pp_expr = 0 /\ pp_expr' = 1 /\ work[t] < MaxWork
        /\ work' = [work EXCEPT ![t] = @ + 1]
     \/ pp_expr > 0 /\ pp_expr' = pp_expr + 1 /\ UNCHANGED work
  /\ UNCHANGED <<sem_vars, owner, tcc_state, globals, pc, op, err_vars, enabled, jobs>>

\* expr_preprocess(): pp_expr = 1, then the directive's token, then 0 again.
ExprPreprocess(t) ==
  /\ pc[t] = "work"
  /\ \/ pp_expr = 0 /\ pp_expr' = 1 /\ work[t] < MaxWork
        /\ work' = [work EXCEPT ![t] = @ + 1]
     \/ pp_expr > 0 /\ pp_expr' = (pp_expr + 1) % 3 /\ UNCHANGED work
  /\ UNCHANGED <<sem_vars, owner, tcc_state, globals, pc, op, err_vars, enabled, jobs>>

\* A message of the compiler itself.
Message(t, m) ==
  /\ pc[t] = "work" /\ work[t] < MaxWork
  /\ work' = [work EXCEPT ![t] = @ + 1]
  /\ mode' = [mode EXCEPT ![t] = m]
  /\ raised' = Count(raised, t, m)
  /\ Goto(t, "error1")
  /\ UNCHANGED <<sem_vars, owner, tcc_state, globals, pp_expr, op, s1, nb_errors,
                 enabled, jobs>>

\* Seeded bug: the semaphore is released though the state compiles.
Error1_AlwaysExits(t) ==
  /\ pc[t] = "error1"
  /\ s1' = [s1 EXCEPT ![t] = tcc_state]
  /\ tcc_state' = None /\ Goto(t, "post")
  /\ UNCHANGED <<sem_vars, owner, globals, pp_expr, op, mode, nb_errors, raised,
                 enabled, counters>>

\* error1(): remember whose message it is, then tcc_exit_state().
Error1(t) ==
  /\ pc[t] = "error1"
  /\ s1' = [s1 EXCEPT ![t] = tcc_state]
  /\ IF enabled[tcc_state]
     THEN Goto(t, "format") /\ UNCHANGED tcc_state
     ELSE tcc_state' = None /\ Goto(t, "post")
  /\ UNCHANGED <<sem_vars, owner, globals, pp_expr, op, mode, nb_errors, raised,
                 enabled, counters>>

\* Seeded bug: the message is charged to the state current by now.
Format_Current(t) ==
  LET st == IF tcc_state = None THEN s1[t] ELSE tcc_state IN
  /\ pc[t] = "format"
  /\ nb_errors' = Count(nb_errors, st, mode[t])
  /\ Goto(t, CASE ~ enabled[s1[t]] -> "idle"
               [] enabled[s1[t]] /\ mode[t] = "error" -> "finish"
               [] OTHER -> "work")
  /\ UNCHANGED <<sem_vars, owner, tcc_state, globals, pp_expr, op, mode, s1, raised,
                 enabled, counters>>

\* The rest of error1(): the message is made and counted, and an error of a
\* compilation ends it by longjmp.  (Where pp_expr > 1 the message is made by
\* pp_error(), from the preprocessor's macro stack: see OwnMacroStack.)
Format(t) ==
  /\ pc[t] = "format"
  /\ nb_errors' = Count(nb_errors, s1[t], mode[t])
  /\ Goto(t, CASE ~ enabled[s1[t]] -> "idle"
               [] enabled[s1[t]] /\ mode[t] = "error" -> "finish"
               [] OTHER -> "work")
  /\ UNCHANGED <<sem_vars, owner, tcc_state, globals, pp_expr, op, mode, s1, raised,
                 enabled, counters>>

\* The source ends, outside any #if expression.
EndOfSource(t) ==
  /\ pc[t] = "work" /\ pp_expr = 0
  /\ Goto(t, "finish")
  /\ UNCHANGED <<sem_vars, owner, tcc_state, globals, pp_expr, op, err_vars, enabled,
                 counters>>

\* Seeded bug: an early return for compilations with errors.
Finish_Returns(t) ==
  /\ pc[t] = "finish"
  /\ globals' = None
  /\ enabled' = [enabled EXCEPT ![t] = FALSE]
  /\ Goto(t, IF nb_errors[t] = 0 THEN "exit" ELSE "idle")
  /\ UNCHANGED <<sem_vars, owner, tcc_state, pp_expr, op, err_vars, counters>>

\* The end of tcc_compile(), after success or longjmp: tccgen_finish(),
\* preprocess_end(), error_set_jmp_enabled = 0.  pp_expr keeps its value.
Finish(t) ==
  /\ pc[t] = "finish"
  /\ globals' = None
  /\ enabled' = [enabled EXCEPT ![t] = FALSE]
  /\ Goto(t, "exit")
  /\ UNCHANGED <<sem_vars, owner, tcc_state, pp_expr, op, err_vars, counters>>

TccExitState(t) ==
  /\ pc[t] = "exit"
  /\ tcc_state' = None
  /\ Goto(t, "post")
  /\ UNCHANGED <<sem_vars, owner, globals, pp_expr, op, err_vars, enabled, counters>>

\* post_sem(), from tcc_compile() or from error1().
PostSem(t) ==
  /\ pc[t] = "post"
  /\ owner' = None
  /\ Goto(t, IF op[t] = "compile" THEN "idle" ELSE "format")
  /\ UNCHANGED <<sem_vars, tcc_state, globals, pp_expr, op, err_vars, enabled, counters>>

Step(t) ==
  \/ CompareExchange(t) \/ InitializeCriticalSection(t) \/ Publish(t) \/ Spin(t)
  \/ EnterCriticalSection(t) \/ TccEnterState(t) \/ Begin(t) \/ ExprPreprocess(t)
  \/ \E m \in {"warn", "noabort", "error"} : Message(t, m)
  \/ Error1(t) \/ Format(t) \/ EndOfSource(t) \/ Finish(t) \/ TccExitState(t)
  \/ PostSem(t)

Call(t) == CallCompile(t) \/ \E m \in {"warn", "noabort"} : CallReport(t, m)

Next == \E t \in Thread : Call(t) \/ Step(t)

\* A thread in a call goes on running; critical sections need not be fair.
Spec == Init /\ [][Next]_vars /\ \A t \in Thread : WF_vars(Step(t))
-----------------------------------------------------------------------------
Labels ==
  {"idle", "cas", "init", "publish", "spin", "acquire", "enter", "begin", "work",
   "error1", "format", "finish", "exit", "post"}

TypeOK ==
  /\ sem \in 0 .. 2 /\ ready \in BOOLEAN
  /\ owner \in Thread \cup {None}
  /\ tcc_state \in Thread \cup {None}
  /\ globals \in Thread \cup {None}
  /\ pp_expr \in 0 .. 2
  /\ pc \in [Thread -> Labels]
  /\ op \in [Thread -> {"compile", "report"}]
  /\ mode \in [Thread -> {"warn", "noabort", "error"}]
  /\ s1 \in [Thread -> Thread \cup {None}]
  /\ enabled \in [Thread -> BOOLEAN]
  /\ nb_errors \in [Thread -> Nat]
  /\ raised \in [Thread -> Nat]
  /\ jobs \in [Thread -> Nat]
  /\ work \in [Thread -> Nat]

\* The globals of the compiler are in use by one thread at a time, the one that
\* holds the semaphore, and tcc_state says so, whatever errors are raised,
\* aborting or not, inside compilations and outside.
Exclusive ==
  globals # None =>
    /\ owner = globals /\ tcc_state = globals
    /\ \A t \in Thread :
         pc[t] \in {"work", "finish"} \/ (pc[t] \in {"error1", "format"} /\ op[t] = "compile")
           <=> t = globals

\* No thread enters the critical section before another has initialized it.
InitializedOnce ==
  /\ \A t \in Thread : pc[t] \in {"acquire", "enter"} => ready
  /\ \A t, u \in Thread : pc[t] \in {"init", "publish"} /\ pc[u] \in {"init", "publish"} => t = u

\* The thread is on its way through error1() with an error not counted yet.
Uncounted(t) ==
  /\ mode[t] # "warn"
  /\ IF op[t] = "report" THEN pc[t] # "idle" ELSE pc[t] \in {"error1", "format"}

\* Every error is counted with the state of the thread that raised it, though
\* error1() counts it after releasing the semaphore, when others may compile.
ChargedRight ==
  \A t \in Thread : raised[t] = nb_errors[t] + (IF Uncounted(t) THEN 1 ELSE 0)

\* Every call returns: no error path keeps the semaphore.
CallsReturn == \A t \in Thread : pc[t] # "idle" ~> pc[t] = "idle"

\* A message made by pp_error() is made from the thread's own preprocessor, not
\* from that of another or from one already released: "Several states may be
\* used at the same time from different threads".
OwnMacroStack ==
  \A t \in Thread : pc[t] = "format" /\ pp_expr > 1 => globals = t
=============================================================================
