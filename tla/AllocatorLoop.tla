--------------------------- MODULE AllocatorLoop ----------------------------
(***************************************************************************)
(* Who starts and stops a serving.  The allocator loop                      *)
(* (pkg/devicemanager/allocator) replaces the allocator of a manufacturer   *)
(* that is no longer detected, and detected again, by a new one on the same *)
(* socket; an allocator runs its servers under a Lifecycle                  *)
(* (pkg/utils/gox/lifecycle.go), and the goroutine that starts it may get   *)
(* to run only after it was stopped.                                        *)
(*                                                                          *)
(* A serving's own Start and Stop may also be called directly, by anyone    *)
(* who holds the server: env says which.                                    *)
(***************************************************************************)
EXTENDS Serving

CONSTANTS
    Allocators,    \* the allocators in the order the loop creates them: 1..n
    Started        \* the Start each allocator's lifecycle runs, its only task

ASSUME AllocatorAssumption ==
    /\ IsFiniteSet(Allocators) /\ Allocators = 1..Cardinality(Allocators)
    /\ Started \in [Allocators -> Starts]
    \* A call is made once, by one lifecycle or directly.
    /\ \A a, b \in Allocators : Started[a] = Started[b] => a = b
    /\ \A e \in Environments : e.loop => \A a \in Allocators : Started[a] \notin e.calls

VARIABLES
    made,      \* how many allocators were created
    job,       \* the goroutine that calls an allocator's Start
    over,      \* l.stopped
    run,       \* l.stop, l.done: the lifecycles that run
    loop       \* where the loop is

lifeVars == <<made, job, over, run, loop>>
vars     == <<serveVars, lifeVars>>

TypeOK ==
    /\ ServeTypeOK
    /\ made \in 0..Cardinality(Allocators)
    /\ job \in [Allocators -> {"none", "queued", "running", "returned"}]
    /\ over \subseteq Allocators /\ run \subseteq Allocators
    /\ loop \in {"select", "empty", "wait", "down", "drain", "gone"}

Init ==
    /\ ServeInit
    /\ made = 0
    /\ job = [a \in Allocators |-> "none"]
    /\ over = {} /\ run = {}
    /\ loop = "empty"

-----------------------------------------------------------------------------
(* gox.Lifecycle, with one task.                                            *)

\* Fault model: Start does not remember a Stop that came first.
LifeStartForgets(a) ==
    /\ job[a] = "queued"
    /\ run' = run \cup {a}
    /\ job' = [job EXCEPT ![a] = "running"]
    /\ Goto(Started[a], "called")
    /\ UNCHANGED <<gens, canceled, failed, own, net, stopping, made, over, loop>>

\* Start: begin, and the task is submitted; nothing, once stopped.
LifeStart(a) ==
    /\ job[a] = "queued"
    /\ IF a \in over
       THEN /\ job' = [job EXCEPT ![a] = "returned"]
            /\ UNCHANGED <<st, run>>
       ELSE /\ run' = run \cup {a}
            /\ job' = [job EXCEPT ![a] = "running"]
            /\ Goto(Started[a], "called")
    /\ UNCHANGED <<gens, canceled, failed, own, net, stopping, made, over, loop>>

\* Every task has returned: end, and Start returns.
LifeEnd(a) ==
    /\ job[a] = "running"
    /\ st[Started[a]] = "returned"
    /\ run' = run \ {a}
    /\ job' = [job EXCEPT ![a] = "returned"]
    /\ UNCHANGED <<serveVars, made, over, loop>>

\* Stop, up to its wait: the run that began is canceled.
LifeStop(a) ==
    /\ over' = over \cup {a}
    /\ canceled' = canceled \cup {Started[b] : b \in run \cap {a}}

-----------------------------------------------------------------------------
(* Allocator.Start.                                                         *)

\* The manufacturer is detected and has no allocator: one is created, and a
\* goroutine is to start it.
Create ==
    /\ env.loop
    /\ loop = "empty"
    /\ made < Cardinality(Allocators)
    /\ made' = made + 1
    /\ job' = [job EXCEPT ![made + 1] = "queued"]
    /\ loop' = "select"
    /\ UNCHANGED <<serveVars, over, run>>

\* It is no longer detected: Stop ...
StopAllocator ==
    /\ loop = "select"
    /\ LifeStop(made)
    /\ loop' = "wait"
    /\ UNCHANGED <<st, gens, failed, own, net, stopping, made, job, run>>

\* ... which returns when the run it canceled has; the entry is deleted.
Stopped ==
    /\ loop = "wait"
    /\ made \notin run
    /\ loop' = "empty"
    /\ UNCHANGED <<serveVars, made, job, over, run>>

\* A start failed or the device manager ends, which is the caller's affair: the
\* loop gives up and stops what it holds.
GiveUp ==
    /\ env.loop
    /\ loop \in {"select", "empty"}
    /\ loop' = IF loop = "empty" THEN "gone" ELSE "drain"
    /\ IF loop = "empty" THEN UNCHANGED <<canceled, over>> ELSE LifeStop(made)
    /\ UNCHANGED <<st, gens, failed, own, net, stopping, made, job, run>>

Drained ==
    /\ loop = "drain"
    /\ made \notin run
    /\ loop' = "gone"
    /\ UNCHANGED <<serveVars, made, job, over, run>>

-----------------------------------------------------------------------------
(* Direct callers.                                                          *)

Call(c) ==
    /\ st[c] = "new"
    /\ Goto(c, "called")
    /\ UNCHANGED <<gens, canceled, failed, own, net, stopping, lifeVars>>

\* The caller gives up on its context.
Cancel(c) ==
    /\ st[c] \notin {"new", "returned"}
    /\ c \notin canceled
    /\ canceled' = canceled \cup {c}
    /\ UNCHANGED <<st, gens, failed, own, net, stopping, lifeVars>>

-----------------------------------------------------------------------------
Next ==
    \/ \E c \in Starts : StartStep(c) /\ UNCHANGED lifeVars
    \/ \E p \in env.stops : StopStep(p) /\ UNCHANGED lifeVars
    \/ NetStep /\ UNCHANGED lifeVars
    \/ \E a \in Allocators : LifeStart(a) \/ LifeEnd(a)
    \/ Create \/ StopAllocator \/ Stopped \/ GiveUp \/ Drained
    \/ \E c \in env.calls : Call(c) \/ Cancel(c)

\* Goroutines run.  kubelet answers a Start that keeps asking, and a select
\* that keeps finding its server done takes that case: Go picks at random
\* among the cases that are ready.  Detection, callers and faults are free.
Fairness ==
    /\ \A c \in Starts :
          /\ WF_vars(StartStep(c) /\ UNCHANGED lifeVars)
          /\ SF_vars(RegisterAccepted(c) /\ UNCHANGED lifeVars)
          /\ SF_vars(SelectServed(c) /\ UNCHANGED lifeVars)
    /\ \A p \in Stops : WF_vars(sp[p] # "idle" /\ StopStep(p) /\ UNCHANGED lifeVars)
    /\ WF_vars((\E g \in Generations : GoServe(g)) /\ UNCHANGED lifeVars)
    /\ WF_vars(\E a \in Allocators : LifeStart(a) \/ LifeEnd(a))
    /\ WF_vars(Stopped \/ Drained)

Spec == Init /\ [][Next]_vars /\ Fairness

-----------------------------------------------------------------------------
(* Properties.                                                              *)

\* A generation that serves, or will once its goroutine runs, and that no Stop
\* has taken from its serving to stop it next.
Alive(g) ==
    /\ srv[g] \in {"listening", "queued", "serving"}
    /\ g \notin stopped
    /\ \A p \in Stops : sp[p] = "stopsrv" => seen[p].srv # g

\* isRegistered: what reports itself registered is a generation nobody has told
\* to stop, and kubelet's registration names it unless its socket is gone, which
\* the loop's next look at the path finds: no kubelet forgets a generation that
\* goes on believing itself registered.
RegisteredIsCurrent ==
    \A v \in Servings : registered[v] =>
        /\ server[v] # Nil
        /\ server[v] \notin stopped
        /\ known = server[v] \/ path # server[v]

\* Stop, Lifecycle.Stop: once a Start has returned, no generation of it serves
\* or will serve, but for one that a Stop still running is about to stop.
ReturnedLeavesNothing ==
    \A g \in Generations : st[g[1]] = "returned" => ~Alive(g)

\* Removing the socket belongs to the start of a generation: nobody but kubelet
\* takes the path from a generation that is alive, whichever allocator set it
\* up and however late a stop or a start arrives.
PathKept ==
    [][\A g \in Generations :
          path = g /\ path' # g /\ Alive(g) => known' = Nil /\ faults' = faults + 1]_vars

\* serve: a Start that goes on is registered with the kubelet that runs, and
\* reachable through the path, again after every fault.
ServedAgain ==
    \A c \in Starts :
        st[c] \in InServe ~> \/ c \in canceled \cup failed
                             \/ known # Nil /\ known = path /\ srv[known] = "serving"

\* Stop and Lifecycle.Stop return, whatever the generation is doing.
StopReturns ==
    /\ \A p \in Stops : sp[p] = "cancel" ~> sp[p] = "returned"
    /\ loop \in {"wait", "drain"} ~> loop \in {"empty", "gone"}

-----------------------------------------------------------------------------
(* The inductive invariant behind the safety properties.                    *)

\* A Start that holds its serving; one whose generation is set up; and one whose
\* generation was published and not retired by it.
Holding   == InServe \cup {"again", "ending"}
SetUp     == {"listening", "loop", "register", "record", "select", "stat", "retire", "stopsrv"}
Published == {"loop", "register", "record", "select", "stat", "retire"}

\* A generation that was published, now or earlier.
Used(g) ==
    /\ g[2] <= gens[g[1]]
    /\ g[2] = gens[g[1]] => st[g[1]] # "listening"

\* begin and end: one Start at a time holds a serving.
MutexInv ==
    \A c \in Starts : /\ st[c] \in Holding => running[On(c)] = c
                      /\ st[c] \in SetUp => gens[c] > 0

\* What a serving has published is the generation its Start is serving.
ServerInv ==
    \A v \in Servings : server[v] # Nil =>
        \E c \in Starts : server[v] = Current(c) /\ On(c) = v /\ st[c] \in Published

\* retire: what is stopped, or about to be by a Stop, was published and is not
\* any more.
StoppedInv ==
    /\ \A g \in stopped : Used(g) /\ \A v \in Servings : server[v] # g
    /\ \A p \in Stops :
          /\ seen[p].srv # Nil => Used(seen[p].srv)
          /\ sp[p] \in {"cancel", "retire", "stopsrv", "wait"} => seen[p].run # Nil
          /\ sp[p] = "stopsrv" =>
                seen[p].srv # Nil /\ \A v \in Servings : server[v] # seen[p].srv

\* A registration, recorded or about to be, is kubelet's last unless the socket
\* is gone.
RegisteredInv ==
    /\ \A v \in Servings :
          registered[v] => server[v] # Nil /\ (path = server[v] => known = path)
    /\ \A c \in Starts : st[c] = "record" /\ path = Current(c) => known = path

\* A generation that is alive is the last of its Start, which will retire it.
AliveInv ==
    \A g \in Generations : Alive(g) =>
        /\ g = Current(g[1])
        /\ \/ st[g[1]] \in {"listening", "stopsrv"}
           \/ st[g[1]] \in Published /\ server[On(g[1])] = g

\* The loop's allocators: the last one made may run, the others were stopped,
\* and a lifecycle calls its Start once.
LoopInv ==
    /\ ~env.loop => loop = "empty" /\ \A a \in Allocators : job[a] = "none"
    /\ \A a \in Allocators :
          /\ job[a] = "none" <=> a > made
          /\ env.loop /\ job[a] \in {"none", "queued"} => st[Started[a]] = "new"
          /\ a \in run => job[a] = "running"
          /\ a < made => a \in over /\ a \notin run
          /\ a = made => /\ loop \in {"empty", "wait", "drain", "gone"} => a \in over
                         /\ loop \in {"empty", "gone"} => a \notin run
    /\ loop \notin {"empty", "gone"} => made > 0
    /\ env.loop /\ env.calls = {} =>
          \A c \in Starts : st[c] \notin {"new", "returned"} => \E a \in run : Started[a] = c

IndInv ==
    /\ TypeOK /\ MutexInv /\ ServerInv /\ StoppedInv /\ RegisteredInv /\ AliveInv
    /\ LoopInv

\* The socket has one server at a time: only the loop starts them, or all of
\* them are calls on one serving.
OneServer ==
    (env.loop /\ env.calls = {}) \/ \A c, d \in Starts : On(c) = On(d)
=============================================================================
