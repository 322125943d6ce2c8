------------------------------ MODULE Serving -------------------------------
(***************************************************************************)
(* One device-plugin socket and the servers that take turns on it           *)
(* (pkg/deviceplugin/serving.go).  A call of Start serves one generation    *)
(* after another: a socket beside kubelet's, a gRPC server on it and a      *)
(* registration with kubelet.  kubelet unlinks every socket of the          *)
(* directory when it restarts; a server may stop serving on its own; Stop   *)
(* and canceled contexts arrive from other goroutines at any time.          *)
(*                                                                          *)
(* All servings here own the same socket name, as the server of an          *)
(* allocator and the server of the allocator that replaces it do.           *)
(***************************************************************************)
EXTENDS Naturals, FiniteSets

CONSTANTS
    Servings,   \* the serving objects
    Starts,     \* calls of Start
    Stops,      \* calls of Stop
    MaxFaults,  \* bounds kubelet's restarts and the servers that stop serving
    Environments, \* what a behaviour may meet:
                  \*   on      the serving each call is made on
                  \*   faults  how many faults, MaxFaults at most
                  \*   loop    the allocator loop drives
                  \*   calls   the Starts that are called directly
                  \*   stops   the Stops that are called
    Nil

ASSUME ServingAssumption ==
    /\ IsFiniteSet(Starts)
    /\ MaxFaults \in Nat
    /\ Nil \notin Starts /\ Nil \notin Starts \X (1..(MaxFaults + 1))
    /\ Environments \subseteq [on : [Starts \cup Stops -> Servings], faults : 0..MaxFaults,
                              loop : BOOLEAN, calls : SUBSET Starts, stops : SUBSET Stops]

VARIABLES
    st,         \* where each Start is
    gens,       \* how many generations it has set up
    canceled,   \* the Starts whose context is canceled
    failed,     \* the Starts that could not establish a generation
    running,    \* s.stop, s.done: the Start that holds the serving
    server,     \* s.server: the generation published
    registered, \* s.registered
    srv,        \* the gRPC server of each generation, with its listener
    stopped,    \* the generations whose server was told to stop
    path,       \* the generation whose listener the socket path names
    known,      \* the generation kubelet's registration names
    faults,     \* faults so far
    sp,         \* where each Stop is
    seen,       \* the Start and the generation it read
    env         \* the environment, fixed from the start

serveVars == <<st, gens, canceled, failed, running, server, registered, srv,
               stopped, path, known, faults, sp, seen, env>>
own       == <<running, server, registered>>
net       == <<srv, stopped, path, known, faults>>
stopping  == <<sp, seen, env>>

On(call)    == env.on[call]

\* A generation is known by its Start and its number.
Generations == Starts \X (1..(MaxFaults + 1))
Current(c)  == <<c, gens[c]>>

\* Inside serve, from its first step to its last.
InServe == {"serve", "cleared", "listening", "loop", "register", "record",
            "select", "stat", "retire", "stopsrv"}

ServeTypeOK ==
    /\ st \in [Starts -> {"new", "called", "blocked", "again", "ending", "returned"}
                            \cup InServe]
    /\ gens \in [Starts -> 0..(MaxFaults + 1)]
    /\ canceled \subseteq Starts /\ failed \subseteq Starts
    /\ running \in [Servings -> Starts \cup {Nil}]
    /\ server \in [Servings -> Generations \cup {Nil}]
    /\ registered \in [Servings -> BOOLEAN]
    /\ srv \in [Generations -> {"none", "listening", "queued", "serving", "done"}]
    /\ stopped \subseteq Generations
    /\ path \in Generations \cup {Nil}
    /\ known \in Generations \cup {Nil}
    /\ faults \in 0..MaxFaults
    /\ sp \in [Stops -> {"idle", "cancel", "retire", "stopsrv", "wait", "returned"}]
    /\ seen \in [Stops -> [run : Starts \cup {Nil}, srv : Generations \cup {Nil}]]
    /\ env \in Environments

ServeInit ==
    /\ st = [c \in Starts |-> "new"]
    /\ gens = [c \in Starts |-> 0]
    /\ canceled = {} /\ failed = {}
    /\ running = [v \in Servings |-> Nil]
    /\ server = [v \in Servings |-> Nil]
    /\ registered = [v \in Servings |-> FALSE]
    /\ srv = [g \in Generations |-> "none"]
    /\ stopped = {}
    /\ path = Nil /\ known = Nil /\ faults = 0
    /\ sp = [p \in Stops |-> "idle"]
    /\ seen = [p \in Stops |-> [run |-> Nil, srv |-> Nil]]
    /\ env \in Environments

-----------------------------------------------------------------------------
(* The gRPC server of a generation.                                         *)

\* grpc.Server.Stop: a server that serves is done once it returns; one whose
\* goroutine has not run yet closes its listener when it does.
StopServer(g) ==
    /\ stopped' = stopped \cup {g}
    /\ srv' = IF srv[g] = "serving" THEN [srv EXCEPT ![g] = "done"] ELSE srv

\* The serving goroutine gets to run.
GoServe(g) ==
    /\ srv[g] = "queued"
    /\ srv' = [srv EXCEPT ![g] = IF g \in stopped THEN "done" ELSE "serving"]
    /\ UNCHANGED <<st, gens, canceled, failed, own, stopped, path, known, faults,
                   stopping>>

\* Serve returns on its own; the path stays.
ServeEnds(g) ==
    /\ srv[g] = "serving"
    /\ faults < env.faults
    /\ faults' = faults + 1
    /\ srv' = [srv EXCEPT ![g] = "done"]
    /\ UNCHANGED <<st, gens, canceled, failed, own, stopped, path, known, stopping>>

\* kubelet restarts: it unlinks the sockets and knows of no registration.
KubeletRestarts ==
    /\ faults < env.faults
    /\ faults' = faults + 1
    /\ path' = Nil
    /\ known' = Nil
    /\ UNCHANGED <<st, gens, canceled, failed, own, srv, stopped, stopping>>

-----------------------------------------------------------------------------
(* Start.                                                                   *)

Goto(c, at) == st' = [st EXCEPT ![c] = at]

\* begin: one Start at a time holds a serving, another waits for its context.
Begin(c) ==
    /\ st[c] = "called"
    /\ IF running[On(c)] = Nil
       THEN /\ running' = [running EXCEPT ![On(c)] = c]
            /\ Goto(c, "serve")
       ELSE /\ UNCHANGED running
            /\ Goto(c, "blocked")
    /\ UNCHANGED <<gens, canceled, failed, server, registered, net, stopping>>

BlockedReturns(c) ==
    /\ st[c] = "blocked"
    /\ c \in canceled
    /\ Goto(c, "returned")
    /\ UNCHANGED <<gens, canceled, failed, own, net, stopping>>

\* os.Remove, whatever the path names.
Clear(c) ==
    /\ st[c] = "serve"
    /\ path' = Nil
    /\ Goto(c, "cleared")
    /\ UNCHANGED <<gens, canceled, failed, own, srv, stopped, known, faults, stopping>>

\* net.Listen, on a path nobody took since.  A generation ends by a fault or
\* with its Start, so env.faults bounds the generations too.
Listen(c) ==
    /\ st[c] = "cleared"
    /\ path = Nil
    /\ gens[c] <= env.faults
    /\ gens' = [gens EXCEPT ![c] = @ + 1]
    /\ path' = <<c, gens[c] + 1>>
    /\ srv' = [srv EXCEPT ![<<c, gens[c] + 1>>] = "listening"]
    /\ Goto(c, "listening")
    /\ UNCHANGED <<canceled, failed, own, stopped, known, faults, stopping>>

\* The path cannot be removed, or not be listened on: Start reports it.
SetupFails(c) ==
    /\ st[c] \in {"serve", "cleared"}
    /\ failed' = failed \cup {c}
    /\ Goto(c, "ending")
    /\ UNCHANGED <<gens, canceled, own, net, stopping>>

\* publish, and the serving goroutine is handed to the pool.
Publish(c) ==
    /\ st[c] = "listening"
    /\ server' = [server EXCEPT ![On(c)] = Current(c)]
    /\ registered' = [registered EXCEPT ![On(c)] = FALSE]
    /\ srv' = [srv EXCEPT ![Current(c)] = "queued"]
    /\ Goto(c, "loop")
    /\ UNCHANGED <<gens, canceled, failed, running, stopped, path, known, faults,
                   stopping>>

\* The loop asks for its context, then for its registration.
LoopTop(c) ==
    /\ st[c] = "loop"
    /\ Goto(c, IF c \in canceled THEN "retire"
               ELSE IF registered[On(c)] THEN "select" ELSE "register")
    /\ UNCHANGED <<gens, canceled, failed, own, net, stopping>>

\* kubelet takes the registration once the endpoint it names answers; the
\* answer may be late for this side.
RegisterAccepted(c) ==
    /\ st[c] = "register"
    /\ path # Nil /\ srv[path] = "serving"
    /\ known' = path
    /\ \E at \in {"record", "select"} : Goto(c, at)
    /\ UNCHANGED <<gens, canceled, failed, own, srv, stopped, path, faults, stopping>>

RegisterFails(c) ==
    /\ st[c] = "register"
    /\ Goto(c, "select")
    /\ UNCHANGED <<gens, canceled, failed, own, net, stopping>>

\* Fault model: the acceptance is recorded for whatever is current by now.
RecordAnyway(c) ==
    /\ st[c] = "record"
    /\ registered' = [registered EXCEPT ![On(c)] = TRUE]
    /\ Goto(c, "select")
    /\ UNCHANGED <<gens, canceled, failed, running, server, net, stopping>>

\* The acceptance is recorded for the generation that was registered.
Record(c) ==
    /\ st[c] = "record"
    /\ registered' = [registered EXCEPT
                        ![On(c)] = @ \/ server[On(c)] = Current(c)]
    /\ Goto(c, "select")
    /\ UNCHANGED <<gens, canceled, failed, running, server, net, stopping>>

\* The select: the context, the end of the server, or the tick.
SelectContext(c) ==
    /\ st[c] = "select"
    /\ c \in canceled
    /\ Goto(c, "retire")
    /\ UNCHANGED <<gens, canceled, failed, own, net, stopping>>

SelectServed(c) ==
    /\ st[c] = "select"
    /\ srv[Current(c)] = "done"
    /\ Goto(c, "retire")
    /\ UNCHANGED <<gens, canceled, failed, own, net, stopping>>

SelectTick(c) ==
    /\ st[c] = "select"
    /\ Goto(c, "stat")
    /\ UNCHANGED <<gens, canceled, failed, own, net, stopping>>

\* Fault model: the loop does not look at the path.
StatNothing(c) ==
    /\ st[c] = "stat"
    /\ Goto(c, "loop")
    /\ UNCHANGED <<gens, canceled, failed, own, net, stopping>>

\* os.Stat: is the path still there.
Stat(c) ==
    /\ st[c] = "stat"
    /\ Goto(c, IF path = Nil THEN "retire" ELSE "loop")
    /\ UNCHANGED <<gens, canceled, failed, own, net, stopping>>

\* retire, first half: under the lock, unless the serving moved on.
Drop(v, g) ==
    /\ server' = [server EXCEPT ![v] = Nil]
    /\ registered' = [registered EXCEPT ![v] = FALSE]

RetireDrop(c) ==
    /\ st[c] = "retire"
    /\ IF server[On(c)] = Current(c)
       THEN Drop(On(c), Current(c)) /\ Goto(c, "stopsrv")
       ELSE UNCHANGED <<server, registered>> /\ Goto(c, "again")
    /\ UNCHANGED <<gens, canceled, failed, running, net, stopping>>

\* retire, second half: the server is stopped outside the lock.
RetireStop(c) ==
    /\ st[c] = "stopsrv"
    /\ StopServer(Current(c))
    /\ Goto(c, "again")
    /\ UNCHANGED <<gens, canceled, failed, own, path, known, faults, stopping>>

\* serve returned nil: the loop ends with its context, or serves again.
Again(c) ==
    /\ st[c] = "again"
    /\ Goto(c, IF c \in canceled THEN "ending" ELSE "serve")
    /\ UNCHANGED <<gens, canceled, failed, own, net, stopping>>

\* end: the serving is free and done is closed.
End(c) ==
    /\ st[c] = "ending"
    /\ running' = [running EXCEPT ![On(c)] = Nil]
    /\ Goto(c, "returned")
    /\ UNCHANGED <<gens, canceled, failed, server, registered, net, stopping>>

-----------------------------------------------------------------------------
(* Stop.                                                                    *)

At(p, at) == sp' = [sp EXCEPT ![p] = at]

\* Fault model: a serving that was never started is stopped like another.
StopReadUnstarted(p) ==
    /\ sp[p] = "idle"
    /\ seen' = [seen EXCEPT ![p] = [run |-> running[On(p)], srv |-> server[On(p)]]]
    /\ At(p, "cancel")
    /\ UNCHANGED <<st, gens, canceled, failed, own, net, env>>

\* stop, server and done are read together.
StopRead(p) ==
    /\ sp[p] = "idle"
    /\ LET v == On(p) IN
       IF running[v] = Nil
       THEN At(p, "returned") /\ UNCHANGED seen
       ELSE /\ seen' = [seen EXCEPT ![p] = [run |-> running[v], srv |-> server[v]]]
            /\ At(p, "cancel")
    /\ UNCHANGED <<st, gens, canceled, failed, own, net, env>>

\* Fault model: the server is stopped, the loop is not.
StopCancelsNothing(p) ==
    /\ sp[p] = "cancel"
    /\ At(p, "retire")
    /\ UNCHANGED <<st, gens, canceled, failed, own, net, seen, env>>

StopCancel(p) ==
    /\ sp[p] = "cancel"
    /\ canceled' = canceled \cup {seen[p].run}
    /\ At(p, "retire")
    /\ UNCHANGED <<st, gens, failed, own, net, seen, env>>

\* Fault model: retire drops whatever is published by now.
StopDropAny(p) ==
    /\ sp[p] = "retire"
    /\ IF seen[p].srv # Nil
       THEN Drop(On(p), seen[p].srv) /\ At(p, "stopsrv")
       ELSE UNCHANGED <<server, registered>> /\ At(p, "wait")
    /\ UNCHANGED <<st, gens, canceled, failed, running, net, seen, env>>

\* retire of the generation it read: a no-op once another is published.
StopDrop(p) ==
    /\ sp[p] = "retire"
    /\ IF seen[p].srv # Nil /\ server[On(p)] = seen[p].srv
       THEN Drop(On(p), seen[p].srv) /\ At(p, "stopsrv")
       ELSE UNCHANGED <<server, registered>> /\ At(p, "wait")
    /\ UNCHANGED <<st, gens, canceled, failed, running, net, seen, env>>

StopServerOf(p) ==
    /\ sp[p] = "stopsrv"
    /\ StopServer(seen[p].srv)
    /\ At(p, "wait")
    /\ UNCHANGED <<st, gens, canceled, failed, own, path, known, faults, seen, env>>

\* <-done, of the run it read.
StopWait(p) ==
    /\ sp[p] = "wait"
    /\ st[seen[p].run] = "returned"
    /\ At(p, "returned")
    /\ UNCHANGED <<st, gens, canceled, failed, own, net, seen, env>>

-----------------------------------------------------------------------------
\* A Start's own steps, and a Stop's.
StartStep(c) ==
    \/ Begin(c) \/ BlockedReturns(c) \/ Clear(c) \/ Listen(c) \/ SetupFails(c)
    \/ Publish(c) \/ LoopTop(c) \/ RegisterAccepted(c) \/ RegisterFails(c)
    \/ Record(c) \/ SelectContext(c) \/ SelectServed(c) \/ SelectTick(c) \/ Stat(c)
    \/ RetireDrop(c) \/ RetireStop(c) \/ Again(c) \/ End(c)

StopStep(p) ==
    StopRead(p) \/ StopCancel(p) \/ StopDrop(p) \/ StopServerOf(p) \/ StopWait(p)

NetStep == KubeletRestarts \/ \E g \in Generations : GoServe(g) \/ ServeEnds(g)
=============================================================================
