------------------------- MODULE AllocatorLoopProofs ------------------------
(***************************************************************************)
(* Proofs about AllocatorLoop for any servings, callers, allocators and     *)
(* environments: IndInv is inductive, so what reports itself registered is  *)
(* current, a Start that returned leaves no server behind, and where the    *)
(* socket has one server at a time nobody but kubelet takes its path.       *)
(***************************************************************************)
EXTENDS AllocatorLoop, FiniteSetTheorems, TLAPS

\* What the assumptions on the constants say of a behaviour's environment.
LEMMA Bounds ==
    ASSUME TypeOK
    PROVE  /\ MaxFaults \in Nat /\ env.faults \in 0..MaxFaults
           /\ env.calls \subseteq Starts /\ env.stops \subseteq Stops
           /\ \A c \in Starts \cup Stops : On(c) \in Servings
           /\ Nil \notin Starts /\ Nil \notin Generations
           /\ Cardinality(Allocators) \in Nat /\ Allocators = 1..Cardinality(Allocators)
           /\ env.loop => \A a \in Allocators : Started[a] \notin env.calls
BY ServingAssumption, AllocatorAssumption, FS_CardinalityType
   DEF TypeOK, ServeTypeOK, On, Generations

\* A generation is its Start and its number.
LEMMA Named ==
    ASSUME TypeOK
    PROVE  /\ \A g \in Generations :
                 g = <<g[1], g[2]>> /\ g[1] \in Starts /\ g[2] \in 1..(MaxFaults + 1)
           /\ \A c \in Starts : /\ Current(c)[1] = c /\ Current(c)[2] = gens[c]
                                /\ gens[c] > 0 => Current(c) \in Generations
<1>1. \A g \in Generations :
         g = <<g[1], g[2]>> /\ g[1] \in Starts /\ g[2] \in 1..(MaxFaults + 1)
  BY DEF Generations
<1>2. ASSUME NEW c \in Starts
      PROVE  /\ Current(c)[1] = c /\ Current(c)[2] = gens[c]
             /\ gens[c] > 0 => Current(c) \in Generations
  <2>1. gens[c] \in 0..(MaxFaults + 1)
    BY DEF TypeOK, ServeTypeOK
  <2>2. gens[c] > 0 => gens[c] \in 1..(MaxFaults + 1)
    BY <2>1, Bounds
  <2> QED
    BY <2>2 DEF Current, Generations
<1> QED
  BY <1>1, <1>2

\* At first nothing was called.
LEMMA InitInv == Init => IndInv
<1> SUFFICES ASSUME Init PROVE IndInv
  OBVIOUS
<1>1. TypeOK
  <2>1. Cardinality(Allocators) \in Nat /\ MaxFaults \in Nat
    BY ServingAssumption, AllocatorAssumption, FS_CardinalityType
  <2>2. made \in 0..Cardinality(Allocators) /\ faults \in 0..MaxFaults
    BY <2>1 DEF Init, ServeInit
  <2>3. gens \in [Starts -> 0..(MaxFaults + 1)]
    BY <2>1 DEF Init, ServeInit
  <2> QED
    BY <2>2, <2>3 DEF Init, ServeInit, TypeOK, ServeTypeOK
<1>2. MutexInv /\ ServerInv /\ StoppedInv /\ RegisteredInv /\ AliveInv
  BY DEF Init, ServeInit, MutexInv, ServerInv, StoppedInv, RegisteredInv, AliveInv, Alive,
         Holding, SetUp, InServe
<1>3. LoopInv
  <2>1. \A a \in Allocators : a > made /\ a # made /\ ~(a < made)
    BY Bounds, <1>1 DEF Init
  <2>2. \A a \in Allocators : job[a] = "none" /\ st[Started[a]] = "new"
    BY AllocatorAssumption DEF Init, ServeInit
  <2> QED
    BY <2>1, <2>2 DEF Init, ServeInit, LoopInv
<1> QED
  BY <1>1, <1>2, <1>3 DEF IndInv

-----------------------------------------------------------------------------
(* Frames.                                                                  *)

\* A step of a Start that was called leaves the loop's allocators as they are.
LEMMA LoopKept ==
    ASSUME IndInv, NEW c \in Starts, st[c] # "new", NEW x, x # "new",
           st[c] # "returned" \/ x = "returned",
           st' = [st EXCEPT ![c] = x], UNCHANGED <<env, lifeVars>>
    PROVE  LoopInv'
<1>1. /\ \A d \in Starts : d # c => st'[d] = st[d]
      /\ st'[c] = x
  BY DEF IndInv, TypeOK, ServeTypeOK
<1>2. \A a \in Allocators : Started[a] \in Starts
  BY AllocatorAssumption
<1> QED
  BY <1>1, <1>2 DEF IndInv, LoopInv, lifeVars

\* A step of a Start that changes neither what it holds nor what it published,
\* and nothing that other goroutines read.
LEMMA ServeKept ==
    ASSUME IndInv, NEW c \in Starts,
           NEW x \in {"called", "blocked", "again", "ending", "returned"} \cup InServe,
           st[c] \notin {"listening", "stopsrv"},
           x \notin {"record", "listening", "stopsrv"},
           x \in Holding <=> st[c] \in Holding,
           x \in Published <=> st[c] \in Published,
           x \in SetUp <=> st[c] \in SetUp,
           st' = [st EXCEPT ![c] = x],
           canceled' \subseteq Starts, failed' \subseteq Starts,
           UNCHANGED <<gens, own, net, stopping>>
    PROVE  /\ ServeTypeOK' /\ MutexInv' /\ ServerInv' /\ StoppedInv' /\ RegisteredInv'
           /\ AliveInv'
<1> USE DEF IndInv, own, net, stopping
<1>1. ServeTypeOK'
  BY DEF TypeOK, ServeTypeOK
<1>2. /\ \A d \in Starts : d # c => st'[d] = st[d]
      /\ st'[c] = x
  BY DEF TypeOK, ServeTypeOK
<1>3. MutexInv'
  BY <1>2 DEF MutexInv, On
<1>4. ServerInv'
  BY <1>2 DEF ServerInv, On, Current
<1>5. StoppedInv'
  BY <1>2, Named DEF StoppedInv, Used, TypeOK, ServeTypeOK
<1>6. RegisteredInv'
  BY <1>2 DEF RegisteredInv, Current
<1>7. AliveInv'
  <2> SUFFICES ASSUME NEW g \in Generations, Alive(g)'
               PROVE  /\ (g = Current(g[1]))'
                      /\ \/ st'[g[1]] \in {"listening", "stopsrv"}
                         \/ st'[g[1]] \in Published /\ server'[On(g[1])'] = g
    BY DEF AliveInv
  <2>1. Alive(g)
    BY DEF Alive
  <2> QED
    BY <2>1, <1>2, Named DEF AliveInv, Current, On, Published
<1> QED
  BY <1>1, <1>3, <1>4, <1>5, <1>6, <1>7

\* The same of a Start that was called already: the loop sees no difference.
LEMMA QuietInv ==
    ASSUME IndInv, NEW c \in Starts,
           NEW x \in {"called", "blocked", "again", "ending", "returned"} \cup InServe,
           st[c] \notin {"new", "returned", "listening", "stopsrv"},
           x \notin {"record", "listening", "stopsrv"},
           x \in Holding <=> st[c] \in Holding,
           x \in Published <=> st[c] \in Published,
           x \in SetUp <=> st[c] \in SetUp,
           st' = [st EXCEPT ![c] = x],
           canceled' \subseteq Starts, failed' \subseteq Starts,
           UNCHANGED <<gens, own, net, stopping, lifeVars>>
    PROVE  IndInv'
<1>1. /\ ServeTypeOK' /\ MutexInv' /\ ServerInv' /\ StoppedInv' /\ RegisteredInv'
      /\ AliveInv'
  BY ServeKept
<1>2. LoopInv'
  BY LoopKept DEF InServe, stopping
<1> QED
  BY <1>1, <1>2 DEF IndInv, TypeOK, lifeVars

-----------------------------------------------------------------------------
(* Start.                                                                   *)

\* begin: a Start takes a serving that nobody holds.
LEMMA BeginInv ==
    ASSUME IndInv, NEW c \in Starts, UNCHANGED lifeVars, Begin(c)
    PROVE  IndInv'
<1> USE DEF IndInv, own, net, stopping, lifeVars
<1>1. CASE running[On(c)] # Nil
  <2>1. Goto(c, "blocked") /\ UNCHANGED running
    BY <1>1 DEF Begin
  <2> QED
    BY <2>1, QuietInv DEF Begin, Goto, Holding, Published, SetUp, InServe, TypeOK, ServeTypeOK
<1>2. CASE running[On(c)] = Nil
  <2>1. /\ running' = [running EXCEPT ![On(c)] = c] /\ st' = [st EXCEPT ![c] = "serve"]
        /\ st[c] = "called"
    BY <1>2 DEF Begin, Goto
  <2>2. /\ \A d \in Starts : d # c => st'[d] = st[d]
        /\ st'[c] = "serve"
        /\ running'[On(c)] = c /\ \A v \in Servings : v # On(c) => running'[v] = running[v]
    BY <2>1, Bounds DEF TypeOK, ServeTypeOK
  <2> USE DEF Begin
  <2>3. TypeOK'
    BY <2>1 DEF TypeOK, ServeTypeOK, InServe
  <2>4. MutexInv'
    BY <1>2, <2>2, Bounds DEF MutexInv, On, SetUp, Holding, InServe
  <2>5. ServerInv' /\ RegisteredInv'
    BY <2>1, <2>2 DEF ServerInv, RegisteredInv, On, Current, Published
  <2>6. StoppedInv'
    BY <2>2, Named DEF StoppedInv, Used, TypeOK, ServeTypeOK
  <2>7. AliveInv'
    BY <2>1, <2>2, Named DEF AliveInv, Alive, Current, On, Published
  <2>8. LoopInv'
    BY <2>1, LoopKept
  <2> QED
    BY <2>3, <2>4, <2>5, <2>6, <2>7, <2>8
<1> QED
  BY <1>1, <1>2

\* end: the Start that holds a serving lets it go.
LEMMA EndInv ==
    ASSUME IndInv, NEW c \in Starts, UNCHANGED lifeVars, End(c)
    PROVE  IndInv'
<1> USE DEF IndInv, own, net, stopping, lifeVars, End, Goto
<1>1. /\ \A d \in Starts : d # c => st'[d] = st[d]
      /\ st'[c] = "returned" /\ st[c] = "ending"
      /\ \A v \in Servings : v # On(c) => running'[v] = running[v]
  BY Bounds DEF TypeOK, ServeTypeOK
<1>2. TypeOK'
  BY DEF TypeOK, ServeTypeOK
<1>3. MutexInv'
  BY <1>1, Bounds DEF MutexInv, On, SetUp, Holding, InServe
<1>4. ServerInv' /\ RegisteredInv'
  BY <1>1 DEF ServerInv, RegisteredInv, On, Current, Published
<1>5. StoppedInv'
  BY <1>1, Named DEF StoppedInv, Used, TypeOK, ServeTypeOK
<1>6. AliveInv'
  BY <1>1, Named DEF AliveInv, Alive, Current, On, Published
<1>7. LoopInv'
  BY <1>1, LoopKept
<1> QED
  BY <1>2, <1>3, <1>4, <1>5, <1>6, <1>7

\* The socket of a generation to come is cleared of whatever it names.
LEMMA ClearInv ==
    ASSUME IndInv, NEW c \in Starts, UNCHANGED lifeVars, Clear(c)
    PROVE  IndInv'
<1> USE DEF IndInv, own, stopping, lifeVars, Clear, Goto
<1>1. /\ \A d \in Starts : d # c => st'[d] = st[d]
      /\ st'[c] = "cleared" /\ st[c] = "serve"
  BY DEF TypeOK, ServeTypeOK
<1>2. TypeOK'
  BY DEF TypeOK, ServeTypeOK, InServe
<1>3. MutexInv'
  BY <1>1 DEF MutexInv, On, SetUp, Holding, InServe
<1>4. ServerInv'
  BY <1>1 DEF ServerInv, On, Current, Published
<1>5. RegisteredInv'
  <2>1. \A d \in Starts : st[d] = "record" => Nil # Current(d)
    BY Bounds, Named DEF MutexInv, SetUp
  <2> QED
    BY <1>1, <2>1 DEF RegisteredInv, Current
<1>6. StoppedInv'
  BY <1>1, Named DEF StoppedInv, Used, TypeOK, ServeTypeOK
<1>7. AliveInv'
  BY <1>1, Named DEF AliveInv, Alive, Current, On, Published
<1>8. LoopInv'
  BY <1>1, LoopKept
<1> QED
  BY <1>2, <1>3, <1>4, <1>5, <1>6, <1>7, <1>8

\* A generation is set up under a number that was not used.
LEMMA ListenInv ==
    ASSUME IndInv, NEW c \in Starts, UNCHANGED lifeVars, Listen(c)
    PROVE  IndInv'
<1> USE DEF IndInv, own, stopping, lifeVars
<1> DEFINE n == <<c, gens[c] + 1>>
<1>1. /\ \A d \in Starts : d # c => st'[d] = st[d] /\ gens'[d] = gens[d]
      /\ st'[c] = "listening" /\ st[c] = "cleared"
      /\ gens'[c] = gens[c] + 1
      /\ path' = n /\ path = Nil
  BY DEF Listen, Goto, TypeOK, ServeTypeOK
<1>2. gens[c] \in Nat /\ gens[c] + 1 \in 1..(MaxFaults + 1) /\ n \in Generations
  <2>1. gens[c] \in 0..(MaxFaults + 1) /\ gens[c] <= env.faults
    BY DEF Listen, TypeOK, ServeTypeOK
  <2> QED
    BY <2>1, Bounds DEF Generations
<1>3. srv'[n] = "listening" /\ \A g \in Generations : g # n => srv'[g] = srv[g]
  BY <1>2 DEF Listen, TypeOK, ServeTypeOK
<1>4. TypeOK'
  <2>1. gens' \in [Starts -> 0..(MaxFaults + 1)]
    BY <1>2, Bounds DEF Listen, TypeOK, ServeTypeOK
  <2> QED
    BY <1>1, <1>2, <2>1 DEF Listen, Goto, TypeOK, ServeTypeOK, InServe
<1> USE DEF Listen
<1>5. MutexInv'
  BY <1>1, <1>2 DEF MutexInv, On, SetUp, Holding, InServe
<1>6. ServerInv'
  BY <1>1 DEF ServerInv, On, Current, Published
<1>7. /\ \A v \in Servings : server[v] # n
      /\ \A g \in Generations : Used(g) => g # n /\ Used(g)'
  <2>1. \A g \in Generations : Used(g) => g # n /\ Used(g)'
    BY <1>1, <1>2, Named DEF Used, TypeOK, ServeTypeOK
  <2>2. \A d \in Starts : Current(d) # n
    BY <1>2, Named DEF Current
  <2> QED
    BY <2>1, <2>2, <1>2, Bounds DEF ServerInv
<1>8. RegisteredInv'
  BY <1>1, <1>7 DEF RegisteredInv, Current
<1>9. StoppedInv'
  BY <1>7 DEF StoppedInv, TypeOK, ServeTypeOK
<1>10. AliveInv'
  <2> SUFFICES ASSUME NEW g \in Generations, Alive(g)', g # n
               PROVE  /\ (g = Current(g[1]))'
                      /\ \/ st'[g[1]] \in {"listening", "stopsrv"}
                         \/ st'[g[1]] \in Published /\ server'[On(g[1])'] = g
    BY <1>1, <1>2 DEF AliveInv, Current
  <2>1. Alive(g)
    BY <1>3 DEF Alive
  <2>2. g[1] \in Starts /\ g = Current(g[1]) /\ g[1] # c
    BY <2>1, <1>1, Named DEF AliveInv, Published
  <2> QED
    BY <2>1, <2>2, <1>1 DEF AliveInv, Current, On
<1>11. LoopInv'
  BY <1>1, LoopKept DEF Goto
<1> QED
  BY <1>4, <1>5, <1>6, <1>8, <1>9, <1>10, <1>11

\* publish: the generation of the Start that holds the serving takes the place
\* of none, and no Stop knows of it yet.
LEMMA PublishInv ==
    ASSUME IndInv, NEW c \in Starts, UNCHANGED lifeVars, Publish(c)
    PROVE  IndInv'
<1> USE DEF IndInv, stopping, lifeVars
<1> DEFINE g0 == Current(c)
           v0 == On(c)
<1>1. /\ \A d \in Starts : d # c => st'[d] = st[d]
      /\ st'[c] = "loop" /\ st[c] = "listening"
  BY DEF Publish, Goto, TypeOK, ServeTypeOK
<1>2. /\ g0 \in Generations /\ v0 \in Servings /\ Nil # g0 /\ ~Used(g0)
      /\ g0[1] = c /\ running[v0] = c
  BY <1>1, Bounds, Named DEF MutexInv, SetUp, Used, Holding, InServe, TypeOK, ServeTypeOK
<1>3. /\ server'[v0] = g0 /\ ~registered'[v0]
      /\ \A v \in Servings :
            v # v0 => server'[v] = server[v] /\ registered'[v] = registered[v]
      /\ srv'[g0] = "queued"
      /\ \A g \in Generations : g # g0 => srv'[g] = srv[g]
  BY <1>2 DEF Publish, TypeOK, ServeTypeOK
<1>4. TypeOK'
  BY <1>2 DEF Publish, Goto, TypeOK, ServeTypeOK, InServe
<1>5. MutexInv'
  BY <1>1 DEF Publish, MutexInv, On, SetUp, Holding, InServe
<1>6. ServerInv'
  BY <1>1, <1>2, <1>3 DEF Publish, ServerInv, On, Current, Published
<1>7. \A g \in Generations : Used(g) => g # g0 /\ Used(g)'
  BY <1>1, <1>2, Named DEF Publish, Used
<1>8. StoppedInv'
  BY <1>3, <1>7 DEF Publish, StoppedInv, TypeOK, ServeTypeOK
<1>9. RegisteredInv'
  BY <1>1, <1>3 DEF Publish, RegisteredInv, Current
<1>10. AliveInv'
  <2> SUFFICES ASSUME NEW g \in Generations, Alive(g)', g # g0
               PROVE  /\ (g = Current(g[1]))'
                      /\ \/ st'[g[1]] \in {"listening", "stopsrv"}
                         \/ st'[g[1]] \in Published /\ server'[On(g[1])'] = g
    BY <1>1, <1>2, <1>3 DEF Publish, AliveInv, Current, Published, On
  <2>1. Alive(g)
    BY <1>3 DEF Publish, Alive
  <2>2. g[1] \in Starts /\ g = Current(g[1]) /\ g[1] # c /\ On(g[1]) \in Servings
    BY <2>1, Named, Bounds DEF AliveInv
  <2>3. st[g[1]] \in Published => On(g[1]) # v0
    BY <1>2, <2>2 DEF MutexInv, Published, Holding, InServe
  <2> QED
    BY <2>1, <2>2, <2>3, <1>1, <1>3 DEF Publish, AliveInv, Current, On
<1>11. LoopInv'
  BY <1>1, LoopKept DEF Publish, Goto
<1> QED
  BY <1>4, <1>5, <1>6, <1>8, <1>9, <1>10, <1>11

\* Register: kubelet's registration names the path, and it is recorded only if
\* the generation that was registered is still the serving's.
LEMMA RegisterInv ==
    ASSUME IndInv, NEW c \in Starts, UNCHANGED lifeVars, RegisterAccepted(c) \/ Record(c)
    PROVE  IndInv'
<1> USE DEF IndInv, own, net, stopping, lifeVars
<1>1. /\ \A d \in Starts : d # c => st'[d] = st[d]
      /\ st'[c] \in {"record", "select"} /\ st[c] \in {"register", "record"}
      /\ st' = [st EXCEPT ![c] = st'[c]]
      /\ UNCHANGED <<gens, canceled, failed, running, server, srv, stopped, path, faults,
                     sp, seen, env>>
  BY DEF RegisterAccepted, Record, Goto, TypeOK, ServeTypeOK
<1>2. ServeTypeOK'
  <2>1. registered' \in [Servings -> BOOLEAN]
    BY Zenon DEF RegisterAccepted, Record, TypeOK, ServeTypeOK
  <2>2. known' \in Generations \cup {Nil}
    BY DEF RegisterAccepted, Record, TypeOK, ServeTypeOK
  <2> QED
    BY <1>1, <2>1, <2>2 DEF TypeOK, ServeTypeOK, InServe
<1>3. MutexInv'
  BY <1>1 DEF MutexInv, On, SetUp, Holding, InServe
<1>4. ServerInv'
  BY <1>1 DEF ServerInv, On, Current, Published
<1>5. StoppedInv'
  BY <1>1, Named DEF StoppedInv, Used, TypeOK, ServeTypeOK
<1>6. RegisteredInv'
  <2>1. CASE RegisterAccepted(c)
    BY <2>1, <1>1 DEF RegisterAccepted, RegisteredInv, Current
  <2>2. CASE Record(c)
    <3>1. st[c] = "record" /\ st'[c] = "select" /\ known' = known
      BY <2>2, <1>1 DEF Record, Goto, TypeOK, ServeTypeOK
    <3>2. On(c) \in Servings /\ Current(c) # Nil
      BY <3>1, Bounds, Named DEF MutexInv, SetUp
    <3>3. /\ registered'[On(c)] => registered[On(c)] \/ server[On(c)] = Current(c)
          /\ \A v \in Servings : v # On(c) => registered'[v] = registered[v]
      BY <2>2, <3>2 DEF Record, TypeOK, ServeTypeOK
    <3> QED
      BY <1>1, <3>1, <3>2, <3>3 DEF RegisteredInv, Current
  <2> QED
    BY <2>1, <2>2
<1>7. AliveInv'
  BY <1>1, Named DEF AliveInv, Alive, Current, On, Published
<1>8. LoopInv'
  BY <1>1, LoopKept
<1> QED
  BY <1>2, <1>3, <1>4, <1>5, <1>6, <1>7, <1>8 DEF TypeOK

\* retire, first half: a generation leaves its serving only when it is its own.
LEMMA RetireDropInv ==
    ASSUME IndInv, NEW c \in Starts, UNCHANGED lifeVars, RetireDrop(c)
    PROVE  IndInv'
<1> USE DEF IndInv, net, stopping, lifeVars
<1> DEFINE v0 == On(c)
<1>1. /\ \A d \in Starts : d # c => st'[d] = st[d]
      /\ st'[c] \in {"stopsrv", "again"} /\ st[c] = "retire"
      /\ st' = [st EXCEPT ![c] = st'[c]]
      /\ v0 \in Servings /\ running[v0] = c
      /\ UNCHANGED <<gens, canceled, failed, running, net, sp, seen, env>>
  BY Bounds DEF RetireDrop, Goto, MutexInv, Holding, InServe, TypeOK, ServeTypeOK
<1>2. /\ \A v \in Servings :
            v # v0 => server'[v] = server[v] /\ registered'[v] = registered[v]
      /\ \/ server[v0] = Current(c) /\ st'[c] = "stopsrv" /\ server'[v0] = Nil /\ ~registered'[v0]
         \/ server[v0] # Current(c) /\ st'[c] = "again" /\ UNCHANGED <<server, registered>>
  BY <1>1 DEF RetireDrop, Drop, Goto, TypeOK, ServeTypeOK
<1>3. ServeTypeOK'
  <2>1. /\ server' \in [Servings -> Generations \cup {Nil}]
        /\ registered' \in [Servings -> BOOLEAN]
    BY DEF RetireDrop, Drop, TypeOK, ServeTypeOK
  <2> QED
    BY <1>1, <2>1 DEF TypeOK, ServeTypeOK, InServe
<1>4. MutexInv'
  BY <1>1 DEF MutexInv, On, SetUp, Holding, InServe
<1>5. ServerInv'
  BY <1>1, <1>2 DEF ServerInv, On, Current, Published
<1>6. StoppedInv'
  <2>1. \A g \in Generations : Used(g) => Used(g)'
    BY <1>1, Named DEF Used
  <2>2. \A v \in Servings : server'[v] = server[v] \/ server'[v] = Nil
    BY <1>2
  <2> QED
    BY <1>1, <2>1, <2>2, Bounds DEF StoppedInv, TypeOK, ServeTypeOK
<1>7. RegisteredInv'
  BY <1>1, <1>2 DEF RegisteredInv, Current
<1>8. AliveInv'
  <2> SUFFICES ASSUME NEW g \in Generations, Alive(g)'
               PROVE  /\ (g = Current(g[1]))'
                      /\ \/ st'[g[1]] \in {"listening", "stopsrv"}
                         \/ st'[g[1]] \in Published /\ server'[On(g[1])'] = g
    BY DEF AliveInv
  <2>1. Alive(g) /\ g[1] \in Starts /\ g = Current(g[1]) /\ On(g[1]) \in Servings
    BY <1>1, Named, Bounds DEF Alive, AliveInv
  <2>2. CASE g[1] = c
    BY <2>1, <2>2, <1>1, <1>2 DEF AliveInv, Current
  <2>3. CASE g[1] # c
    <3>1. st[g[1]] \in Published => On(g[1]) # v0
      BY <1>1, <2>1, <2>3 DEF MutexInv, Published, Holding, InServe
    <3> QED
      BY <2>1, <2>3, <3>1, <1>1, <1>2 DEF AliveInv, Current, On
  <2> QED
    BY <2>2, <2>3
<1>9. LoopInv'
  BY <1>1, LoopKept
<1> QED
  BY <1>3, <1>4, <1>5, <1>6, <1>7, <1>8, <1>9 DEF TypeOK

\* A server is told to stop that no serving publishes any more, by the Start or
\* the Stop that took it from there.
LEMMA StopServerKept ==
    ASSUME IndInv, NEW g0 \in Generations, StopServer(g0)
    PROVE  /\ srv' \in [Generations -> {"none", "listening", "queued", "serving", "done"}]
           /\ stopped' \subseteq Generations /\ g0 \in stopped'
           /\ \A g \in Generations : g \notin stopped' =>
                 g # g0 /\ g \notin stopped /\ srv'[g] = srv[g]
BY DEF StopServer, IndInv, TypeOK, ServeTypeOK

LEMMA RetireStopInv ==
    ASSUME IndInv, NEW c \in Starts, UNCHANGED lifeVars, RetireStop(c)
    PROVE  IndInv'
<1> USE DEF IndInv, own, stopping, lifeVars
<1> DEFINE g0 == Current(c)
<1>1. /\ \A d \in Starts : d # c => st'[d] = st[d]
      /\ st'[c] = "again" /\ st[c] = "stopsrv"
      /\ st' = [st EXCEPT ![c] = "again"]
      /\ UNCHANGED <<gens, canceled, failed, running, server, registered, path, known, faults,
                     sp, seen, env>>
  BY DEF RetireStop, Goto, TypeOK, ServeTypeOK
<1>2. g0 \in Generations /\ g0[1] = c /\ Used(g0)' /\ g0 # Nil
  BY <1>1, Bounds, Named DEF MutexInv, SetUp, Used, Current, TypeOK, ServeTypeOK
<1>3. \A v \in Servings : server[v] # g0
  BY <1>1, <1>2, Named DEF ServerInv, Published
<1>4. /\ srv' \in [Generations -> {"none", "listening", "queued", "serving", "done"}]
      /\ stopped' = stopped \cup {g0} /\ g0 \in stopped'
      /\ \A g \in Generations : g \notin stopped' =>
            g # g0 /\ g \notin stopped /\ srv'[g] = srv[g]
  BY <1>2, StopServerKept DEF RetireStop, StopServer
<1>5. ServeTypeOK'
  BY <1>1, <1>2, <1>4 DEF TypeOK, ServeTypeOK
<1>6. MutexInv'
  BY <1>1 DEF MutexInv, On, SetUp, Holding, InServe
<1>7. ServerInv' /\ RegisteredInv'
  BY <1>1 DEF ServerInv, RegisteredInv, On, Current, Published
<1>8. StoppedInv'
  <2>1. \A g \in Generations : Used(g) => Used(g)'
    BY <1>1, Named DEF Used
  <2>2. \A g \in stopped' : g \in Generations /\ Used(g)' /\ \A v \in Servings : server'[v] # g
    <3>1. g0[2] <= gens'[g0[1]] /\ st'[g0[1]] # "listening"
      BY <1>1, <1>2, Named DEF TypeOK, ServeTypeOK
    <3> QED
      BY <1>1, <1>2, <1>3, <1>4, <2>1, <3>1 DEF StoppedInv, Used, TypeOK, ServeTypeOK
  <2>3. \A q \in Stops : seen'[q].srv # Nil => seen'[q].srv \in Generations /\ Used(seen[q].srv)
    BY <1>1 DEF StoppedInv, TypeOK, ServeTypeOK
  <2> QED
    BY <1>1, <2>1, <2>2, <2>3 DEF StoppedInv
<1>9. AliveInv'
  <2> SUFFICES ASSUME NEW g \in Generations, Alive(g)'
               PROVE  /\ (g = Current(g[1]))'
                      /\ \/ st'[g[1]] \in {"listening", "stopsrv"}
                         \/ st'[g[1]] \in Published /\ server'[On(g[1])'] = g
    BY DEF AliveInv
  <2>1. Alive(g) /\ g # g0
    BY <1>1, <1>4 DEF Alive
  <2>2. g[1] \in Starts /\ g = Current(g[1]) /\ g[1] # c
    BY <2>1, Named DEF AliveInv
  <2> QED
    BY <2>1, <2>2, <1>1 DEF AliveInv, Current, On
<1>10. LoopInv'
  BY <1>1, LoopKept
<1> QED
  BY <1>5, <1>6, <1>7, <1>8, <1>9, <1>10 DEF TypeOK

\* Every step of a Start.
LEMMA StartInv ==
    ASSUME IndInv, NEW c \in Starts, UNCHANGED lifeVars, StartStep(c)
    PROVE  IndInv'
<1> DEFINE Quiet(x) == st' = [st EXCEPT ![c] = x] /\ UNCHANGED <<gens, own, net, stopping>>
<1>0. canceled \subseteq Starts /\ failed \subseteq Starts
  BY DEF IndInv, TypeOK, ServeTypeOK
<1> USE <1>0 DEF Goto, Holding, Published, SetUp, InServe
<1>1. CASE BlockedReturns(c)
  BY <1>1, QuietInv DEF BlockedReturns
<1>2. CASE SetupFails(c)
  BY <1>2, QuietInv DEF SetupFails
<1>3. CASE LoopTop(c)
  <2>1. PICK x \in {"retire", "select", "register"} : Quiet(x)
    BY <1>3 DEF LoopTop
  <2> QED
    BY <1>3, <2>1, QuietInv DEF LoopTop
<1>4. CASE RegisterFails(c)
  BY <1>4, QuietInv DEF RegisterFails
<1>5. CASE SelectContext(c)
  BY <1>5, QuietInv DEF SelectContext
<1>6. CASE SelectServed(c)
  BY <1>6, QuietInv DEF SelectServed
<1>7. CASE SelectTick(c)
  BY <1>7, QuietInv DEF SelectTick
<1>8. CASE Stat(c)
  <2>1. PICK x \in {"retire", "loop"} : Quiet(x)
    BY <1>8 DEF Stat
  <2> QED
    BY <1>8, <2>1, QuietInv DEF Stat
<1>9. CASE Again(c)
  <2>1. PICK x \in {"ending", "serve"} : Quiet(x)
    BY <1>9 DEF Again
  <2> QED
    BY <1>9, <2>1, QuietInv DEF Again
<1> QED
  BY <1>1, <1>2, <1>3, <1>4, <1>5, <1>6, <1>7, <1>8, <1>9, BeginInv, EndInv, ClearInv, ListenInv,
     PublishInv, RegisterInv, RetireDropInv, RetireStopInv DEF StartStep

-----------------------------------------------------------------------------
(* Stop.                                                                    *)

\* A step that leaves the Starts alone and takes at most what a serving has
\* published from it.
LEMMA StopKept ==
    ASSUME IndInv, canceled' \subseteq Starts,
           UNCHANGED <<st, gens, running, path, known, env, lifeVars>>,
           \A v \in Servings : \/ server'[v] = server[v] /\ registered'[v] = registered[v]
                               \/ server'[v] = Nil /\ ~registered'[v]
    PROVE  MutexInv' /\ ServerInv' /\ RegisteredInv' /\ LoopInv'
<1> USE DEF IndInv, lifeVars
<1>1. MutexInv'
  BY DEF MutexInv, On
<1>2. ServerInv' /\ RegisteredInv'
  BY DEF ServerInv, RegisteredInv, On, Current
<1>3. LoopInv'
  BY DEF LoopInv
<1> QED
  BY <1>1, <1>2, <1>3

\* Stop reads, cancels, takes from the serving what it read, stops it and waits.
LEMMA StopInv ==
    ASSUME IndInv, NEW p \in Stops, UNCHANGED lifeVars, StopStep(p)
    PROVE  IndInv'
<1> USE DEF IndInv, own, net, lifeVars
<1> DEFINE v0 == On(p)
           g0 == seen[p].srv
<1>0. v0 \in Servings
  BY Bounds
<1>1. ASSUME NEW v \in Servings, server[v] # Nil
      PROVE  /\ server[v] \in Generations /\ Used(server[v])
             /\ \A w \in Servings : server[w] = server[v] => w = v
  <2>1. server[v] \in Generations
    BY <1>1 DEF TypeOK, ServeTypeOK
  <2>2. Used(server[v])
    BY <1>1, <2>1, Named DEF ServerInv, Used, Published, Current, TypeOK, ServeTypeOK
  <2>3. \A w \in Servings : server[w] = server[v] => w = v
    BY <1>1, <2>1 DEF ServerInv, Published, Current
  <2> QED
    BY <2>1, <2>2, <2>3
<1>2. CASE StopRead(p)
  <2>1. /\ \A q \in Stops : q # p => sp'[q] = sp[q] /\ seen'[q] = seen[q]
        /\ sp[p] = "idle"
        /\ \/ sp'[p] = "returned" /\ seen'[p] = seen[p]
           \/ /\ sp'[p] = "cancel" /\ running[v0] # Nil
              /\ seen'[p].run = running[v0] /\ seen'[p].srv = server[v0]
        /\ UNCHANGED <<st, gens, canceled, failed, running, server, registered, srv, stopped, path,
                       known, faults, env>>
    BY <1>2 DEF StopRead, At, TypeOK, ServeTypeOK
  <2>2. ServeTypeOK'
    <3>1. [run |-> running[v0], srv |-> server[v0]] \in
             [run : Starts \cup {Nil}, srv : Generations \cup {Nil}]
      BY <1>0 DEF TypeOK, ServeTypeOK
    <3>2. /\ sp' \in [Stops -> {"idle", "cancel", "retire", "stopsrv", "wait", "returned"}]
          /\ seen' \in [Stops -> [run : Starts \cup {Nil}, srv : Generations \cup {Nil}]]
      BY <1>2, <3>1 DEF StopRead, At, TypeOK, ServeTypeOK
    <3> QED
      BY <2>1, <3>2 DEF TypeOK, ServeTypeOK
  <2>3. StoppedInv'
    BY <1>0, <1>1, <2>1 DEF StoppedInv, Used
  <2>4. MutexInv' /\ ServerInv' /\ RegisteredInv' /\ AliveInv' /\ LoopInv'
    <3>1. \A g \in Generations : Alive(g)' => Alive(g)
      BY <2>1 DEF Alive
    <3>2. AliveInv'
      BY <2>1, <3>1 DEF AliveInv, On, Current
    <3>3. MutexInv' /\ ServerInv' /\ RegisteredInv' /\ LoopInv'
      BY <2>1, StopKept DEF TypeOK, ServeTypeOK
    <3> QED
      BY <3>2, <3>3
  <2> QED
    BY <2>2, <2>3, <2>4 DEF TypeOK
<1>3. CASE StopCancel(p) \/ StopWait(p)
  <2>1. /\ \A q \in Stops : q # p => sp'[q] = sp[q]
        /\ sp[p] \in {"cancel", "wait"} /\ sp'[p] \in {"retire", "returned"}
        /\ sp' = [sp EXCEPT ![p] = sp'[p]]
        /\ UNCHANGED <<st, gens, failed, running, server, registered, srv, stopped, path, known,
                       faults, seen, env>>
    BY <1>3 DEF StopCancel, StopWait, At, TypeOK, ServeTypeOK
  <2>2. canceled' \subseteq Starts
    BY <1>3 DEF StopCancel, StopWait, StoppedInv, TypeOK, ServeTypeOK
  <2>3. ServeTypeOK'
    BY <2>1, <2>2 DEF TypeOK, ServeTypeOK
  <2>4. StoppedInv'
    <3>1. sp'[p] = "retire" => sp[p] = "cancel"
      BY <1>3 DEF StopCancel, StopWait, At, TypeOK, ServeTypeOK
    <3> QED
      BY <2>1, <3>1 DEF StoppedInv, Used
  <2>5. MutexInv' /\ ServerInv' /\ RegisteredInv' /\ AliveInv' /\ LoopInv'
    <3>1. \A g \in Generations : Alive(g)' => Alive(g)
      BY <2>1 DEF Alive
    <3>2. AliveInv'
      BY <2>1, <3>1 DEF AliveInv, On, Current
    <3>3. MutexInv' /\ ServerInv' /\ RegisteredInv' /\ LoopInv'
      BY <2>1, <2>2, StopKept
    <3> QED
      BY <3>2, <3>3
  <2> QED
    BY <2>3, <2>4, <2>5 DEF TypeOK
<1>4. CASE StopDrop(p)
  <2>1. /\ \A q \in Stops : q # p => sp'[q] = sp[q]
        /\ sp[p] = "retire" /\ sp' = [sp EXCEPT ![p] = sp'[p]]
        /\ UNCHANGED <<st, gens, canceled, failed, running, srv, stopped, path, known,
                       faults, seen, env>>
    BY <1>4 DEF StopDrop, At, TypeOK, ServeTypeOK
  <2>2. /\ \A v \in Servings :
              v # v0 => server'[v] = server[v] /\ registered'[v] = registered[v]
        /\ \/ /\ g0 # Nil /\ server[v0] = g0 /\ sp'[p] = "stopsrv"
              /\ server'[v0] = Nil /\ ~registered'[v0]
           \/ sp'[p] = "wait" /\ UNCHANGED <<server, registered>>
    BY <1>4, <1>0 DEF StopDrop, Drop, At, TypeOK, ServeTypeOK
  <2>3. ServeTypeOK'
    <3>1. /\ server' \in [Servings -> Generations \cup {Nil}]
          /\ registered' \in [Servings -> BOOLEAN]
      BY <1>4 DEF StopDrop, Drop, TypeOK, ServeTypeOK
    <3>2. sp'[p] \in {"stopsrv", "wait"} /\ DOMAIN sp' = Stops
      BY <2>1, <2>2 DEF TypeOK, ServeTypeOK
    <3> QED
      BY <2>1, <3>1, <3>2 DEF TypeOK, ServeTypeOK
  <2>4. \A v \in Servings : server'[v] = server[v] \/ server'[v] = Nil
    BY <2>2
  <2>5. sp'[p] = "stopsrv" => \A v \in Servings : server'[v] # g0
    BY <1>0, <1>1, <2>2
  <2>6. StoppedInv'
    <3>1. \A g \in Generations : Used(g)' <=> Used(g)
      BY <2>1 DEF Used
    <3>2. stopped \subseteq Generations /\ \A q \in Stops : seen[q].srv \in Generations \cup {Nil}
      BY DEF TypeOK, ServeTypeOK
    <3>3. ASSUME NEW g \in stopped PROVE Used(g)' /\ \A v \in Servings : server'[v] # g
      BY <2>1, <2>4, <3>1, <3>2, Bounds DEF StoppedInv
    <3>4. ASSUME NEW q \in Stops
          PROVE  /\ seen[q].srv # Nil => Used(seen[q].srv)'
                 /\ sp'[q] \in {"cancel", "retire", "stopsrv", "wait"} => seen[q].run # Nil
                 /\ sp'[q] = "stopsrv" =>
                       seen[q].srv # Nil /\ \A v \in Servings : server'[v] # seen[q].srv
      BY <2>1, <2>2, <2>4, <2>5, <3>1, <3>2 DEF StoppedInv
    <3> QED
      BY <2>1, <3>3, <3>4 DEF StoppedInv
  <2>7. MutexInv' /\ ServerInv' /\ RegisteredInv' /\ AliveInv' /\ LoopInv'
    <3>1. \A g \in Generations : Alive(g)' => Alive(g)
      BY <2>1 DEF Alive
    <3>2. \A g \in Generations : Alive(g)' => (server[v0] = g => server'[v0] = g)
      BY <2>1, <2>2 DEF Alive
    <3>3. AliveInv'
      BY <2>1, <2>2, <3>1, <3>2, Named, Bounds DEF AliveInv, On, Current
    <3>4. MutexInv' /\ ServerInv' /\ RegisteredInv' /\ LoopInv'
      BY <2>1, <2>2, StopKept DEF TypeOK, ServeTypeOK
    <3> QED
      BY <3>3, <3>4
  <2> QED
    BY <2>3, <2>6, <2>7 DEF TypeOK
<1>5. CASE StopServerOf(p)
  <2>1. /\ \A q \in Stops : q # p => sp'[q] = sp[q]
        /\ sp[p] = "stopsrv" /\ sp'[p] = "wait" /\ sp' = [sp EXCEPT ![p] = "wait"]
        /\ UNCHANGED <<st, gens, canceled, failed, running, server, registered, path, known,
                       faults, seen, env>>
    BY <1>5 DEF StopServerOf, At, TypeOK, ServeTypeOK
  <2>2. g0 \in Generations /\ Used(g0) /\ \A v \in Servings : server[v] # g0
    BY <2>1 DEF StoppedInv, TypeOK, ServeTypeOK
  <2>3. /\ srv' \in [Generations -> {"none", "listening", "queued", "serving", "done"}]
        /\ stopped' = stopped \cup {g0} /\ g0 \in stopped'
        /\ \A g \in Generations : g \notin stopped' =>
              g # g0 /\ g \notin stopped /\ srv'[g] = srv[g]
    BY <1>5, <2>2, StopServerKept DEF StopServerOf, StopServer
  <2>4. ServeTypeOK'
    BY <2>1, <2>2, <2>3 DEF TypeOK, ServeTypeOK
  <2>5. StoppedInv'
    BY <2>1, <2>2, <2>3 DEF StoppedInv, Used
  <2>6. MutexInv' /\ ServerInv' /\ RegisteredInv' /\ AliveInv' /\ LoopInv'
    <3>1. \A g \in Generations : Alive(g)' => Alive(g)
      BY <2>1, <2>3 DEF Alive
    <3>2. AliveInv'
      BY <2>1, <3>1 DEF AliveInv, On, Current
    <3>3. MutexInv' /\ ServerInv' /\ RegisteredInv' /\ LoopInv'
      BY <2>1, StopKept DEF TypeOK, ServeTypeOK
    <3> QED
      BY <3>2, <3>3
  <2> QED
    BY <2>4, <2>5, <2>6 DEF TypeOK
<1> QED
  BY <1>2, <1>3, <1>4, <1>5 DEF StopStep

-----------------------------------------------------------------------------
(* The gRPC servers and kubelet.                                            *)

LEMMA NetInv ==
    ASSUME IndInv, UNCHANGED lifeVars, NetStep
    PROVE  IndInv'
<1> USE DEF IndInv, own, stopping, lifeVars
<1>1. CASE KubeletRestarts
  <2> USE <1>1 DEF KubeletRestarts
  <2>1. TypeOK'
    <3>1. faults' \in 0..MaxFaults
      BY Bounds DEF TypeOK, ServeTypeOK
    <3> QED
      BY <3>1 DEF TypeOK, ServeTypeOK
  <2>2. MutexInv' /\ ServerInv' /\ StoppedInv' /\ LoopInv'
    BY DEF MutexInv, ServerInv, StoppedInv, LoopInv, On, Current, Used
  <2>3. RegisteredInv'
    BY DEF RegisteredInv
  <2>4. AliveInv'
    BY DEF AliveInv, Alive, On, Current
  <2> QED
    BY <2>1, <2>2, <2>3, <2>4
<1>2. CASE \E g \in Generations : GoServe(g) \/ ServeEnds(g)
  <2>1. PICK h \in Generations : GoServe(h) \/ ServeEnds(h)
    BY <1>2
  <2>2. /\ \A g \in Generations : g # h => srv'[g] = srv[g]
        /\ srv[h] \in {"queued", "serving"}
        /\ srv' \in [Generations -> {"none", "listening", "queued", "serving", "done"}]
        /\ UNCHANGED <<st, gens, canceled, failed, running, server, registered, stopped, path, known,
                       sp, seen, env>>
    BY <2>1 DEF GoServe, ServeEnds, TypeOK, ServeTypeOK
  <2>3. TypeOK'
    <3>1. faults' \in 0..MaxFaults
      BY <2>1, Bounds DEF GoServe, ServeEnds, TypeOK, ServeTypeOK
    <3> QED
      BY <2>2, <3>1 DEF TypeOK, ServeTypeOK
  <2>4. MutexInv' /\ ServerInv' /\ StoppedInv' /\ LoopInv'
    BY <2>2 DEF MutexInv, ServerInv, StoppedInv, LoopInv, On, Current, Used
  <2>5. RegisteredInv'
    BY <2>2 DEF RegisteredInv, Current
  <2>6. AliveInv'
    <3>1. \A g \in Generations : Alive(g)' => Alive(g)
      BY <2>2 DEF Alive
    <3> QED
      BY <2>2, <3>1 DEF AliveInv, On, Current
  <2> QED
    BY <2>3, <2>4, <2>5, <2>6
<1> QED
  BY <1>1, <1>2 DEF NetStep

-----------------------------------------------------------------------------
(* The lifecycles, the loop and direct callers.                             *)

\* A step that leaves the servings alone, but for contexts it cancels.
LEMMA CancelKept ==
    ASSUME IndInv, canceled' \subseteq Starts,
           UNCHANGED <<st, gens, failed, own, net, stopping>>
    PROVE  /\ ServeTypeOK' /\ MutexInv' /\ ServerInv' /\ StoppedInv' /\ RegisteredInv'
           /\ AliveInv'
<1> USE DEF IndInv, own, net, stopping
<1>1. ServeTypeOK'
  BY DEF TypeOK, ServeTypeOK
<1>2. MutexInv' /\ ServerInv' /\ StoppedInv' /\ RegisteredInv'
  BY DEF MutexInv, ServerInv, StoppedInv, RegisteredInv, On, Current, Used
<1>3. AliveInv'
  BY DEF AliveInv, Alive, On, Current
<1> QED
  BY <1>1, <1>2, <1>3

\* Lifecycle.Start calls the Start of the last allocator, once and only if it
\* was not stopped before, and Lifecycle.end follows its return.
LEMMA LifeInv ==
    ASSUME IndInv, NEW a \in Allocators, LifeStart(a) \/ LifeEnd(a)
    PROVE  IndInv'
<1> USE DEF IndInv
<1>0. /\ Started[a] \in Starts
      /\ \A b \in Allocators : b # a => Started[b] # Started[a]
      /\ \A b \in Allocators : Started[b] \in Starts
      /\ canceled \subseteq Starts
      /\ \A b \in Allocators : b \in Nat
      /\ made \in Nat
  BY AllocatorAssumption, Bounds DEF TypeOK, ServeTypeOK
<1>1. CASE LifeStart(a) /\ a \in over
  <2>1. /\ job[a] = "queued" /\ job' = [job EXCEPT ![a] = "returned"]
        /\ UNCHANGED <<st, run, gens, canceled, failed, own, net, stopping, made, over, loop>>
    BY <1>1 DEF LifeStart
  <2>2. /\ ServeTypeOK' /\ MutexInv' /\ ServerInv' /\ StoppedInv' /\ RegisteredInv'
        /\ AliveInv'
    BY <1>0, <2>1, CancelKept
  <2>3. job'[a] = "returned" /\ \A b \in Allocators : b # a => job'[b] = job[b]
    BY <2>1 DEF TypeOK
  <2>4. LoopInv'
    BY <1>0, <2>1, <2>3 DEF LoopInv, stopping
  <2> QED
    BY <2>1, <2>2, <2>4 DEF TypeOK
<1>2. CASE LifeStart(a) /\ a \notin over
  <2>1. /\ job[a] = "queued" /\ job' = [job EXCEPT ![a] = "running"]
        /\ run' = run \cup {a} /\ st' = [st EXCEPT ![Started[a]] = "called"]
        /\ UNCHANGED <<gens, canceled, failed, own, net, stopping, made, over, loop>>
    BY <1>2 DEF LifeStart, Goto
  <2>2. env.loop /\ st[Started[a]] = "new"
    BY <2>1 DEF LoopInv
  <2>3. /\ ServeTypeOK' /\ MutexInv' /\ ServerInv' /\ StoppedInv' /\ RegisteredInv'
        /\ AliveInv'
    <3>1. failed \subseteq Starts
      BY DEF TypeOK, ServeTypeOK
    <3> QED
      BY <1>0, <2>1, <2>2, <3>1, ServeKept DEF Holding, Published, SetUp, InServe
  <2>4. /\ job'[a] = "running" /\ \A b \in Allocators : b # a => job'[b] = job[b]
        /\ st'[Started[a]] = "called" /\ \A d \in Starts : d # Started[a] => st'[d] = st[d]
    BY <1>0, <2>1 DEF TypeOK, ServeTypeOK
  <2>5. a = made /\ loop \notin {"empty", "wait", "drain", "gone"}
    BY <1>0, <1>2, <2>1 DEF LoopInv
  <2>6. LoopInv'
    BY <1>0, <2>1, <2>2, <2>4, <2>5 DEF LoopInv, stopping
  <2> QED
    BY <2>1, <2>3, <2>6 DEF TypeOK
<1>3. CASE LifeEnd(a)
  <2>1. /\ job[a] = "running" /\ job' = [job EXCEPT ![a] = "returned"]
        /\ run' = run \ {a} /\ st[Started[a]] = "returned"
        /\ UNCHANGED <<st, gens, canceled, failed, own, net, stopping, made, over, loop>>
    BY <1>3 DEF LifeEnd, serveVars, own, net, stopping
  <2>2. /\ ServeTypeOK' /\ MutexInv' /\ ServerInv' /\ StoppedInv' /\ RegisteredInv'
        /\ AliveInv'
    BY <1>0, <2>1, CancelKept
  <2>3. job'[a] = "returned" /\ \A b \in Allocators : b # a => job'[b] = job[b]
    BY <2>1 DEF TypeOK
  <2>4. LoopInv'
    BY <1>0, <2>1, <2>3 DEF LoopInv, stopping
  <2> QED
    BY <2>1, <2>2, <2>4 DEF TypeOK
<1> QED
  BY <1>1, <1>2, <1>3

\* The loop: one allocator at a time, the last one made.
LEMMA LoopStepInv ==
    ASSUME IndInv, Create \/ StopAllocator \/ Stopped \/ GiveUp \/ Drained
    PROVE  IndInv'
<1> USE DEF IndInv
<1>0. /\ \A b \in Allocators : b \in Nat /\ Started[b] \in Starts
      /\ made \in Nat /\ canceled \subseteq Starts
      /\ Cardinality(Allocators) \in Nat /\ Allocators = 1..Cardinality(Allocators)
      /\ loop \notin {"empty", "gone"} => env.loop /\ made \in Allocators
  <2>1. made \in 0..Cardinality(Allocators) /\ loop \notin {"empty", "gone"} => made > 0
    BY DEF TypeOK, LoopInv
  <2>2. Cardinality(Allocators) \in Nat /\ Allocators = 1..Cardinality(Allocators)
    BY Bounds
  <2>3. loop \notin {"empty", "gone"} => made \in Allocators
    BY <2>1, <2>2 DEF LoopInv, TypeOK
  <2> QED
    BY <2>1, <2>2, <2>3, AllocatorAssumption DEF LoopInv, TypeOK, ServeTypeOK
<1>1. CASE Create
  <2>1. /\ env.loop /\ loop = "empty" /\ made' = made + 1 /\ loop' = "select"
        /\ job' = [job EXCEPT ![made + 1] = "queued"]
        /\ UNCHANGED <<st, gens, canceled, failed, own, net, stopping, over, run>>
    BY <1>1 DEF Create, serveVars, own, net, stopping
  <2>2. made + 1 \in Allocators /\ made' \in 0..Cardinality(Allocators)
    BY <1>0, <1>1 DEF Create
  <2>3. /\ ServeTypeOK' /\ MutexInv' /\ ServerInv' /\ StoppedInv' /\ RegisteredInv'
        /\ AliveInv'
    BY <1>0, <2>1, CancelKept
  <2>4. job'[made + 1] = "queued" /\ \A b \in Allocators : b # made + 1 => job'[b] = job[b]
    BY <2>1, <2>2 DEF TypeOK
  <2>5. job[made + 1] = "none"
    BY <1>0, <2>2 DEF LoopInv
  <2>6. \A b \in Allocators : /\ b < made' => b < made \/ b = made
                              /\ b > made' <=> b > made /\ b # made + 1
                              /\ b = made' => b = made + 1
    BY <1>0, <2>1
  <2>7. LoopInv'
    BY <1>0, <2>1, <2>2, <2>4, <2>5, <2>6 DEF LoopInv, stopping
  <2> QED
    BY <2>1, <2>2, <2>3, <2>7 DEF TypeOK
<1>2. CASE StopAllocator \/ (GiveUp /\ loop # "empty")
  <2>1. /\ loop = "select" /\ loop' \in {"wait", "drain"} /\ over' = over \cup {made}
        /\ canceled' = canceled \cup {Started[b] : b \in run \cap {made}}
        /\ UNCHANGED <<st, gens, failed, own, net, stopping, made, job, run>>
    BY <1>2 DEF StopAllocator, GiveUp, LifeStop
  <2>2. canceled' \subseteq Starts
    BY <1>0, <2>1 DEF TypeOK
  <2>3. /\ ServeTypeOK' /\ MutexInv' /\ ServerInv' /\ StoppedInv' /\ RegisteredInv'
        /\ AliveInv'
    BY <2>1, <2>2, CancelKept
  <2>4. LoopInv'
    BY <1>0, <2>1 DEF LoopInv, stopping
  <2> QED
    BY <1>0, <2>1, <2>3, <2>4 DEF TypeOK
<1>3. CASE Stopped \/ Drained \/ (GiveUp /\ loop = "empty")
  <2>1. /\ loop' \in {"empty", "gone"}
        /\ \/ loop \in {"wait", "drain"} /\ made \notin run
           \/ loop = "empty" /\ env.loop
        /\ UNCHANGED <<st, gens, canceled, failed, own, net, stopping, made, job, over, run>>
    BY <1>3 DEF Stopped, Drained, GiveUp, serveVars, own, net, stopping
  <2>2. /\ ServeTypeOK' /\ MutexInv' /\ ServerInv' /\ StoppedInv' /\ RegisteredInv'
        /\ AliveInv'
    BY <1>0, <2>1, CancelKept
  <2>3. LoopInv'
    BY <1>0, <2>1 DEF LoopInv, stopping
  <2> QED
    BY <2>1, <2>2, <2>3 DEF TypeOK
<1> QED
  BY <1>1, <1>2, <1>3

\* Direct callers call Starts that no lifecycle calls.
LEMMA CallInv ==
    ASSUME IndInv, NEW c \in env.calls, Call(c) \/ Cancel(c)
    PROVE  IndInv'
<1> USE DEF IndInv
<1>0. /\ c \in Starts /\ canceled \subseteq Starts /\ failed \subseteq Starts
      /\ \A a \in Allocators : Started[a] \in Starts
      /\ env.loop => \A a \in Allocators : Started[a] # c
  BY Bounds, AllocatorAssumption DEF TypeOK, ServeTypeOK
<1>1. CASE Call(c)
  <2>1. /\ st[c] = "new" /\ st' = [st EXCEPT ![c] = "called"]
        /\ UNCHANGED <<gens, canceled, failed, own, net, stopping, lifeVars>>
    BY <1>1 DEF Call, Goto
  <2>2. /\ ServeTypeOK' /\ MutexInv' /\ ServerInv' /\ StoppedInv' /\ RegisteredInv'
        /\ AliveInv'
    BY <1>0, <2>1, ServeKept DEF Holding, Published, SetUp, InServe
  <2>3. \A d \in Starts : d # c => st'[d] = st[d]
    BY <2>1 DEF TypeOK, ServeTypeOK
  <2>4. LoopInv'
    BY <1>0, <2>1, <2>3 DEF LoopInv, stopping, lifeVars
  <2> QED
    BY <2>1, <2>2, <2>4 DEF TypeOK, lifeVars
<1>2. CASE Cancel(c)
  <2>1. /\ canceled' \subseteq Starts
        /\ UNCHANGED <<st, gens, failed, own, net, stopping, lifeVars>>
    BY <1>0, <1>2 DEF Cancel
  <2>2. /\ ServeTypeOK' /\ MutexInv' /\ ServerInv' /\ StoppedInv' /\ RegisteredInv'
        /\ AliveInv'
    BY <2>1, CancelKept
  <2> QED
    BY <2>1, <2>2 DEF TypeOK, LoopInv, stopping, lifeVars
<1> QED
  BY <1>1, <1>2

-----------------------------------------------------------------------------
(* The specification.                                                       *)

LEMMA NextInv == IndInv /\ [Next]_vars => IndInv'
<1> SUFFICES ASSUME IndInv, [Next]_vars PROVE IndInv'
  OBVIOUS
<1>1. CASE UNCHANGED vars
  <2>1. UNCHANGED <<st, gens, canceled, failed, own, net, stopping, lifeVars>>
    BY <1>1 DEF vars, serveVars, own, net, stopping
  <2>2. /\ ServeTypeOK' /\ MutexInv' /\ ServerInv' /\ StoppedInv' /\ RegisteredInv'
        /\ AliveInv'
    BY <2>1, CancelKept DEF IndInv, TypeOK, ServeTypeOK
  <2> QED
    BY <2>1, <2>2 DEF IndInv, TypeOK, LoopInv, stopping, lifeVars
<1>2. ASSUME NEW p \in env.stops PROVE p \in Stops
  BY Bounds DEF IndInv
<1> QED
  BY <1>1, <1>2, StartInv, StopInv, NetInv, LifeInv, LoopStepInv, CallInv DEF Next

\* The loop, its lifecycles and the servings keep IndInv: who holds a serving,
\* what it has published, what was stopped, what kubelet was told, and which
\* allocator may run.
THEOREM AllocatorInvariance == Spec => []IndInv
<1>1. IndInv /\ [Next]_vars => IndInv'
  BY NextInv
<1> QED
  BY InitInv, <1>1, PTL DEF Spec

\* Every variable of the servings and of the loop keeps its type.
THEOREM AllocatorTypes == Spec => []TypeOK
<1>1. IndInv => TypeOK
  BY DEF IndInv
<1> QED
  BY AllocatorInvariance, <1>1, PTL

\* isRegistered: a serving that reports itself registered has published a
\* generation nobody told to stop, and kubelet knows it unless its socket is
\* gone; publish, Record and retire never leave the flag of an earlier one.
THEOREM RegistrationCurrent == Spec => []RegisteredIsCurrent
<1>1. IndInv => RegisteredIsCurrent
  BY DEF IndInv, RegisteredInv, StoppedInv, RegisteredIsCurrent
<1> QED
  BY AllocatorInvariance, <1>1, PTL

\* Start and Stop: a Start that has returned leaves no generation that serves or
\* will serve, but for one a Stop is about to stop.
THEOREM NothingLeft == Spec => []ReturnedLeavesNothing
<1>1. IndInv => ReturnedLeavesNothing
  BY DEF IndInv, AliveInv, ReturnedLeavesNothing, Published
<1> QED
  BY AllocatorInvariance, <1>1, PTL

\* What a behaviour may meet is fixed from the start.
LEMMA EnvKept == [Next]_vars => UNCHANGED env
<1> USE DEF stopping
<1>1. ASSUME NEW c \in Starts, StartStep(c) PROVE UNCHANGED env
  BY <1>1 DEF StartStep, Begin, BlockedReturns, Clear, Listen, SetupFails, Publish, LoopTop,
     RegisterAccepted, RegisterFails, Record, SelectContext, SelectServed, SelectTick, Stat,
     RetireDrop, RetireStop, Again, End
<1>2. ASSUME NEW p, StopStep(p) PROVE UNCHANGED env
  BY <1>2 DEF StopStep, StopRead, StopCancel, StopDrop, StopServerOf, StopWait
<1>3. NetStep => UNCHANGED env
  BY DEF NetStep, KubeletRestarts, GoServe, ServeEnds
<1>4. ASSUME NEW a, LifeStart(a) \/ LifeEnd(a) PROVE UNCHANGED env
  BY <1>4 DEF LifeStart, LifeEnd, serveVars
<1>5. Create \/ StopAllocator \/ Stopped \/ GiveUp \/ Drained => UNCHANGED env
  BY DEF Create, StopAllocator, Stopped, GiveUp, Drained, serveVars
<1>6. ASSUME NEW c, Call(c) \/ Cancel(c) PROVE UNCHANGED env
  BY <1>6 DEF Call, Cancel
<1> QED
  BY <1>1, <1>2, <1>3, <1>4, <1>5, <1>6 DEF Next, vars, serveVars

\* Where the socket has one server at a time, the Start that clears the path is
\* the only one that holds a serving, so no generation alive loses it.
LEMMA PathStep ==
    ASSUME IndInv, OneServer, Next, NEW g \in Generations, path = g, path' # g, Alive(g)
    PROVE  known' = Nil /\ faults' = faults + 1
<1> USE DEF IndInv, own, net, stopping
<1>1. g # Nil /\ g[1] \in Starts /\ g = Current(g[1])
  BY Bounds, Named DEF AliveInv
<1>2. st[g[1]] \in Holding /\ st[g[1]] # "serve"
  BY <1>1 DEF AliveInv, Published, Holding, InServe
<1>3. ASSUME NEW c \in Starts, Clear(c) PROVE FALSE
  <2>1. st[c] = "serve" /\ c # g[1]
    BY <1>3, <1>2 DEF Clear
  <2>2. CASE \A d, e \in Starts : On(d) = On(e)
    BY <1>1, <1>2, <2>1, <2>2 DEF MutexInv, Holding, InServe
  <2>3. CASE env.loop /\ env.calls = {}
    <3>1. \A d \in Starts : st[d] \notin {"new", "returned"} => \E a \in run : Started[a] = d
      BY <2>3 DEF LoopInv
    <3>2. \A a \in run : a = made
      BY Bounds DEF LoopInv, TypeOK
    <3> QED
      BY <1>1, <1>2, <2>1, <3>1, <3>2 DEF Holding, InServe
  <2> QED
    BY <2>2, <2>3 DEF OneServer
<1>4. ASSUME NEW c \in Starts, StartStep(c) PROVE FALSE
  <2>1. ~Listen(c)
    BY <1>1 DEF Listen
  <2> QED
    BY <1>3, <1>4, <2>1 DEF StartStep, Begin, BlockedReturns, SetupFails, Publish, LoopTop,
       RegisterAccepted, RegisterFails, Record, SelectContext, SelectServed, SelectTick, Stat,
       RetireDrop, RetireStop, Again, End
<1>5. ASSUME NEW p \in env.stops, StopStep(p) PROVE FALSE
  BY <1>5 DEF StopStep, StopRead, StopCancel, StopDrop, StopServerOf, StopWait
<1>6. ASSUME NetStep PROVE KubeletRestarts
  BY <1>6 DEF NetStep, GoServe, ServeEnds
<1>7. ASSUME NEW a \in Allocators, LifeStart(a) \/ LifeEnd(a) PROVE FALSE
  BY <1>7 DEF LifeStart, LifeEnd, serveVars
<1>8. ~(Create \/ StopAllocator \/ Stopped \/ GiveUp \/ Drained)
  BY DEF Create, StopAllocator, Stopped, GiveUp, Drained, serveVars
<1>9. ASSUME NEW c \in env.calls, Call(c) \/ Cancel(c) PROVE FALSE
  BY <1>9 DEF Call, Cancel
<1>10. KubeletRestarts
  BY <1>4, <1>5, <1>6, <1>7, <1>8, <1>9 DEF Next
<1> QED
  BY <1>10 DEF KubeletRestarts

\* serve: whatever allocator set a generation up and however late a stop or a
\* start arrives, nobody but kubelet takes the path from a generation that is
\* alive, as long as only the loop starts servers or all share one serving.
THEOREM SocketKept == Spec /\ OneServer => PathKept
<1>1. IndInv /\ OneServer /\ [Next]_vars =>
         [\A g \in Generations :
             path = g /\ path' # g /\ Alive(g) => known' = Nil /\ faults' = faults + 1]_vars
  BY PathStep
<1>2. OneServer /\ [Next]_vars => OneServer'
  BY EnvKept DEF OneServer, On
<1> QED
  BY AllocatorInvariance, <1>1, <1>2, PTL DEF Spec, PathKept

=============================================================================
