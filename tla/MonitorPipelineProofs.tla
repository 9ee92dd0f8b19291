------------------------ MODULE MonitorPipelineProofs ------------------------
(***************************************************************************)
(* datamon's sinks and analyses, for any number of analyses, whichever of  *)
(* the other sinks are built, any frames and any faults.                   *)
(*                                                                         *)
(* The argument.  Where the thread is says which sinks have the message    *)
(* in hand (InvSeen), whether the ROOT file may be open (InvRoot) and what *)
(* the analyses have been called with (InvRuns, InvInit, InvOver, InvDrawn). *)
(* What is known of the analyses is lost when a loop over them stops half  *)
(* way; then Run has failed, or an analysis has (Orderly).                 *)
(***************************************************************************)
EXTENDS MonitorPipeline, TLAPS

RtPlaces   == {"realtime", "rt draw", "rt shot", "rt begin", "rt events", "rt pump", "rt save", "rt end"}
OnHand     == {"text", "root", "count"} \union RtPlaces
FinPlaces  == {"fin init", "fin draw", "fin shot", "fin end", "fin final", "fin redraw", "fin save"}
BehindRoot == {"finalise realtime", "done"} \union FinPlaces
Finishing  == {"finalise text", "finalise root"} \union BehindRoot
DrawPlaces == {"rt draw", "rt shot", "fin draw", "fin shot"}

\* No analysis fails itself; what is known of all of them then stays so.
Reliable == faults \intersect InnerFaults = {}
Orderly  == ok \/ Reliable

Misuses == {"initialised twice", "begin in a run", "event outside its run",
            "end outside its run", "finalised in a run"}

Lives == [inits : Nat, run : Runs \union {NoRun}, plots : SUBSET Runs,
          drawn : BOOLEAN, over : BOOLEAN, misuse : SUBSET Misuses]

InvPlace ==
  /\ pc \in {"loop"} \union OnHand \union Finishing
  /\ pc \in {"text", "finalise text"} => HasText
  /\ pc \in {"root", "finalise root"} => HasRoot
  /\ pc \in RtPlaces \union FinPlaces \union {"finalise realtime"} => NAnalyses > 0
  /\ ~ok => pc \in Finishing

InvCount ==
  /\ TypeOK
  /\ pc \in OnHand => message \in Runs /\ idx < frames /\ (MaxEvents > 0 => idx < MaxEvents)

\* Sink i has yet to take the message in hand.
Owed(i) == pc = "text" \/ (pc = "root" /\ i >= 2) \/ (pc \in RtPlaces /\ i = 3)

InvSeen ==
  /\ seen \in [1 .. 3 -> Nat]
  /\ SinksInStep
  /\ ok => \A i \in 1 .. 3 : Built(Sinks[i]) => seen[i] = IF Owed(i) THEN frames - 1 ELSE frames

InvRoot ==
  /\ root = "open" => HasRoot
  /\ pc \in BehindRoot => root # "open" /\ (ok /\ HasRoot => root = "closed")
  /\ HasRoot /\ root = "none" =>
       /\ pc \notin RtPlaces \union FinPlaces \union {"finalise realtime"}
       /\ \A a \in Analysis : life[a].inits = 0

InvRuns ==
  /\ Orderly => \A a \in Analysis : life[a].run = IF pc = "rt begin" THEN NoRun ELSE active_run
  /\ pc = "rt events" => active_run = message
  /\ pc \in {"fin final", "fin redraw", "fin save"} => active_run = NoRun
  /\ PlotsShowOneRun

InvInit ==
  /\ pc \in DrawPlaces => ~initialised
  /\ initialised \/ pc \in DrawPlaces => \A a \in Analysis : life[a].inits # 0
  /\ Reliable /\ ~initialised /\ pc \notin DrawPlaces => \A a \in Analysis : life[a].inits = 0

InvMisuse == EventsBelongToRun /\ AnalysesUsedInOrder

InvOver ==
  /\ pc \in {"fin redraw", "fin save"} => \A a \in Analysis : life[a].over
  /\ pc = "done" =>
       /\ ok => \A a \in Analysis : life[a].over
       /\ Reliable => \A a \in Analysis : life[a].inits # 0 => life[a].run = NoRun /\ life[a].over

InvDrawn ==
  /\ pc \in {"rt shot", "fin shot", "fin save"} => \A a \in Analysis : life[a].drawn
  /\ pc = "rt save" /\ selected # None => \A a \in Analysis : life[a].drawn
  /\ SnapshotsAreUpToDate

InvLife == life \in [Analysis -> Lives]

IInv ==
  /\ InvPlace /\ InvCount /\ InvSeen /\ InvRoot
  /\ InvLife /\ InvRuns /\ InvInit /\ InvMisuse /\ InvOver /\ InvDrawn

-----------------------------------------------------------------------------
(* The places of the sinks that are built.                                 *)

LEMMA NextOf ==
  ASSUME NEW p, NEW after
  PROVE  /\ NextSink(1, p, after) = IF HasText THEN p[1] ELSE NextSink(2, p, after)
         /\ NextSink(2, p, after) = IF HasRoot THEN p[2] ELSE NextSink(3, p, after)
         /\ NextSink(3, p, after) = IF NAnalyses > 0 THEN p[3] ELSE after
         /\ NextSink(4, p, after) = after
<1>1. /\ Built(Sinks[1]) <=> HasText
      /\ Built(Sinks[2]) <=> HasRoot
      /\ Built(Sinks[3]) <=> NAnalyses > 0
  BY DEF Built, Sinks
<1> DEFINE L(i) == {j \in i .. 3 : Built(Sinks[j])}
           First(i) == CHOOSE j \in L(i) : \A k \in L(i) : j <= k
<1>2. \A i \in 1 .. 4 : NextSink(i, p, after) = IF L(i) = {} THEN after ELSE p[First(i)]
  BY DEF NextSink
<1>3. ASSUME NEW i \in 1 .. 3, Built(Sinks[i])
      PROVE  L(i) # {} /\ First(i) = i
  <2>1. i \in L(i) /\ \A k \in L(i) : i <= k
    BY <1>3
  <2>2. \A j \in L(i) : (\A k \in L(i) : j <= k) => j = i
    BY <2>1
  <2>3. QED BY <2>1, <2>2
<1>4. \A i \in 1 .. 3 : ~Built(Sinks[i]) => L(i) = L(i + 1)
  OBVIOUS
<1>5. L(4) = {}
  OBVIOUS
<1>6. \A i \in 1 .. 3 : NextSink(i, p, after) = IF Built(Sinks[i]) THEN p[i] ELSE NextSink(i + 1, p, after)
  <2>1. SUFFICES ASSUME NEW i \in 1 .. 3
                 PROVE  NextSink(i, p, after) = IF Built(Sinks[i]) THEN p[i] ELSE NextSink(i + 1, p, after)
    OBVIOUS
  <2>2. i \in 1 .. 4 /\ i + 1 \in 1 .. 4
    OBVIOUS
  <2> HIDE DEF L, First
  <2>3. CASE Built(Sinks[i])
    BY <1>2, <1>3, <2>2, <2>3
  <2>4. CASE ~Built(Sinks[i])
    <3>1. L(i) = L(i + 1)
      BY <1>4, <2>4
    <3>2. First(i) = First(i + 1)
      BY <3>1 DEF First
    <3>3. QED BY <1>2, <2>2, <2>4, <3>1, <3>2
  <2>5. QED BY <2>3, <2>4
<1>7. NextSink(4, p, after) = after
  BY <1>2, <1>5
<1> HIDE DEF L, First
<1>8. QED BY <1>1, <1>6, <1>7

LEMMA SinkPlaces ==
  /\ NextSink(1, Sinks, "count") = IF HasText THEN "text" ELSE NextSink(2, Sinks, "count")
  /\ NextSink(2, Sinks, "count") = IF HasRoot THEN "root" ELSE NextSink(3, Sinks, "count")
  /\ NextSink(3, Sinks, "count") = IF NAnalyses > 0 THEN "realtime" ELSE "count"
  /\ NextSink(4, Sinks, "count") = "count"
<1>1. Sinks[1] = "text" /\ Sinks[2] = "root" /\ Sinks[3] = "realtime"
  BY DEF Sinks
<1>2. QED BY <1>1, NextOf

LEMMA FinaliserPlaces ==
  /\ FirstFinalise = IF HasText THEN "finalise text" ELSE NextSink(2, Finalisers, "done")
  /\ NextSink(2, Finalisers, "done") = IF HasRoot THEN "finalise root" ELSE NextSink(3, Finalisers, "done")
  /\ NextSink(3, Finalisers, "done") = IF NAnalyses > 0 THEN "finalise realtime" ELSE "done"
<1>1. /\ Finalisers[1] = "finalise text" /\ Finalisers[2] = "finalise root"
      /\ Finalisers[3] = "finalise realtime"
  BY DEF Finalisers
<1>2. QED BY <1>1, NextOf DEF FirstFinalise

-----------------------------------------------------------------------------
(* Calls of analyses.                                                      *)

\* What a call does, field by field.
LEMMA CalledFields ==
  ASSUME NEW l \in Lives, NEW r
  PROVE  /\ Called(l, "init", r) =
              [l EXCEPT !.inits = l.inits + 1, !.plots = {},
                 !.misuse = IF l.inits # 0 THEN l.misuse \union {"initialised twice"} ELSE l.misuse]
         /\ Called(l, "begin", r) =
              [l EXCEPT !.run = r,
                 !.misuse = IF l.run # NoRun THEN l.misuse \union {"begin in a run"} ELSE l.misuse]
         /\ Called(l, "event", r) =
              [l EXCEPT !.drawn = FALSE, !.plots = l.plots \union {r},
                 !.misuse = IF l.run # r \/ l.inits = 0
                            THEN l.misuse \union {"event outside its run"} ELSE l.misuse]
         /\ Called(l, "end", r) =
              [l EXCEPT !.run = NoRun, !.plots = {},
                 !.misuse = IF l.run # r THEN l.misuse \union {"end outside its run"} ELSE l.misuse]
         /\ Called(l, "update", r) = [l EXCEPT !.drawn = TRUE]
         /\ Called(l, "final", r) =
              [l EXCEPT !.over = TRUE,
                 !.misuse = IF l.run # NoRun THEN l.misuse \union {"finalised in a run"} ELSE l.misuse]
BY DEF Called, Plots, Wrong, Lives

\* A loop of calls that gets through has called all analyses, and any other only
\* some, and then an analysis has failed, unless the endpoint could not be bound.
LEMMA LoopOfCalls ==
  ASSUME InvLife, NEW op, NEW r, NEW f \in 0 .. NAnalyses + 1, Calls(op, r, f)
  PROVE  /\ \A a \in Analysis : life'[a] = Called(life[a], op, r) \/ life'[a] = life[a]
         /\ AllDone(f) => \A a \in Analysis : life'[a] = Called(life[a], op, r)
         /\ f = 0 => life' = life
         /\ (\A a \in Analysis : Called(life[a], op, r) \in Lives) => InvLife'
<1>1. life' = [a \in Analysis |-> IF a <= f THEN Called(life[a], op, r) ELSE life[a]]
  BY DEF Calls
<1>2. \A a \in Analysis : life'[a] = IF a <= f THEN Called(life[a], op, r) ELSE life[a]
  BY <1>1
<1>3. AllDone(f) => \A a \in Analysis : a <= f
  BY PipelineAssumption DEF AllDone, Analysis
<1>4. f = 0 => \A a \in Analysis : ~(a <= f)
  BY DEF Analysis
<1>5. life = [a \in Analysis |-> life[a]]
  BY DEF InvLife
<1>6. f = 0 => life' = life
  BY <1>1, <1>4, <1>5
<1>7. (\A a \in Analysis : Called(life[a], op, r) \in Lives) => InvLife'
  BY <1>1 DEF InvLife
<1>8. QED BY <1>2, <1>3, <1>6, <1>7

\* Where a loop of calls may end.
LEMMA EndsOf ==
  ASSUME NEW op, NEW f \in Ends(op)
  PROVE  /\ f \in 1 .. NAnalyses + 1
         /\ ~AllDone(f) => op \in faults
<1>1. NAnalyses \in Nat
  BY PipelineAssumption
<1>2. QED BY <1>1 DEF Ends, AllDone

\* What calls of each kind leave of an analysis, done or not.
LEMMA InitCalls ==
  ASSUME InvLife, NEW f \in 0 .. NAnalyses + 1, Calls("init", NoRun, f)
  PROVE  /\ InvLife'
         /\ \A a \in Analysis : /\ life'[a].run = life[a].run
                                /\ life'[a].plots \subseteq life[a].plots
                                /\ life[a].inits = 0 => life'[a].misuse = life[a].misuse
                                /\ life'[a].misuse \subseteq life[a].misuse \union {"initialised twice"}
         /\ AllDone(f) => \A a \in Analysis : life'[a].inits # 0
<1> DEFINE C(l) == Called(l, "init", NoRun)
<1>1. ASSUME NEW l \in Lives
      PROVE  /\ C(l) \in Lives
             /\ C(l).run = l.run
             /\ C(l).plots = {}
             /\ l.inits = 0 => C(l).misuse = l.misuse
             /\ C(l).misuse \subseteq l.misuse \union {"initialised twice"}
             /\ C(l).inits # 0
  <2> DEFINE m == IF l.inits # 0 THEN l.misuse \union {"initialised twice"} ELSE l.misuse
             n == l.inits + 1
  <2>1. C(l) = [l EXCEPT !.inits = n, !.plots = {}, !.misuse = m]
    BY CalledFields
  <2>2. /\ l.inits \in Nat /\ l.run \in Runs \union {NoRun} /\ l.plots \subseteq Runs
        /\ l.drawn \in BOOLEAN /\ l.over \in BOOLEAN /\ l.misuse \subseteq Misuses
    BY DEF Lives
  <2>3. n \in Nat /\ n # 0
    BY <2>2
  <2>4. /\ m \subseteq Misuses /\ m \subseteq l.misuse \union {"initialised twice"}
        /\ l.inits = 0 => m = l.misuse
    BY <2>2 DEF Misuses
  <2> HIDE DEF m, C, n
  <2>5. QED BY <2>1, <2>2, <2>3, <2>4 DEF Lives
<1>2. /\ \A a \in Analysis : life'[a] = C(life[a]) \/ life'[a] = life[a]
      /\ AllDone(f) => \A a \in Analysis : life'[a] = C(life[a])
      /\ (\A a \in Analysis : C(life[a]) \in Lives) => InvLife'
  BY LoopOfCalls, Zenon
<1> HIDE DEF C
<1>3. \A a \in Analysis : life[a] \in Lives
  BY DEF InvLife
<1>4. ASSUME NEW a \in Analysis
      PROVE  /\ life'[a].run = life[a].run
             /\ life'[a].plots \subseteq life[a].plots
             /\ life[a].inits = 0 => life'[a].misuse = life[a].misuse
             /\ life'[a].misuse \subseteq life[a].misuse \union {"initialised twice"}
  <2>1. /\ C(life[a]).run = life[a].run
        /\ C(life[a]).plots = {}
        /\ life[a].inits = 0 => C(life[a]).misuse = life[a].misuse
        /\ C(life[a]).misuse \subseteq life[a].misuse \union {"initialised twice"}
        /\ C(life[a]).inits # 0
    BY <1>1, <1>3
  <2>2. life'[a] = C(life[a]) \/ life'[a] = life[a]
    BY <1>2
  <2>3. QED BY <2>1, <2>2
<1>5. InvLife'
  BY <1>1, <1>2, <1>3
<1>6. AllDone(f) => \A a \in Analysis : life'[a].inits # 0
  <2>1. ASSUME AllDone(f), NEW a \in Analysis PROVE life'[a] = C(life[a]) /\ C(life[a]).inits # 0
    BY <1>1, <1>2, <1>3, <2>1
  <2>2. QED BY <2>1
<1>7. QED BY <1>4, <1>5, <1>6

LEMMA BeginCalls ==
  ASSUME InvLife, NEW r \in Runs, NEW f \in 0 .. NAnalyses + 1, Calls("begin", r, f)
  PROVE  /\ InvLife'
         /\ \A a \in Analysis : /\ life'[a].inits = life[a].inits
                                /\ life'[a].run \in {r, life[a].run}
                                /\ life'[a].plots = life[a].plots
                                /\ life[a].run = NoRun => life'[a].misuse = life[a].misuse
                                /\ life'[a].misuse \subseteq life[a].misuse \union {"begin in a run"}
         /\ AllDone(f) => \A a \in Analysis : life'[a].run = r
<1> DEFINE C(l) == Called(l, "begin", r)
<1>1. ASSUME NEW l \in Lives
      PROVE  /\ C(l) \in Lives
             /\ C(l).inits = l.inits
             /\ C(l).run = r
             /\ C(l).plots = l.plots
             /\ l.run = NoRun => C(l).misuse = l.misuse
             /\ C(l).misuse \subseteq l.misuse \union {"begin in a run"}
  <2> DEFINE m == IF l.run # NoRun THEN l.misuse \union {"begin in a run"} ELSE l.misuse
  <2>1. C(l) = [l EXCEPT !.run = r, !.misuse = m]
    BY CalledFields
  <2>2. /\ l.inits \in Nat /\ l.run \in Runs \union {NoRun} /\ l.plots \subseteq Runs
        /\ l.drawn \in BOOLEAN /\ l.over \in BOOLEAN /\ l.misuse \subseteq Misuses
    BY DEF Lives
  <2>3. /\ m \subseteq Misuses /\ m \subseteq l.misuse \union {"begin in a run"}
        /\ l.run = NoRun => m = l.misuse
    BY <2>2 DEF Misuses
  <2> HIDE DEF m, C
  <2>4. QED BY <2>1, <2>2, <2>3 DEF Lives
<1>2. /\ \A a \in Analysis : life'[a] = C(life[a]) \/ life'[a] = life[a]
      /\ AllDone(f) => \A a \in Analysis : life'[a] = C(life[a])
      /\ (\A a \in Analysis : C(life[a]) \in Lives) => InvLife'
  BY LoopOfCalls, Zenon
<1> HIDE DEF C
<1>3. \A a \in Analysis : life[a] \in Lives
  BY DEF InvLife
<1>4. ASSUME NEW a \in Analysis
      PROVE  /\ life'[a].inits = life[a].inits
             /\ life'[a].run \in {r, life[a].run}
             /\ life'[a].plots = life[a].plots
             /\ life[a].run = NoRun => life'[a].misuse = life[a].misuse
             /\ life'[a].misuse \subseteq life[a].misuse \union {"begin in a run"}
  <2>1. /\ C(life[a]).inits = life[a].inits
        /\ C(life[a]).run = r
        /\ C(life[a]).plots = life[a].plots
        /\ life[a].run = NoRun => C(life[a]).misuse = life[a].misuse
        /\ C(life[a]).misuse \subseteq life[a].misuse \union {"begin in a run"}
    BY <1>1, <1>3
  <2>2. life'[a] = C(life[a]) \/ life'[a] = life[a]
    BY <1>2
  <2>3. QED BY <2>1, <2>2
<1>5. InvLife'
  BY <1>1, <1>2, <1>3
<1>6. AllDone(f) => \A a \in Analysis : life'[a].run = r
  <2>1. ASSUME AllDone(f), NEW a \in Analysis PROVE life'[a] = C(life[a]) /\ C(life[a]).run = r
    BY <1>1, <1>2, <1>3, <2>1
  <2>2. QED BY <2>1
<1>7. QED BY <1>4, <1>5, <1>6

LEMMA EventCalls ==
  ASSUME InvLife, NEW r \in Runs, NEW f \in 0 .. NAnalyses + 1, Calls("event", r, f)
  PROVE  /\ InvLife'
         /\ \A a \in Analysis : /\ life'[a].inits = life[a].inits
                                /\ life'[a].run = life[a].run
                                /\ life'[a].plots \subseteq life[a].plots \union {r}
                                /\ life[a].run = r /\ life[a].inits # 0 => life'[a].misuse = life[a].misuse
                                /\ life'[a].misuse \subseteq life[a].misuse \union {"event outside its run"}
<1> DEFINE C(l) == Called(l, "event", r)
<1>1. ASSUME NEW l \in Lives
      PROVE  /\ C(l) \in Lives
             /\ C(l).inits = l.inits
             /\ C(l).run = l.run
             /\ C(l).plots = l.plots \union {r}
             /\ l.run = r /\ l.inits # 0 => C(l).misuse = l.misuse
             /\ C(l).misuse \subseteq l.misuse \union {"event outside its run"}
  <2> DEFINE m == IF l.run # r \/ l.inits = 0 THEN l.misuse \union {"event outside its run"} ELSE l.misuse
             q == l.plots \union {r}
  <2>1. C(l) = [l EXCEPT !.drawn = FALSE, !.plots = q, !.misuse = m]
    BY CalledFields
  <2>2. /\ l.inits \in Nat /\ l.run \in Runs \union {NoRun} /\ l.plots \subseteq Runs
        /\ l.drawn \in BOOLEAN /\ l.over \in BOOLEAN /\ l.misuse \subseteq Misuses
    BY DEF Lives
  <2>3. q \subseteq Runs
    BY <2>2
  <2>4. /\ m \subseteq Misuses /\ m \subseteq l.misuse \union {"event outside its run"}
        /\ l.run = r /\ l.inits # 0 => m = l.misuse
    BY <2>2 DEF Misuses
  <2> HIDE DEF m, C, q
  <2>5. /\ C(l) \in Lives /\ C(l).inits = l.inits /\ C(l).run = l.run
        /\ C(l).plots = q /\ C(l).misuse = m
    BY <2>1, <2>2, <2>3, <2>4 DEF Lives
  <2>6. QED BY <2>4, <2>5 DEF q
<1>2. /\ \A a \in Analysis : life'[a] = C(life[a]) \/ life'[a] = life[a]
      /\ AllDone(f) => \A a \in Analysis : life'[a] = C(life[a])
      /\ (\A a \in Analysis : C(life[a]) \in Lives) => InvLife'
  BY LoopOfCalls, Zenon
<1> HIDE DEF C
<1>3. \A a \in Analysis : life[a] \in Lives
  BY DEF InvLife
<1>4. ASSUME NEW a \in Analysis
      PROVE  /\ life'[a].inits = life[a].inits
             /\ life'[a].run = life[a].run
             /\ life'[a].plots \subseteq life[a].plots \union {r}
             /\ life[a].run = r /\ life[a].inits # 0 => life'[a].misuse = life[a].misuse
             /\ life'[a].misuse \subseteq life[a].misuse \union {"event outside its run"}
  <2>1. /\ C(life[a]).inits = life[a].inits
        /\ C(life[a]).run = life[a].run
        /\ C(life[a]).plots = life[a].plots \union {r}
        /\ life[a].run = r /\ life[a].inits # 0 => C(life[a]).misuse = life[a].misuse
        /\ C(life[a]).misuse \subseteq life[a].misuse \union {"event outside its run"}
    BY <1>1, <1>3
  <2>2. life'[a] = C(life[a]) \/ life'[a] = life[a]
    BY <1>2
  <2>3. QED BY <2>1, <2>2
<1>5. InvLife'
  BY <1>1, <1>2, <1>3
<1>6. QED BY <1>4, <1>5

LEMMA EndCalls ==
  ASSUME InvLife, NEW r, NEW f \in 0 .. NAnalyses + 1, Calls("end", r, f)
  PROVE  /\ InvLife'
         /\ \A a \in Analysis : /\ life'[a].inits = life[a].inits
                                /\ (life'[a].run = life[a].run /\ life'[a].plots = life[a].plots) \/ (life'[a].run = NoRun /\ life'[a].plots = {})
                                /\ life[a].run = r => life'[a].misuse = life[a].misuse
                                /\ life'[a].misuse \subseteq life[a].misuse \union {"end outside its run"}
         /\ AllDone(f) => \A a \in Analysis : life'[a].run = NoRun
<1> DEFINE C(l) == Called(l, "end", r)
<1>1. ASSUME NEW l \in Lives
      PROVE  /\ C(l) \in Lives
             /\ C(l).inits = l.inits
             /\ C(l).run = NoRun /\ C(l).plots = {}
             /\ l.run = r => C(l).misuse = l.misuse
             /\ C(l).misuse \subseteq l.misuse \union {"end outside its run"}
  <2> DEFINE m == IF l.run # r THEN l.misuse \union {"end outside its run"} ELSE l.misuse
  <2>1. C(l) = [l EXCEPT !.run = NoRun, !.plots = {}, !.misuse = m]
    BY CalledFields
  <2>2. /\ l.inits \in Nat /\ l.run \in Runs \union {NoRun} /\ l.plots \subseteq Runs
        /\ l.drawn \in BOOLEAN /\ l.over \in BOOLEAN /\ l.misuse \subseteq Misuses
    BY DEF Lives
  <2>3. /\ m \subseteq Misuses /\ m \subseteq l.misuse \union {"end outside its run"}
        /\ l.run = r => m = l.misuse
    BY <2>2 DEF Misuses
  <2> HIDE DEF m, C
  <2>4. QED BY <2>1, <2>2, <2>3 DEF Lives
<1>2. /\ \A a \in Analysis : life'[a] = C(life[a]) \/ life'[a] = life[a]
      /\ AllDone(f) => \A a \in Analysis : life'[a] = C(life[a])
      /\ (\A a \in Analysis : C(life[a]) \in Lives) => InvLife'
  BY LoopOfCalls, Zenon
<1> HIDE DEF C
<1>3. \A a \in Analysis : life[a] \in Lives
  BY DEF InvLife
<1>4. ASSUME NEW a \in Analysis
      PROVE  /\ life'[a].inits = life[a].inits
             /\ (life'[a].run = life[a].run /\ life'[a].plots = life[a].plots) \/ (life'[a].run = NoRun /\ life'[a].plots = {})
             /\ life[a].run = r => life'[a].misuse = life[a].misuse
             /\ life'[a].misuse \subseteq life[a].misuse \union {"end outside its run"}
  <2>1. /\ C(life[a]).inits = life[a].inits
        /\ C(life[a]).run = NoRun /\ C(life[a]).plots = {}
        /\ life[a].run = r => C(life[a]).misuse = life[a].misuse
        /\ C(life[a]).misuse \subseteq life[a].misuse \union {"end outside its run"}
    BY <1>1, <1>3
  <2>2. life'[a] = C(life[a]) \/ life'[a] = life[a]
    BY <1>2
  <2>3. QED BY <2>1, <2>2
<1>5. InvLife'
  BY <1>1, <1>2, <1>3
<1>6. AllDone(f) => \A a \in Analysis : life'[a].run = NoRun
  <2>1. ASSUME AllDone(f), NEW a \in Analysis PROVE life'[a] = C(life[a]) /\ C(life[a]).run = NoRun
    BY <1>1, <1>2, <1>3, <2>1
  <2>2. QED BY <2>1
<1>7. QED BY <1>4, <1>5, <1>6

LEMMA UpdateCalls ==
  ASSUME InvLife, NEW r, NEW f \in 0 .. NAnalyses + 1, Calls("update", r, f)
  PROVE  /\ InvLife'
         /\ \A a \in Analysis : /\ life'[a].inits = life[a].inits
                                /\ life'[a].run = life[a].run
                                /\ life'[a].plots = life[a].plots
                                /\ life'[a].over = life[a].over
                                /\ life'[a].misuse = life[a].misuse
         /\ AllDone(f) => \A a \in Analysis : life'[a].drawn
<1> DEFINE C(l) == Called(l, "update", r)
<1>1. ASSUME NEW l \in Lives
      PROVE  /\ C(l) \in Lives
             /\ C(l).inits = l.inits
             /\ C(l).run = l.run
             /\ C(l).plots = l.plots
             /\ C(l).over = l.over
             /\ C(l).misuse = l.misuse
             /\ C(l).drawn
  <2>1. C(l) = [l EXCEPT !.drawn = TRUE]
    BY CalledFields
  <2>2. /\ l.inits \in Nat /\ l.run \in Runs \union {NoRun} /\ l.plots \subseteq Runs
        /\ l.drawn \in BOOLEAN /\ l.over \in BOOLEAN /\ l.misuse \subseteq Misuses
    BY DEF Lives
  <2> HIDE DEF C
  <2>3. QED BY <2>1, <2>2 DEF Lives
<1>2. /\ \A a \in Analysis : life'[a] = C(life[a]) \/ life'[a] = life[a]
      /\ AllDone(f) => \A a \in Analysis : life'[a] = C(life[a])
      /\ (\A a \in Analysis : C(life[a]) \in Lives) => InvLife'
  BY LoopOfCalls, Zenon
<1> HIDE DEF C
<1>3. \A a \in Analysis : life[a] \in Lives
  BY DEF InvLife
<1>4. ASSUME NEW a \in Analysis
      PROVE  /\ life'[a].inits = life[a].inits
             /\ life'[a].run = life[a].run
             /\ life'[a].plots = life[a].plots
             /\ life'[a].over = life[a].over
             /\ life'[a].misuse = life[a].misuse
  <2>1. /\ C(life[a]).inits = life[a].inits
        /\ C(life[a]).run = life[a].run
        /\ C(life[a]).plots = life[a].plots
        /\ C(life[a]).over = life[a].over
        /\ C(life[a]).misuse = life[a].misuse
        /\ C(life[a]).drawn
    BY <1>1, <1>3
  <2>2. life'[a] = C(life[a]) \/ life'[a] = life[a]
    BY <1>2
  <2>3. QED BY <2>1, <2>2
<1>5. InvLife'
  BY <1>1, <1>2, <1>3
<1>6. AllDone(f) => \A a \in Analysis : life'[a].drawn
  <2>1. ASSUME AllDone(f), NEW a \in Analysis PROVE life'[a] = C(life[a]) /\ C(life[a]).drawn
    BY <1>1, <1>2, <1>3, <2>1
  <2>2. QED BY <2>1
<1>7. QED BY <1>4, <1>5, <1>6

LEMMA FinalCalls ==
  ASSUME InvLife, NEW r, NEW f \in 0 .. NAnalyses + 1, Calls("final", r, f)
  PROVE  /\ InvLife'
         /\ \A a \in Analysis : /\ life'[a].inits = life[a].inits
                                /\ life'[a].run = life[a].run
                                /\ life'[a].plots = life[a].plots
                                /\ life[a].run = NoRun => life'[a].misuse = life[a].misuse
                                /\ life'[a].misuse \subseteq life[a].misuse \union {"finalised in a run"}
         /\ AllDone(f) => \A a \in Analysis : life'[a].over
<1> DEFINE C(l) == Called(l, "final", r)
<1>1. ASSUME NEW l \in Lives
      PROVE  /\ C(l) \in Lives
             /\ C(l).inits = l.inits
             /\ C(l).run = l.run
             /\ C(l).plots = l.plots
             /\ l.run = NoRun => C(l).misuse = l.misuse
             /\ C(l).misuse \subseteq l.misuse \union {"finalised in a run"}
             /\ C(l).over
  <2> DEFINE m == IF l.run # NoRun THEN l.misuse \union {"finalised in a run"} ELSE l.misuse
  <2>1. C(l) = [l EXCEPT !.over = TRUE, !.misuse = m]
    BY CalledFields
  <2>2. /\ l.inits \in Nat /\ l.run \in Runs \union {NoRun} /\ l.plots \subseteq Runs
        /\ l.drawn \in BOOLEAN /\ l.over \in BOOLEAN /\ l.misuse \subseteq Misuses
    BY DEF Lives
  <2>3. /\ m \subseteq Misuses /\ m \subseteq l.misuse \union {"finalised in a run"}
        /\ l.run = NoRun => m = l.misuse
    BY <2>2 DEF Misuses
  <2> HIDE DEF m, C
  <2>4. QED BY <2>1, <2>2, <2>3 DEF Lives
<1>2. /\ \A a \in Analysis : life'[a] = C(life[a]) \/ life'[a] = life[a]
      /\ AllDone(f) => \A a \in Analysis : life'[a] = C(life[a])
      /\ (\A a \in Analysis : C(life[a]) \in Lives) => InvLife'
  BY LoopOfCalls, Zenon
<1> HIDE DEF C
<1>3. \A a \in Analysis : life[a] \in Lives
  BY DEF InvLife
<1>4. ASSUME NEW a \in Analysis
      PROVE  /\ life'[a].inits = life[a].inits
             /\ life'[a].run = life[a].run
             /\ life'[a].plots = life[a].plots
             /\ life[a].run = NoRun => life'[a].misuse = life[a].misuse
             /\ life'[a].misuse \subseteq life[a].misuse \union {"finalised in a run"}
  <2>1. /\ C(life[a]).inits = life[a].inits
        /\ C(life[a]).run = life[a].run
        /\ C(life[a]).plots = life[a].plots
        /\ life[a].run = NoRun => C(life[a]).misuse = life[a].misuse
        /\ C(life[a]).misuse \subseteq life[a].misuse \union {"finalised in a run"}
        /\ C(life[a]).over
    BY <1>1, <1>3
  <2>2. life'[a] = C(life[a]) \/ life'[a] = life[a]
    BY <1>2
  <2>3. QED BY <2>1, <2>2
<1>5. InvLife'
  BY <1>1, <1>2, <1>3
<1>6. AllDone(f) => \A a \in Analysis : life'[a].over
  <2>1. ASSUME AllDone(f), NEW a \in Analysis PROVE life'[a] = C(life[a]) /\ C(life[a]).over
    BY <1>1, <1>2, <1>3, <2>1
  <2>2. QED BY <2>1
<1>7. QED BY <1>4, <1>5, <1>6

-----------------------------------------------------------------------------
(* Steps that call no analysis.                                            *)

\* What is known of the analyses stays so while none is called.
LEMMA LifeStays ==
  ASSUME IInv, UNCHANGED <<life, initialised, active_run, selected, shots, faults>>, ok' => ok,
         pc \notin DrawPlaces \union {"rt begin", "rt save", "done", "fin redraw", "fin save"},
         pc' \notin DrawPlaces \union {"rt begin", "rt save", "rt events", "fin final", "fin redraw", "fin save"},
         pc' = "done" => \A a \in Analysis : life[a].inits = 0 /\ ~ok'
  PROVE  InvLife' /\ InvRuns' /\ InvInit' /\ InvMisuse' /\ InvOver' /\ InvDrawn'
<1>1. (Orderly' => Orderly) /\ (Reliable' <=> Reliable)
  BY DEF Orderly, Reliable
<1>2. InvLife'
  BY DEF IInv, InvLife
<1>3. InvRuns'
  BY <1>1 DEF IInv, InvRuns, PlotsShowOneRun
<1>4. InvInit'
  BY <1>1 DEF IInv, InvInit
<1>5. InvMisuse'
  BY DEF IInv, InvMisuse, EventsBelongToRun, AnalysesUsedInOrder
<1>6. InvOver'
  <2>1. pc' = "done" => \A a \in Analysis : ~ok' /\ life[a].inits = 0
    OBVIOUS
  <2>2. pc' \notin {"fin redraw", "fin save"} /\ life' = life
    OBVIOUS
  <2>3. QED BY <2>1, <2>2 DEF InvOver
<1>7. InvDrawn'
  BY DEF IInv, InvDrawn, DrawPlaces, SnapshotsAreUpToDate
<1>8. QED BY <1>2, <1>3, <1>4, <1>5, <1>6, <1>7

\* Nothing but the environment moves.
LEMMA OutsideKeeps ==
  ASSUME IInv, UNCHANGED <<pc, loopVars, frames, given, seen, rootVars, realtimeVars, selected, life, shots>>,
         stop' \in BOOLEAN, asked' \in 0 .. MaxRequests, requests' \in Seq(Analysis \union {None})
  PROVE  IInv'
<1> USE DEF loopVars, given, rootVars, realtimeVars
<1>1. (Orderly' <=> Orderly) /\ (Reliable' <=> Reliable)
  BY DEF Orderly, Reliable
<1>2. InvPlace' /\ InvLife'
  BY DEF IInv, InvPlace, InvLife
<1>3. InvCount'
  BY DEF IInv, InvCount, TypeOK
<1>4. InvSeen'
  BY DEF IInv, InvSeen, SinksInStep, Owed
<1>5. InvRoot'
  BY DEF IInv, InvRoot
<1>6. InvRuns'
  BY <1>1 DEF IInv, InvRuns, PlotsShowOneRun
<1>7. InvInit'
  BY <1>1 DEF IInv, InvInit
<1>8. InvMisuse'
  BY DEF IInv, InvMisuse, EventsBelongToRun, AnalysesUsedInOrder
<1>9. InvOver'
  BY <1>1 DEF IInv, InvOver
<1>10. InvDrawn'
  BY DEF IInv, InvDrawn, SnapshotsAreUpToDate
<1>11. QED BY <1>2, <1>3, <1>4, <1>5, <1>6, <1>7, <1>8, <1>9, <1>10 DEF IInv

\* Run ends its loop, or fails: the first finaliser has its turn.
LEMMA ToFinalisers ==
  ASSUME IInv, pc' = FirstFinalise, UNCHANGED <<seen, frames>>, pc \in {"loop"} \union OnHand,
         root' = root \/ (root' = "open" /\ HasRoot),
         ok' = FALSE \/ (pc = "loop" /\ ok' = ok), life' = life \/ pc \in RtPlaces
  PROVE  /\ InvPlace' /\ InvSeen' /\ InvRoot'
         /\ pc' \in {"finalise text", "finalise root", "finalise realtime", "done"}
         /\ pc' = "done" => Analysis = {}
<1>1. /\ pc' = IF HasText THEN "finalise text" ELSE IF HasRoot THEN "finalise root"
               ELSE IF NAnalyses > 0 THEN "finalise realtime" ELSE "done"
  BY FinaliserPlaces
<1>2. pc' = "done" => Analysis = {}
  BY <1>1, PipelineAssumption DEF Analysis
<1>3. InvPlace'
  BY <1>1 DEF InvPlace, Finishing, BehindRoot, RtPlaces, OnHand, FinPlaces
<1>4. InvSeen'
  <2>1. ok' => ok /\ pc = "loop"
    OBVIOUS
  <2>2. \A i \in 1 .. 3 : ~Owed(i)' /\ (pc = "loop" => ~Owed(i))
    BY <1>1 DEF Owed, RtPlaces
  <2>3. QED BY <2>1, <2>2 DEF IInv, InvSeen, SinksInStep
<1>5. InvRoot'
  <2>1. pc \notin BehindRoot
    BY DEF BehindRoot, OnHand, RtPlaces, FinPlaces
  <2>2. pc \in RtPlaces => ~(HasRoot /\ root = "none")
    BY DEF IInv, InvRoot
  <2>3. pc' \in BehindRoot => ~HasRoot
    BY <1>1 DEF BehindRoot, FinPlaces
  <2>4. pc' \in RtPlaces \union FinPlaces \union {"finalise realtime"} => ~HasRoot
    BY <1>1 DEF FinPlaces, RtPlaces
  <2>5. root = "open" => HasRoot
    BY DEF IInv, InvRoot
  <2>6. HasRoot /\ root' = "none" => \A a \in Analysis : life'[a].inits = 0
    BY <2>2 DEF IInv, InvRoot
  <2>7. QED BY <2>3, <2>4, <2>5, <2>6 DEF InvRoot
<1>6. QED BY <1>1, <1>2, <1>3, <1>4, <1>5

\* Inside the realtime sink, and inside its end, the other sinks are not concerned.
LEMMA SinksStay ==
  ASSUME IInv, UNCHANGED <<seen, frames, root>>,
         \/ pc \in RtPlaces /\ pc' \in RtPlaces /\ ok' = ok
         \/ pc \in FinPlaces /\ pc' \in FinPlaces \union {"done"} /\ (ok' = ok \/ ok' = FALSE)
  PROVE  InvPlace' /\ InvSeen' /\ InvRoot'
<1>1. NAnalyses > 0
  BY DEF IInv, InvPlace
<1>2. ~(HasRoot /\ root = "none")
  BY DEF IInv, InvRoot
<1>3. InvPlace'
  <2>1. pc \in RtPlaces => ok
    BY DEF IInv, InvPlace, Finishing, BehindRoot, RtPlaces, FinPlaces
  <2>2. pc' \in RtPlaces \/ pc' \in FinPlaces \/ pc' = "done"
    OBVIOUS
  <2>3. pc' \notin {"text", "finalise text", "root", "finalise root"}
    BY <2>2 DEF RtPlaces, FinPlaces
  <2>4. pc' \in RtPlaces \/ pc' \in Finishing
    BY <2>2 DEF Finishing, BehindRoot
  <2>5. ~ok' => pc' \in Finishing
    <3>1. CASE pc \in RtPlaces /\ ok' = ok
      BY <2>1, <3>1
    <3>2. CASE pc' \in FinPlaces \union {"done"}
      BY <3>2 DEF Finishing, BehindRoot
    <3>3. QED BY <3>1, <3>2
  <2>6. QED BY <1>1, <2>3, <2>4, <2>5 DEF InvPlace, OnHand
<1>4. InvSeen'
  <2>1. \A i \in 1 .. 3 : Owed(i)' <=> Owed(i)
    BY DEF Owed, RtPlaces, FinPlaces
  <2>2. ok' => ok
    OBVIOUS
  <2>3. QED BY <2>1, <2>2 DEF IInv, InvSeen, SinksInStep
<1>5. InvRoot'
  <2>1. pc' \in BehindRoot => pc \in BehindRoot
    BY DEF BehindRoot, RtPlaces, FinPlaces
  <2>2. ok' => ok
    OBVIOUS
  <2>3. /\ root = "open" => HasRoot
        /\ pc \in BehindRoot => root # "open" /\ (ok /\ HasRoot => root = "closed")
    BY DEF IInv, InvRoot
  <2>4. pc' \in BehindRoot => root # "open" /\ (ok' /\ HasRoot => root = "closed")
    BY <2>1, <2>2, <2>3
  <2>5. root' = root
    OBVIOUS
  <2>6. QED BY <1>2, <2>3, <2>4, <2>5 DEF InvRoot
<1>6. QED BY <1>3, <1>4, <1>5

LEMMA CountStays ==
  ASSUME IInv, UNCHANGED <<idx, message, stop, frames, supply, faults, rootVars, asked>>,
         pc' \in OnHand => pc \in OnHand, ok' \in BOOLEAN, active_run' \in Runs \union {NoRun},
         initialised' \in BOOLEAN, finalised' \in BOOLEAN, selected' \in Analysis \union {None},
         requests' \in Seq(Analysis \union {None}), shots' \subseteq Analysis \X BOOLEAN \X BOOLEAN
  PROVE  InvCount'
<1>1. TypeOK'
  BY DEF IInv, InvCount, TypeOK, rootVars
<1>2. QED BY <1>1 DEF IInv, InvCount

-----------------------------------------------------------------------------
(* The loop of Run, the text and the ROOT sink.                            *)

LEMMA EndLoopKeeps == ASSUME IInv, EndLoop PROVE IInv'
<1>1. /\ pc = "loop" /\ pc' = FirstFinalise
      /\ UNCHANGED <<loopVars, env, seen, rootVars, realtimeVars, selection, life, shots>>
  BY DEF EndLoop, Goto
<1> USE DEF loopVars, env, given, rootVars, realtimeVars, selection
<1>2. /\ InvPlace' /\ InvSeen' /\ InvRoot'
      /\ pc' \in {"finalise text", "finalise root", "finalise realtime", "done"}
      /\ pc' = "done" => Analysis = {}
  BY <1>1, ToFinalisers
<1>3. InvCount'
  <2>1. pc' \notin OnHand
    BY <1>2 DEF OnHand, RtPlaces
  <2>2. QED BY <1>1, <2>1, CountStays DEF IInv, InvCount, TypeOK
<1>4. InvLife' /\ InvRuns' /\ InvInit' /\ InvMisuse' /\ InvOver' /\ InvDrawn'
  BY <1>1, <1>2, LifeStays DEF DrawPlaces
<1>5. QED BY <1>2, <1>3, <1>4 DEF IInv

LEMMA LoopFailsKeeps == ASSUME IInv, LoopFails PROVE IInv'
<1>1. /\ pc = "loop" /\ pc' = FirstFinalise /\ ok' = FALSE /\ UNCHANGED <<idx, message>>
      /\ UNCHANGED <<env, seen, rootVars, realtimeVars, selection, life, shots>>
  BY DEF LoopFails, BeginLoop, Quit, Fails
<1> USE DEF env, given, rootVars, realtimeVars, selection
<1>2. /\ InvPlace' /\ InvSeen' /\ InvRoot'
      /\ pc' \in {"finalise text", "finalise root", "finalise realtime", "done"}
      /\ pc' = "done" => Analysis = {}
  BY <1>1, ToFinalisers
<1>3. InvCount'
  <2>1. pc' \notin OnHand
    BY <1>2 DEF OnHand, RtPlaces
  <2>2. QED BY <1>1, <2>1, CountStays DEF IInv, InvCount, TypeOK
<1>4. InvLife' /\ InvRuns' /\ InvInit' /\ InvMisuse' /\ InvOver' /\ InvDrawn'
  BY <1>1, <1>2, LifeStays DEF DrawPlaces
<1>5. QED BY <1>2, <1>3, <1>4 DEF IInv

\* A number of messages taken, and that of a sink before it.
LEMMA Ahead ==
  ASSUME NEW n \in Nat, NEW x, NEW y, x = n \/ (x = n - 1 /\ y = n - 1), y = n \/ y = n - 1
  PROVE  x - y \in {0, 1}
OBVIOUS

LEMMA Next3 == 1 + 1 = 2 /\ 2 + 1 = 3 /\ 3 + 1 = 4
OBVIOUS

\* What sink i is to have taken; the sinks are then in step.
LEMMA Taken ==
  ASSUME seen' \in [1 .. 3 -> Nat], frames' \in Nat,
         \A i \in 1 .. 3 : Built(Sinks[i]) => seen'[i] = IF Owed(i)' THEN frames' - 1 ELSE frames'
  PROVE  InvSeen'
<1>1. \A i, j \in 1 .. 3 : i < j /\ Owed(i)' => Owed(j)'
  BY DEF Owed
<1>2. SinksInStep'
  <2>1. SUFFICES ASSUME NEW i \in 1 .. 3, NEW j \in 1 .. 3, Built(Sinks[i]), Built(Sinks[j]), i < j
                 PROVE  seen'[i] - seen'[j] \in {0, 1}
    BY DEF SinksInStep
  <2>2. /\ seen'[i] = IF Owed(i)' THEN frames' - 1 ELSE frames'
        /\ seen'[j] = IF Owed(j)' THEN frames' - 1 ELSE frames'
        /\ Owed(i)' => Owed(j)'
    BY <1>1, <2>1
  <2>3. /\ seen'[i] = frames' \/ (seen'[i] = frames' - 1 /\ seen'[j] = frames' - 1)
        /\ seen'[j] = frames' \/ seen'[j] = frames' - 1
    BY <2>2, Zenon
  <2>4. QED BY <2>3, Ahead
<1>3. QED BY <1>2 DEF InvSeen

LEMMA BuiltSinks ==
  /\ Built(Sinks[1]) <=> HasText
  /\ Built(Sinks[2]) <=> HasRoot
  /\ Built(Sinks[3]) <=> NAnalyses > 0
BY DEF Built, Sinks

LEMMA TakeFrameKeeps == ASSUME IInv, TakeFrame PROVE IInv'
<1>1. /\ pc = "loop" /\ MoreWanted /\ frames < supply
      /\ frames' = frames + 1 /\ message' \in Runs /\ pc' = NextSink(1, Sinks, "count")
      /\ UNCHANGED <<idx, ok, stop, given, seen, rootVars, realtimeVars, selection, life, shots>>
  BY DEF TakeFrame, BeginLoop
<1> USE DEF given, rootVars, realtimeVars, selection
<1>2. pc' = IF HasText THEN "text" ELSE IF HasRoot THEN "root"
            ELSE IF NAnalyses > 0 THEN "realtime" ELSE "count"
  BY <1>1, SinkPlaces
<1>3. /\ MaxEvents \in Nat /\ MaxFrames \in Nat
      /\ idx \in 0 .. frames /\ frames \in 0 .. MaxFrames /\ supply \in frames .. MaxFrames
  BY PipelineAssumption DEF IInv, InvCount, TypeOK
<1>4. ok
  BY <1>1 DEF IInv, InvPlace, Finishing, BehindRoot, FinPlaces
<1>5. InvPlace'
  BY <1>1, <1>2, <1>4 DEF InvPlace, OnHand, RtPlaces, FinPlaces
<1>6. InvCount'
  <2>1. /\ idx \in 0 .. frames' /\ idx < frames' /\ frames' \in 0 .. MaxFrames
        /\ supply \in frames' .. MaxFrames
    BY <1>1, <1>3
  <2>2. MaxEvents > 0 => idx < MaxEvents /\ idx <= MaxEvents
    BY <1>1, <1>3 DEF MoreWanted
  <2>3. TypeOK'
    BY <1>1, <2>1, <2>2 DEF IInv, InvCount, TypeOK
  <2>4. QED BY <1>1, <2>1, <2>2, <2>3 DEF InvCount
<1>7. InvSeen'
  <2>1. \A i \in 1 .. 3 : Built(Sinks[i]) => seen[i] = frames
    BY <1>1, <1>4 DEF IInv, InvSeen, Owed, RtPlaces
  <2>2. \A i \in 1 .. 3 : Built(Sinks[i]) => Owed(i)'
    BY <1>2, BuiltSinks DEF Owed, RtPlaces
  <2>3. seen \in [1 .. 3 -> Nat]
    BY DEF IInv, InvSeen
  <2>4. \A i \in 1 .. 3 : Built(Sinks[i]) => seen'[i] = IF Owed(i)' THEN frames' - 1 ELSE frames'
    BY <1>1, <1>3, <2>1, <2>2
  <2>5. frames' \in Nat /\ seen' \in [1 .. 3 -> Nat]
    BY <1>1, <1>3, <2>3
  <2>6. QED BY <2>4, <2>5, Taken
<1>8. InvRoot'
  <2>1. HasRoot => pc' \in {"text", "root"}
    BY <1>2
  <2>2. pc' \in {"text", "root"} => pc' \notin RtPlaces \union FinPlaces \union {"finalise realtime"}
    BY DEF RtPlaces, FinPlaces
  <2>3. pc' \notin BehindRoot
    BY <1>2 DEF BehindRoot, FinPlaces
  <2>4. QED BY <1>1, <2>1, <2>2, <2>3 DEF IInv, InvRoot
<1>9. InvLife' /\ InvRuns' /\ InvInit' /\ InvMisuse' /\ InvOver' /\ InvDrawn'
  BY <1>1, <1>2, LifeStays DEF DrawPlaces
<1>10. QED BY <1>5, <1>6, <1>7, <1>8, <1>9 DEF IInv

LEMMA CountKeeps == ASSUME IInv, Count PROVE IInv'
<1>1. /\ pc = "count" /\ pc' = "loop" /\ idx' = idx + 1
      /\ UNCHANGED <<message, ok, env, seen, rootVars, realtimeVars, selection, life, shots>>
  BY DEF Count, Goto
<1> USE DEF env, given, rootVars, realtimeVars, selection
<1>2. /\ MaxEvents \in Nat /\ idx \in 0 .. frames /\ frames \in 0 .. MaxFrames
      /\ idx < frames /\ (MaxEvents > 0 => idx < MaxEvents)
  BY <1>1, PipelineAssumption DEF IInv, InvCount, TypeOK, OnHand
<1>3. ok
  BY <1>1 DEF IInv, InvPlace, Finishing, BehindRoot, FinPlaces
<1>4. InvPlace'
  BY <1>1, <1>3 DEF InvPlace, RtPlaces, FinPlaces
<1>5. InvCount'
  <2>1. idx' \in 0 .. frames /\ (MaxEvents > 0 => idx' <= MaxEvents)
    BY <1>1, <1>2
  <2>2. TypeOK'
    BY <1>1, <2>1 DEF IInv, InvCount, TypeOK
  <2>3. QED BY <1>1, <2>2 DEF InvCount, OnHand, RtPlaces
<1>6. InvSeen'
  <2>1. \A i \in 1 .. 3 : ~Owed(i) /\ ~Owed(i)'
    BY <1>1 DEF Owed, RtPlaces
  <2>2. QED BY <1>1, <2>1 DEF IInv, InvSeen, SinksInStep
<1>7. InvRoot'
  BY <1>1 DEF IInv, InvRoot, RtPlaces, FinPlaces, BehindRoot
<1>8. InvLife' /\ InvRuns' /\ InvInit' /\ InvMisuse' /\ InvOver' /\ InvDrawn'
  BY <1>1, LifeStays DEF DrawPlaces
<1>9. QED BY <1>4, <1>5, <1>6, <1>7, <1>8 DEF IInv

TakingAt(k) == CASE k = 1 -> "text" [] k = 2 -> "root" [] k = 3 -> "rt end"

LEMMA TakingPlaces == TakingAt(1) = "text" /\ TakingAt(2) = "root" /\ TakingAt(3) = "rt end"
BY DEF TakingAt

\* A sink that has taken the message leaves it to the sinks behind it.
LEMMA TakesKeeps ==
  ASSUME IInv, NEW k \in 1 .. 3, Takes(k),
         pc = TakingAt(k),
         UNCHANGED <<frames, life>>, root' = IF k = 2 THEN "open" ELSE root
  PROVE  /\ InvPlace' /\ InvSeen' /\ InvRoot' /\ ok
         /\ pc' \in {"root", "realtime", "count"}
<1>1. /\ seen' = [seen EXCEPT ![k] = seen[k] + 1]
      /\ pc' = NextSink(k + 1, Sinks, "count") /\ UNCHANGED <<idx, message, ok>>
  BY DEF Takes, loopVars
<1>2. /\ k = 1 \/ k = 2 \/ k = 3
      /\ k = 1 => pc = "text"
      /\ k = 2 => pc = "root"
      /\ k = 3 => pc = "rt end"
  <2>1. k = 1 \/ k = 2 \/ k = 3
    OBVIOUS
  <2>2. QED BY <2>1, TakingPlaces, Zenon
<1>3. /\ k = 1 => pc' = IF HasRoot THEN "root" ELSE IF NAnalyses > 0 THEN "realtime" ELSE "count"
      /\ k = 2 => pc' = IF NAnalyses > 0 THEN "realtime" ELSE "count"
      /\ k = 3 => pc' = "count"
  <2>1. (k = 1 => k + 1 = 2) /\ (k = 2 => k + 1 = 3) /\ (k = 3 => k + 1 = 4)
    BY Next3, Zenon
  <2>2. QED BY <1>1, <2>1, SinkPlaces
<1>4. pc' \in {"root", "realtime", "count"}
  BY <1>2, <1>3
<1>5. ok
  BY <1>2 DEF IInv, InvPlace, Finishing, BehindRoot, FinPlaces
<1>6. InvPlace'
  BY <1>1, <1>2, <1>3, <1>5 DEF InvPlace, OnHand, RtPlaces, FinPlaces
<1>7. InvSeen'
  <2>1. /\ \A i \in 1 .. 3 : Built(Sinks[i]) => seen[i] = IF Owed(i) THEN frames - 1 ELSE frames
        /\ seen \in [1 .. 3 -> Nat] /\ frames \in Nat
    <3>1. frames \in 0 .. MaxFrames /\ MaxFrames \in Nat
      BY PipelineAssumption DEF IInv, InvCount, TypeOK
    <3>2. frames \in Nat
      BY <3>1
    <3>3. QED BY <1>5, <3>2, Zenon DEF IInv, InvSeen
  <2>2. /\ Owed(k) /\ ~Owed(k)'
        /\ \A i \in 1 .. 3 : Built(Sinks[i]) /\ i # k => (Owed(i)' <=> Owed(i))
    <3>1. CASE k = 1
      <4>1. pc = "text" /\ pc' = IF HasRoot THEN "root" ELSE IF NAnalyses > 0 THEN "realtime" ELSE "count"
        BY <1>2, <1>3, <3>1
      <4>2. ASSUME NEW i \in 1 .. 3, Built(Sinks[i]), i # k PROVE Owed(i)' /\ Owed(i)
        <5>1. i = 2 \/ i = 3
          BY <3>1, <4>2
        <5>2. CASE i = 2
          <6>1. pc' = "root"
            BY <4>1, <4>2, <5>2, BuiltSinks
          <6>2. QED BY <4>1, <5>2, <6>1 DEF Owed
        <5>3. CASE i = 3
          <6>1. pc' = "root" \/ pc' = "realtime"
            BY <4>1, <4>2, <5>3, BuiltSinks
          <6>2. QED BY <4>1, <5>3, <6>1 DEF Owed, RtPlaces
        <5>4. QED BY <5>1, <5>2, <5>3
      <4>3. Owed(k) /\ ~Owed(k)'
        BY <3>1, <4>1 DEF Owed, RtPlaces
      <4>4. QED BY <4>2, <4>3
    <3>2. CASE k = 2
      <4>1. pc = "root" /\ pc' = IF NAnalyses > 0 THEN "realtime" ELSE "count"
        BY <1>2, <1>3, <3>2
      <4>2. Owed(k) /\ ~Owed(k)'
        BY <3>2, <4>1 DEF Owed, RtPlaces
      <4>3. ~Owed(1) /\ ~Owed(1)' /\ Owed(3)
        BY <4>1 DEF Owed, RtPlaces
      <4>4. Built(Sinks[3]) => Owed(3)'
        BY <4>1, BuiltSinks DEF Owed, RtPlaces
      <4>5. \A i \in 1 .. 3 : i # k => i = 1 \/ i = 3
        BY <3>2
      <4>6. QED BY <4>2, <4>3, <4>4, <4>5, Zenon
    <3>3. CASE k = 3
      <4>1. pc = "rt end" /\ pc' = "count"
        BY <1>2, <1>3, <3>3
      <4>2. QED BY <3>3, <4>1 DEF Owed, RtPlaces
    <3>4. QED BY <1>2, <3>1, <3>2, <3>3
  <2>3. ASSUME NEW i \in 1 .. 3, Built(Sinks[i])
        PROVE  seen'[i] = IF Owed(i)' THEN frames' - 1 ELSE frames'
    <3>1. CASE i = k
      BY <1>1, <2>1, <2>2, <2>3, <3>1
    <3>2. CASE i # k
      BY <1>1, <2>1, <2>2, <2>3, <3>2
    <3>3. QED BY <3>1, <3>2
  <2>4. seen' \in [1 .. 3 -> Nat] /\ frames' \in Nat
    BY <1>1, <2>1
  <2>5. QED BY <2>3, <2>4, Taken
<1>8. InvRoot'
  <2>1. pc' \notin BehindRoot
    BY <1>4 DEF BehindRoot, FinPlaces
  <2>2. root' = "open" => HasRoot
    BY <1>2 DEF IInv, InvRoot, InvPlace
  <2>3. HasRoot /\ root' = "none" => pc' \in {"root", "count"} /\ \A a \in Analysis : life[a].inits = 0
    BY <1>2, <1>3 DEF IInv, InvRoot, RtPlaces
  <2>4. QED BY <2>1, <2>2, <2>3 DEF InvRoot, RtPlaces, FinPlaces
<1>9. QED BY <1>4, <1>5, <1>6, <1>7, <1>8

LEMMA TextKeeps == ASSUME IInv, Text PROVE IInv'
<1>1. pc = "text" /\ UNCHANGED <<env, rootVars, realtimeVars, selection, life, shots>>
  BY DEF Text
<1> USE DEF env, given, rootVars, realtimeVars, selection
<1>2. CASE Takes(1)
  <2>1. UNCHANGED <<idx, message, ok>>
    BY <1>2 DEF Takes, loopVars
  <2>2. /\ InvPlace' /\ InvSeen' /\ InvRoot' /\ ok
        /\ pc' \in {"root", "realtime", "count"}
    <3>1. 1 \in 1 .. 3 /\ 1 # 2
      OBVIOUS
    <3>2. pc = TakingAt(1) /\ root' = root /\ UNCHANGED <<frames, life>>
      BY <1>1, TakingPlaces
    <3>3. root' = IF 1 = 2 THEN "open" ELSE root
      BY <3>1, <3>2, Zenon
    <3>4. QED BY <1>2, <3>1, <3>2, <3>3, TakesKeeps, Zenon
  <2>3. InvCount'
    BY <1>1, <2>1, CountStays DEF IInv, InvCount, TypeOK, OnHand
  <2>4. InvLife' /\ InvRuns' /\ InvInit' /\ InvMisuse' /\ InvOver' /\ InvDrawn'
    BY <1>1, <2>1, <2>2, LifeStays DEF DrawPlaces
  <2>5. QED BY <2>2, <2>3, <2>4 DEF IInv
<1>3. CASE Quit /\ UNCHANGED seen
  <2>1. pc' = FirstFinalise /\ ok' = FALSE /\ UNCHANGED <<idx, message>>
    BY <1>3 DEF Quit, Fails
  <2>2. /\ InvPlace' /\ InvSeen' /\ InvRoot'
        /\ pc' \in {"finalise text", "finalise root", "finalise realtime", "done"}
        /\ pc' = "done" => Analysis = {}
    BY <1>1, <1>3, <2>1, ToFinalisers DEF OnHand
  <2>3. InvCount'
    BY <1>1, <2>1, CountStays DEF IInv, InvCount, TypeOK, OnHand
  <2>4. InvLife' /\ InvRuns' /\ InvInit' /\ InvMisuse' /\ InvOver' /\ InvDrawn'
    BY <1>1, <2>1, <2>2, LifeStays DEF DrawPlaces
  <2>5. QED BY <2>2, <2>3, <2>4 DEF IInv
<1>4. QED BY <1>2, <1>3 DEF Text

LEMMA RootFileKeeps == ASSUME IInv, RootFile PROVE IInv'
<1>1. pc = "root" /\ UNCHANGED <<env, root_finalised, realtimeVars, selection, life, shots>>
  BY DEF RootFile
<1> USE DEF env, given, realtimeVars, selection
<1>2. HasRoot
  BY <1>1 DEF IInv, InvPlace
<1>3. root' \in {"open", root} /\ UNCHANGED <<idx, message>> /\ (ok' = ok \/ ok' = FALSE)
  BY DEF RootFile, Takes, Quit, Fails, loopVars
<1>4. InvCount'
  <2>1. TypeOK'
    BY <1>1, <1>3 DEF IInv, InvCount, TypeOK
  <2>2. QED BY <1>1, <1>3, <2>1 DEF IInv, InvCount, OnHand
<1>5. CASE root' = "open" /\ Takes(2)
  <2>1. UNCHANGED <<idx, message, ok>>
    BY <1>5 DEF Takes, loopVars
  <2>2. /\ InvPlace' /\ InvSeen' /\ InvRoot' /\ ok
        /\ pc' \in {"root", "realtime", "count"}
    <3>1. 2 \in 1 .. 3
      OBVIOUS
    <3>2. pc = TakingAt(2) /\ root' = "open" /\ UNCHANGED <<frames, life>>
      BY <1>1, <1>5, TakingPlaces
    <3>3. root' = IF 2 = 2 THEN "open" ELSE root
      BY <3>2, Zenon
    <3>4. QED BY <1>5, <3>1, <3>2, <3>3, TakesKeeps, Zenon
  <2>3. InvLife' /\ InvRuns' /\ InvInit' /\ InvMisuse' /\ InvOver' /\ InvDrawn'
    BY <1>1, <2>1, <2>2, LifeStays DEF DrawPlaces
  <2>4. QED BY <1>4, <2>2, <2>3 DEF IInv
<1>6. CASE Quit /\ UNCHANGED seen
  <2>1. pc' = FirstFinalise /\ ok' = FALSE
    BY <1>6 DEF Quit, Fails
  <2>2. /\ InvPlace' /\ InvSeen' /\ InvRoot'
        /\ pc' \in {"finalise text", "finalise root", "finalise realtime", "done"}
        /\ pc' = "done" => Analysis = {}
    BY <1>1, <1>2, <1>3, <1>6, <2>1, ToFinalisers DEF OnHand
  <2>3. InvLife' /\ InvRuns' /\ InvInit' /\ InvMisuse' /\ InvOver' /\ InvDrawn'
    BY <1>1, <2>1, <2>2, LifeStays DEF DrawPlaces
  <2>4. QED BY <1>4, <2>2, <2>3 DEF IInv
<1>7. QED BY <1>5, <1>6 DEF RootFile

LEMMA RtEndKeeps == ASSUME IInv, RtEnd PROVE IInv'
<1>1. pc = "rt end" /\ Takes(3) /\ UNCHANGED <<env, rootVars, realtimeVars, selection, life, shots>>
  BY DEF RtEnd
<1> USE DEF env, given, rootVars, realtimeVars, selection
<1>2. UNCHANGED <<idx, message, ok>>
  BY <1>1 DEF Takes, loopVars
<1>3. /\ InvPlace' /\ InvSeen' /\ InvRoot' /\ ok
      /\ pc' \in {"root", "realtime", "count"}
  <2>1. 3 \in 1 .. 3 /\ 3 # 2
    OBVIOUS
  <2>2. pc = TakingAt(3) /\ root' = root /\ UNCHANGED <<frames, life>>
    BY <1>1, TakingPlaces
  <2>3. root' = IF 3 = 2 THEN "open" ELSE root
    BY <2>1, <2>2, Zenon
  <2>4. QED BY <1>1, <2>1, <2>2, <2>3, TakesKeeps, Zenon
<1>4. InvCount'
  BY <1>1, <1>2, CountStays DEF IInv, InvCount, TypeOK, OnHand, RtPlaces
<1>5. InvLife' /\ InvRuns' /\ InvInit' /\ InvMisuse' /\ InvOver' /\ InvDrawn'
  BY <1>1, <1>2, <1>3, LifeStays DEF DrawPlaces
<1>6. QED BY <1>3, <1>4, <1>5 DEF IInv

-----------------------------------------------------------------------------
(* The sinks are finalised.                                                *)

LEMMA FinaliseTextKeeps == ASSUME IInv, FinaliseText PROVE IInv'
<1>1. /\ pc = "finalise text" /\ pc' = NextSink(2, Finalisers, "done")
      /\ UNCHANGED <<loopVars, env, seen, rootVars, realtimeVars, selection, life, shots>>
  BY DEF FinaliseText, Goto
<1> USE DEF loopVars, env, given, rootVars, realtimeVars, selection
<1>2. pc' = IF HasRoot THEN "finalise root" ELSE IF NAnalyses > 0 THEN "finalise realtime" ELSE "done"
  BY <1>1, FinaliserPlaces
<1>3. InvPlace'
  BY <1>1, <1>2 DEF InvPlace, OnHand, RtPlaces, FinPlaces, Finishing, BehindRoot
<1>4. InvCount'
  BY <1>1, <1>2, CountStays DEF IInv, InvCount, TypeOK, OnHand, RtPlaces
<1>5. InvSeen'
  <2>1. \A i \in 1 .. 3 : ~Owed(i) /\ ~Owed(i)'
    BY <1>1, <1>2 DEF Owed, RtPlaces
  <2>2. QED BY <1>1, <2>1 DEF IInv, InvSeen, SinksInStep
<1>6. InvRoot'
  <2>1. HasRoot => pc' = "finalise root"
    BY <1>2
  <2>2. pc' = "finalise root" => pc' \notin BehindRoot \union RtPlaces \union FinPlaces \union {"finalise realtime"}
    BY DEF BehindRoot, RtPlaces, FinPlaces
  <2>3. QED BY <1>1, <2>1, <2>2 DEF IInv, InvRoot
<1>7. pc' = "done" => Analysis = {}
  BY <1>2, PipelineAssumption DEF Analysis
<1>8. InvLife' /\ InvRuns' /\ InvInit' /\ InvMisuse' /\ InvOver' /\ InvDrawn'
  BY <1>1, <1>2, <1>7, LifeStays DEF DrawPlaces
<1>9. QED BY <1>3, <1>4, <1>5, <1>6, <1>8 DEF IInv

LEMMA FinaliseRootKeeps == ASSUME IInv, FinaliseRoot PROVE IInv'
<1>1. /\ pc = "finalise root" /\ root_finalised' = TRUE
      /\ UNCHANGED <<idx, message, env, seen, realtimeVars, selection, life, shots>>
      /\ \/ root' = "closed" /\ pc' = NextSink(3, Finalisers, "done") /\ ok' = ok
         \/ root = "none" /\ pc' = "done" /\ ok' = FALSE /\ root' = root
  BY DEF FinaliseRoot, Fails
<1> USE DEF env, given, realtimeVars, selection
<1>2. HasRoot
  BY <1>1 DEF IInv, InvPlace
<1>3. pc' \in {"finalise realtime", "done"} /\ (pc' = "finalise realtime" => NAnalyses > 0)
  BY <1>1, FinaliserPlaces
<1>4. InvPlace'
  BY <1>1, <1>3 DEF InvPlace, OnHand, RtPlaces, FinPlaces, Finishing, BehindRoot
<1>5. InvCount'
  <2>1. TypeOK'
    BY <1>1 DEF IInv, InvCount, TypeOK
  <2>2. QED BY <1>1, <1>3, <2>1 DEF InvCount, OnHand, RtPlaces
<1>6. InvSeen'
  <2>1. \A i \in 1 .. 3 : ~Owed(i) /\ ~Owed(i)'
    BY <1>1, <1>3 DEF Owed, RtPlaces
  <2>2. ok' => ok
    BY <1>1
  <2>3. QED BY <1>1, <2>1, <2>2 DEF IInv, InvSeen, SinksInStep
<1>7. InvRoot'
  <2>1. root' = "none" => pc' = "done" /\ \A a \in Analysis : life[a].inits = 0
    BY <1>1, <1>2 DEF IInv, InvRoot
  <2>2. root' # "open" /\ (ok' => root' = "closed")
    BY <1>1
  <2>3. QED BY <1>1, <2>1, <2>2 DEF InvRoot, RtPlaces, FinPlaces
<1>8. pc' = "done" => \A a \in Analysis : life[a].inits = 0 /\ ~ok'
  <2>1. CASE root' = "closed" /\ pc' = NextSink(3, Finalisers, "done")
    <3>1. pc' = "done" => Analysis = {}
      <4>1. pc' = "done" => ~(NAnalyses > 0)
        BY <2>1, FinaliserPlaces
      <4>2. NAnalyses \in Nat
        BY PipelineAssumption
      <4>3. QED BY <4>1, <4>2 DEF Analysis
    <3>2. QED BY <3>1
  <2>2. CASE root = "none" /\ ok' = FALSE
    BY <1>2, <2>2 DEF IInv, InvRoot
  <2>3. QED BY <1>1, <2>1, <2>2
<1>9. InvLife' /\ InvRuns' /\ InvInit' /\ InvMisuse' /\ InvOver' /\ InvDrawn'
  <2>1. ok' => ok
    BY <1>1
  <2>2. QED BY <1>1, <1>3, <1>8, <2>1, LifeStays DEF DrawPlaces
<1>10. QED BY <1>4, <1>5, <1>6, <1>7, <1>9 DEF IInv

LEMMA FinaliseRealtimeKeeps == ASSUME IInv, FinaliseRealtime PROVE IInv'
<1>1. /\ pc = "finalise realtime" /\ pc' \in {"fin end", "fin init"} /\ finalised' = TRUE
      /\ UNCHANGED <<loopVars, env, seen, rootVars, initialised, active_run, selection, life, shots>>
  BY DEF FinaliseRealtime, Goto
<1> USE DEF loopVars, env, given, rootVars, selection
<1>2. InvPlace'
  BY <1>1 DEF IInv, InvPlace, OnHand, RtPlaces, FinPlaces, Finishing, BehindRoot
<1>3. InvCount'
  BY <1>1, CountStays DEF IInv, InvCount, TypeOK, OnHand, RtPlaces
<1>4. InvSeen'
  <2>1. \A i \in 1 .. 3 : ~Owed(i) /\ ~Owed(i)'
    BY <1>1 DEF Owed, RtPlaces
  <2>2. QED BY <1>1, <2>1 DEF IInv, InvSeen, SinksInStep
<1>5. InvRoot'
  BY <1>1 DEF IInv, InvRoot, BehindRoot, RtPlaces, FinPlaces
<1>6. InvLife' /\ InvRuns' /\ InvInit' /\ InvMisuse' /\ InvOver' /\ InvDrawn'
  BY <1>1, LifeStays DEF DrawPlaces
<1>7. QED BY <1>2, <1>3, <1>4, <1>5, <1>6 DEF IInv

-----------------------------------------------------------------------------
(* Steps inside the realtime sink.                                         *)

\* What every step of the realtime sink leaves of the rest: it stays in the sink,
\* or Run fails.
LEMMA RtStep ==
  ASSUME IInv, pc \in RtPlaces, (pc' \in RtPlaces /\ ok' = ok) \/ (pc' = FirstFinalise /\ ok' = FALSE),
         UNCHANGED <<idx, message, env, seen, rootVars, finalised, asked>>,
         active_run' \in Runs \union {NoRun}, initialised' \in BOOLEAN,
         selected' \in Analysis \union {None}, requests' \in Seq(Analysis \union {None}),
         shots' \subseteq Analysis \X BOOLEAN \X BOOLEAN
  PROVE  /\ InvPlace' /\ InvCount' /\ InvSeen' /\ InvRoot' /\ ok /\ Orderly
         /\ pc' \in RtPlaces \union {"finalise text", "finalise root", "finalise realtime", "done"}
<1> USE DEF env, given, rootVars
<1>1. ok
  BY DEF IInv, InvPlace, Finishing, BehindRoot, RtPlaces, FinPlaces
<1>2. pc \in OnHand
  BY DEF OnHand
<1>3. InvCount'
  <2>1. ok' \in BOOLEAN /\ finalised' \in BOOLEAN
    BY DEF IInv, InvCount, TypeOK
  <2>2. QED BY <1>2, <2>1, CountStays
<1>4. CASE pc' \in RtPlaces /\ ok' = ok
  BY <1>1, <1>3, <1>4, SinksStay DEF Orderly
<1>5. CASE pc' = FirstFinalise /\ ok' = FALSE
  BY <1>1, <1>2, <1>3, <1>5, ToFinalisers DEF Orderly
<1>6. QED BY <1>4, <1>5

\* The same of its end.
LEMMA FinStep ==
  ASSUME IInv, pc \in FinPlaces, (pc' \in FinPlaces /\ ok' = ok) \/ (pc' = "done" /\ (ok' = ok \/ ok' = FALSE)),
         UNCHANGED <<idx, message, env, seen, rootVars, finalised, asked>>,
         active_run' \in Runs \union {NoRun}, initialised' \in BOOLEAN,
         selected' \in Analysis \union {None}, requests' \in Seq(Analysis \union {None}),
         shots' \subseteq Analysis \X BOOLEAN \X BOOLEAN
  PROVE  InvPlace' /\ InvCount' /\ InvSeen' /\ InvRoot'
<1> USE DEF env, given, rootVars
<1>1. InvCount'
  <2>1. ok' \in BOOLEAN /\ finalised' \in BOOLEAN
    BY DEF IInv, InvCount, TypeOK
  <2>2. pc' \notin OnHand
    BY DEF OnHand, RtPlaces, FinPlaces
  <2>3. QED BY <2>1, <2>2, CountStays
<1>2. QED BY <1>1, SinksStay

LEMMA LastOf == ASSUME NEW S, NEW q \in Seq(S), q # <<>> PROVE q[Len(q)] \in S
OBVIOUS

\* The poll of the selection endpoint.
LEMMA PollTypes ==
  ASSUME IInv, Poll
  PROVE  /\ selected' \in Analysis \union {None} /\ requests' \in Seq(Analysis \union {None})
         /\ asked' = asked
<1>1. selected \in Analysis \union {None} /\ requests \in Seq(Analysis \union {None})
  BY DEF IInv, InvCount, TypeOK
<1>2. requests' = <<>> /\ asked' = asked
  BY DEF Poll
<1>3. selected' = IF requests = <<>> THEN selected ELSE requests[Len(requests)]
  BY DEF Poll
<1>4. requests # <<>> => requests[Len(requests)] \in Analysis \union {None}
  BY <1>1, LastOf
<1>5. <<>> \in Seq(Analysis \union {None})
  OBVIOUS
<1>6. QED BY <1>1, <1>2, <1>3, <1>4, <1>5, Zenon

\* A snapshot is drawn, or of an analysis that was not selected when it was due.
LEMMA SavedTypes ==
  ASSUME IInv, SaveSnapshots, \A a \in Analysis : life[a].drawn \/ a # selected
  PROVE  /\ selected' \in Analysis \union {None} /\ requests' \in Seq(Analysis \union {None})
         /\ asked' = asked /\ shots' \subseteq Analysis \X BOOLEAN \X BOOLEAN
         /\ SnapshotsAreUpToDate'
<1>1. /\ selected \in Analysis \union {None} /\ requests \in Seq(Analysis \union {None})
      /\ shots \subseteq Analysis \X BOOLEAN \X BOOLEAN
  BY DEF IInv, InvCount, TypeOK
<1>2. \A s \in shots : s[2] \/ s[3]
  BY DEF IInv, InvDrawn, SnapshotsAreUpToDate
<1>3. CASE ~Snapshots
  BY <1>1, <1>2, <1>3 DEF SaveSnapshots, selection, SnapshotsAreUpToDate
<1>4. CASE Snapshots
  <2>1. Poll /\ shots' = IF selected' = None THEN shots
                         ELSE shots \union {<<selected', life[selected'].drawn, selected' # selected>>}
    BY <1>4 DEF SaveSnapshots
  <2>2. /\ selected' \in Analysis \union {None} /\ requests' \in Seq(Analysis \union {None})
        /\ asked' = asked
    BY <2>1, PollTypes
  <2>3. CASE selected' = None
    BY <1>1, <1>2, <2>1, <2>2, <2>3 DEF SnapshotsAreUpToDate
  <2>4. CASE selected' # None
    <3> DEFINE d == life[selected'].drawn
               e == selected' # selected
               s == <<selected', d, e>>
    <3>1. selected' \in Analysis /\ e \in BOOLEAN
      BY <2>2, <2>4
    <3>2. d \in BOOLEAN
      BY <3>1 DEF IInv, InvLife, Lives
    <3>3. d \/ e
      BY <3>1
    <3>4. shots' = shots \union {s}
      BY <2>1, <2>4
    <3> HIDE DEF d, e
    <3>5. s \in Analysis \X BOOLEAN \X BOOLEAN /\ (s[2] \/ s[3])
      BY <3>1, <3>2, <3>3
    <3> HIDE DEF s
    <3>6. /\ shots' \subseteq Analysis \X BOOLEAN \X BOOLEAN
          /\ \A t \in shots' : t[2] \/ t[3]
      BY <1>1, <1>2, <3>4, <3>5
    <3>7. QED BY <2>2, <3>6 DEF SnapshotsAreUpToDate
  <2>5. QED BY <2>3, <2>4
<1>5. QED BY <1>3, <1>4

-----------------------------------------------------------------------------
(* What the loops of calls leave of what is known of the analyses.         *)

LEMMA InnerEnds ==
  ASSUME NEW op \in InnerFaults, NEW f \in Ends(op)
  PROVE  f \in 0 .. NAnalyses + 1 /\ (~AllDone(f) => ~Reliable)
<1>1. f \in 1 .. NAnalyses + 1 /\ (~AllDone(f) => op \in faults)
  BY EndsOf, Zenon
<1>2. op \in faults => ~Reliable
  BY DEF Reliable
<1>3. NAnalyses \in Nat
  BY PipelineAssumption
<1>4. f \in 0 .. NAnalyses + 1
  BY <1>1, <1>3
<1>5. QED BY <1>1, <1>2, <1>4

LEMMA InitEnds ==
  ASSUME NEW f \in Ends("init") \union {0}
  PROVE  f \in 0 .. NAnalyses + 1 /\ (~AllDone(f) /\ Reliable => f = 0)
<1>1. 0 \in 0 .. NAnalyses + 1
  BY PipelineAssumption
<1>2. "init" \in InnerFaults
  BY DEF InnerFaults
<1>3. QED BY <1>1, <1>2, InnerEnds, Zenon

LEMMA InitLife ==
  ASSUME IInv, pc \in {"realtime", "fin init"}, ~initialised,
         UNCHANGED <<message, initialised, active_run, selected, shots, faults>>,
         NEW f \in Ends("init") \union {0}, Calls("init", NoRun, f),
         IF AllDone(f) THEN pc' \in {"rt draw", "fin draw"} /\ ok' = ok
         ELSE pc' \in {"finalise text", "finalise root", "finalise realtime", "done"} /\ ok' = FALSE
  PROVE  InvLife' /\ InvRuns' /\ InvInit' /\ InvMisuse' /\ InvOver' /\ InvDrawn'
<1>1. (Orderly' => Orderly) /\ (Reliable' <=> Reliable)
  BY DEF Orderly, Reliable
<1>2. /\ f \in 0 .. NAnalyses + 1
      /\ ~AllDone(f) /\ Reliable => f = 0
  BY InitEnds
<1>3. InvLife
  BY DEF IInv
<1>4. /\ InvLife'
      /\ \A a \in Analysis : /\ life'[a].run = life[a].run
                             /\ life'[a].plots \subseteq life[a].plots
                             /\ life[a].inits = 0 => life'[a].misuse = life[a].misuse
                             /\ life'[a].misuse \subseteq life[a].misuse \union {"initialised twice"}
      /\ AllDone(f) => \A a \in Analysis : life'[a].inits # 0
  BY <1>2, <1>3, InitCalls, Zenon
<1>5. f = 0 => life' = life
  BY <1>2, <1>3, LoopOfCalls, Zenon
<1>6. Reliable => \A a \in Analysis : life[a].inits = 0
  BY DEF IInv, InvInit, DrawPlaces
<1>7. /\ pc' \notin {"rt begin", "rt events", "rt shot", "rt save",
                     "fin shot", "fin final", "fin redraw", "fin save"}
      /\ pc' \in DrawPlaces <=> AllDone(f)
      /\ pc' = "done" => ~ok' /\ ~AllDone(f)
  BY DEF DrawPlaces
<1>8. InvRuns'
  <2>1. PlotsShowOneRun'
    BY <1>4 DEF IInv, InvRuns, PlotsShowOneRun
  <2>2. Orderly => \A a \in Analysis : life[a].run = active_run
    BY DEF IInv, InvRuns
  <2>3. QED BY <1>1, <1>4, <1>7, <2>1, <2>2 DEF InvRuns
<1>9. InvInit'
  <2>1. Reliable /\ ~AllDone(f) => \A a \in Analysis : life'[a].inits = 0
    BY <1>2, <1>5, <1>6
  <2>2. QED BY <1>1, <1>4, <1>7, <2>1 DEF InvInit
<1>10. InvMisuse'
  <2>1. Reliable => \A a \in Analysis : life'[a].misuse = {}
    BY <1>4, <1>6 DEF IInv, InvMisuse, AnalysesUsedInOrder, Reliable
  <2>2. EventsBelongToRun'
    BY <1>4 DEF IInv, InvMisuse, EventsBelongToRun
  <2>3. QED BY <1>1, <2>1, <2>2 DEF InvMisuse, AnalysesUsedInOrder, Reliable
<1>11. InvOver'
  <2>1. pc' = "done" /\ Reliable => \A a \in Analysis : life'[a].inits = 0
    BY <1>2, <1>5, <1>6, <1>7
  <2>2. QED BY <1>1, <1>7, <2>1 DEF InvOver
<1>12. InvDrawn'
  BY <1>7 DEF IInv, InvDrawn, SnapshotsAreUpToDate
<1>13. QED BY <1>4, <1>8, <1>9, <1>10, <1>11, <1>12

LEMMA DrawLife ==
  ASSUME IInv, pc \in {"rt draw", "fin draw", "fin redraw"},
         UNCHANGED <<message, initialised, active_run, selected, shots, faults>>,
         NEW f \in Ends("update"), RedrawAll(f),
         IF AllDone(f)
         THEN pc' = (IF pc = "rt draw" THEN "rt shot" ELSE IF pc = "fin draw" THEN "fin shot" ELSE "fin save") /\ ok' = ok
         ELSE pc' \in {"finalise text", "finalise root", "finalise realtime", "done"} /\ ok' = FALSE
  PROVE  InvLife' /\ InvRuns' /\ InvInit' /\ InvMisuse' /\ InvOver' /\ InvDrawn'
<1>1. (Orderly' => Orderly) /\ (Reliable' <=> Reliable)
  BY DEF Orderly, Reliable
<1>2. /\ f \in 0 .. NAnalyses + 1
      /\ ~AllDone(f) => ~Reliable
  BY InnerEnds, Zenon DEF InnerFaults
<1>3. InvLife /\ Calls("update", NoRun, f)
  BY DEF IInv, RedrawAll
<1>4. /\ InvLife'
      /\ \A a \in Analysis : /\ life'[a].inits = life[a].inits
                             /\ life'[a].run = life[a].run
                             /\ life'[a].plots = life[a].plots
                             /\ life'[a].over = life[a].over
                             /\ life'[a].misuse = life[a].misuse
      /\ AllDone(f) => \A a \in Analysis : life'[a].drawn
  BY <1>2, <1>3, UpdateCalls, Zenon
<1>5. /\ pc' \notin {"rt begin", "rt events", "rt save", "fin final", "fin redraw"}
      /\ pc' \in {"rt shot", "fin shot", "fin save"} <=> AllDone(f)
      /\ pc' \in DrawPlaces => pc \in DrawPlaces
      /\ pc' = "fin save" => pc = "fin redraw"
      /\ AllDone(f) /\ pc \in DrawPlaces => pc' \in DrawPlaces
      /\ pc' = "done" => ~ok' /\ ~AllDone(f)
      /\ pc \notin {"rt begin"}
  BY DEF DrawPlaces
<1>6. InvRuns'
  <2>1. PlotsShowOneRun'
    BY <1>4 DEF IInv, InvRuns, PlotsShowOneRun
  <2>2. Orderly => \A a \in Analysis : life[a].run = active_run
    BY <1>5 DEF IInv, InvRuns
  <2>3. pc = "fin redraw" => active_run = NoRun
    BY DEF IInv, InvRuns
  <2>4. QED BY <1>1, <1>4, <1>5, <2>1, <2>2, <2>3 DEF InvRuns
<1>7. InvInit'
  <2>1. /\ pc \in DrawPlaces => ~initialised
        /\ initialised \/ pc \in DrawPlaces => \A a \in Analysis : life[a].inits # 0
        /\ Reliable /\ ~initialised /\ pc \notin DrawPlaces => \A a \in Analysis : life[a].inits = 0
    BY DEF IInv, InvInit
  <2>2. Reliable => AllDone(f)
    BY <1>2
  <2>3. \A a \in Analysis : life'[a].inits = life[a].inits
    BY <1>4
  <2>4. QED BY <1>1, <1>5, <2>1, <2>2, <2>3 DEF InvInit
<1>8. InvMisuse'
  BY <1>1, <1>4 DEF IInv, InvMisuse, EventsBelongToRun, AnalysesUsedInOrder, Reliable
<1>9. InvOver'
  <2>1. pc' = "fin save" => \A a \in Analysis : life[a].over
    BY <1>5 DEF IInv, InvOver
  <2>2. QED BY <1>1, <1>2, <1>4, <1>5, <2>1 DEF InvOver
<1>10. InvDrawn'
  BY <1>4, <1>5 DEF IInv, InvDrawn, SnapshotsAreUpToDate
<1>11. QED BY <1>4, <1>6, <1>7, <1>8, <1>9, <1>10

\* Until a loop of calls fails nothing has, in the realtime sink.
LEMMA EndLife ==
  ASSUME IInv, ok \/ pc = "fin end", pc \in {"realtime", "fin end"},
         UNCHANGED <<message, initialised, selected, shots, faults>>,
         NEW f \in Ends("end"), Calls("end", active_run, f),
         IF AllDone(f)
         THEN /\ pc' = (IF pc = "realtime" THEN "rt begin" ELSE "fin final") /\ ok' = ok
              /\ pc' = "fin final" => active_run' = NoRun
         ELSE /\ pc' \in {"finalise text", "finalise root", "finalise realtime", "done"} /\ ok' = FALSE
              /\ active_run' = active_run
  PROVE  InvLife' /\ InvRuns' /\ InvInit' /\ InvMisuse' /\ InvOver' /\ InvDrawn'
<1>1. (Orderly' => Orderly) /\ (Reliable' <=> Reliable)
  BY DEF Orderly, Reliable
<1>2. f \in 0 .. NAnalyses + 1 /\ (~AllDone(f) => ~Reliable)
  BY InnerEnds, Zenon DEF InnerFaults
<1>3. InvLife
  BY DEF IInv
<1>4. /\ InvLife'
      /\ \A a \in Analysis :
           /\ life'[a].inits = life[a].inits
           /\ (life'[a].run = life[a].run /\ life'[a].plots = life[a].plots) \/ (life'[a].run = NoRun /\ life'[a].plots = {})
           /\ life[a].run = active_run => life'[a].misuse = life[a].misuse
           /\ life'[a].misuse \subseteq life[a].misuse \union {"end outside its run"}
      /\ AllDone(f) => \A a \in Analysis : life'[a].run = NoRun
  BY <1>2, <1>3, EndCalls, Zenon
<1>5. /\ pc' \notin DrawPlaces \union {"rt events", "rt save", "fin redraw", "fin save"}
      /\ pc' \in {"rt begin", "fin final"} <=> AllDone(f)
      /\ pc \notin DrawPlaces \union {"rt begin"}
      /\ pc' = "done" => ~ok' /\ ~AllDone(f)
  BY DEF DrawPlaces
<1>6. Orderly' => AllDone(f)
  BY <1>1, <1>2 DEF Orderly
<1>7. InvRuns'
  <2>1. PlotsShowOneRun'
    BY <1>4 DEF IInv, InvRuns, PlotsShowOneRun
  <2>2. AllDone(f) => pc' = "rt begin" \/ active_run' = NoRun
    BY <1>5
  <2>3. QED BY <1>4, <1>5, <1>6, <2>1, <2>2 DEF InvRuns
<1>8. InvInit'
  BY <1>1, <1>4, <1>5 DEF IInv, InvInit
<1>9. InvMisuse'
  <2>1. Reliable => \A a \in Analysis : life[a].run = active_run
    BY <1>5 DEF IInv, InvRuns, Orderly
  <2>2. Reliable => \A a \in Analysis : life'[a].misuse = {}
    BY <1>4, <2>1 DEF IInv, InvMisuse, AnalysesUsedInOrder, Reliable
  <2>3. EventsBelongToRun'
    BY <1>4 DEF IInv, InvMisuse, EventsBelongToRun
  <2>4. QED BY <1>1, <2>2, <2>3 DEF InvMisuse, AnalysesUsedInOrder, Reliable
<1>10. InvOver'
  BY <1>1, <1>2, <1>5 DEF InvOver
<1>11. InvDrawn'
  BY <1>5 DEF IInv, InvDrawn, SnapshotsAreUpToDate, DrawPlaces
<1>12. QED BY <1>4, <1>7, <1>8, <1>9, <1>10, <1>11

LEMMA BeginLife ==
  ASSUME IInv, ok, pc = "rt begin" \/ (pc = "realtime" /\ active_run = NoRun), initialised,
         UNCHANGED <<message, initialised, selected, shots, faults>>,
         NEW f \in Ends("begin"), Calls("begin", message, f), message \in Runs,
         IF AllDone(f) THEN pc' = "rt events" /\ active_run' = message /\ ok' = ok
         ELSE /\ pc' \in {"finalise text", "finalise root", "finalise realtime", "done"} /\ ok' = FALSE
              /\ active_run' = active_run
  PROVE  InvLife' /\ InvRuns' /\ InvInit' /\ InvMisuse' /\ InvOver' /\ InvDrawn'
<1>1. (Orderly' => AllDone(f)) /\ (Reliable' <=> Reliable)
  <2>1. ~AllDone(f) => ~Reliable
    BY InnerEnds, Zenon DEF InnerFaults
  <2>2. QED BY <2>1 DEF Orderly, Reliable
<1>2. f \in 0 .. NAnalyses + 1 /\ (~AllDone(f) => ~Reliable)
  BY InnerEnds, Zenon DEF InnerFaults
<1>3. InvLife
  BY DEF IInv
<1>4. /\ InvLife'
      /\ \A a \in Analysis : /\ life'[a].inits = life[a].inits
                             /\ life'[a].run \in {message, life[a].run}
                             /\ life'[a].plots = life[a].plots
                             /\ life[a].run = NoRun => life'[a].misuse = life[a].misuse
                             /\ life'[a].misuse \subseteq life[a].misuse \union {"begin in a run"}
      /\ AllDone(f) => \A a \in Analysis : life'[a].run = message
  BY <1>2, <1>3, BeginCalls, Zenon
<1>5. /\ pc' \notin DrawPlaces \union {"rt begin", "rt save", "fin final", "fin redraw", "fin save"}
      /\ pc' = "rt events" <=> AllDone(f)
      /\ pc \notin DrawPlaces
      /\ pc' = "done" => ~ok' /\ ~AllDone(f)
  BY DEF DrawPlaces
<1>6. \A a \in Analysis : life[a].run = NoRun
  BY DEF IInv, InvRuns, Orderly
<1>7. InvRuns'
  <2>1. \A a \in Analysis : life[a].plots \subseteq Runs /\ life[a].plots \subseteq {NoRun}
    BY <1>6 DEF IInv, InvLife, Lives, InvRuns, PlotsShowOneRun
  <2>2. NoRun \notin Runs
    BY PipelineAssumption DEF NoRun
  <2>3. \A a \in Analysis : life[a].plots = {}
    BY <2>1, <2>2
  <2>4. PlotsShowOneRun'
    BY <1>4, <2>3 DEF PlotsShowOneRun
  <2>5. AllDone(f) => active_run' = message
    OBVIOUS
  <2>6. QED BY <1>1, <1>4, <1>5, <2>4, <2>5 DEF InvRuns
<1>8. InvInit'
  BY <1>1, <1>4, <1>5 DEF IInv, InvInit
<1>9. InvMisuse'
  <2>1. \A a \in Analysis : life'[a].misuse = life[a].misuse
    BY <1>4, <1>6
  <2>2. QED BY <1>1, <2>1 DEF IInv, InvMisuse, AnalysesUsedInOrder, EventsBelongToRun, Reliable
<1>10. InvOver'
  BY <1>1, <1>2, <1>5 DEF InvOver
<1>11. InvDrawn'
  BY <1>5 DEF IInv, InvDrawn, SnapshotsAreUpToDate, DrawPlaces
<1>12. QED BY <1>4, <1>7, <1>8, <1>9, <1>10, <1>11

LEMMA EventLife ==
  ASSUME IInv, ok, pc = "rt events" \/ (pc = "realtime" /\ active_run = message), initialised,
         UNCHANGED <<message, initialised, active_run, selected, shots, faults>>,
         NEW f \in Ends("event"), Calls("event", message, f), message \in Runs,
         IF AllDone(f) THEN pc' = "rt pump" /\ ok' = ok
         ELSE pc' \in {"finalise text", "finalise root", "finalise realtime", "done"} /\ ok' = FALSE
  PROVE  InvLife' /\ InvRuns' /\ InvInit' /\ InvMisuse' /\ InvOver' /\ InvDrawn'
<1>1. Reliable' <=> Reliable
  BY DEF Reliable
<1>2. f \in 0 .. NAnalyses + 1 /\ (~AllDone(f) => ~Reliable)
  BY InnerEnds, Zenon DEF InnerFaults
<1>3. InvLife
  BY DEF IInv
<1>4. /\ InvLife'
      /\ \A a \in Analysis :
           /\ life'[a].inits = life[a].inits
           /\ life'[a].run = life[a].run
           /\ life'[a].plots \subseteq life[a].plots \union {message}
           /\ life[a].run = message /\ life[a].inits # 0 => life'[a].misuse = life[a].misuse
  BY <1>2, <1>3, EventCalls, Zenon
<1>5. /\ pc' \notin DrawPlaces \union {"rt begin", "rt events", "rt save", "fin final", "fin redraw", "fin save"}
      /\ pc \notin DrawPlaces
      /\ pc' = "done" => ~ok' /\ ~AllDone(f)
  BY DEF DrawPlaces
<1>6. active_run = message /\ \A a \in Analysis : life[a].run = message
  BY DEF IInv, InvRuns, Orderly
<1>7. InvRuns'
  <2>1. PlotsShowOneRun'
    BY <1>4, <1>6 DEF IInv, InvRuns, PlotsShowOneRun
  <2>2. QED BY <1>4, <1>5, <1>6, <2>1 DEF InvRuns
<1>8. InvInit'
  BY <1>1, <1>4, <1>5 DEF IInv, InvInit
<1>9. InvMisuse'
  <2>1. \A a \in Analysis : life[a].inits # 0
    BY DEF IInv, InvInit
  <2>2. \A a \in Analysis : life'[a].misuse = life[a].misuse
    BY <1>4, <1>6, <2>1
  <2>3. QED BY <1>1, <2>2 DEF IInv, InvMisuse, AnalysesUsedInOrder, EventsBelongToRun, Reliable
<1>10. InvOver'
  BY <1>1, <1>2, <1>5 DEF InvOver
<1>11. InvDrawn'
  BY <1>5 DEF IInv, InvDrawn, SnapshotsAreUpToDate, DrawPlaces
<1>12. QED BY <1>4, <1>7, <1>8, <1>9, <1>10, <1>11

LEMMA FinalLife ==
  ASSUME IInv, pc = "fin final",
         UNCHANGED <<message, initialised, selected, shots, faults>>,
         NEW f \in Ends("final"), Calls("final", active_run, f),
         IF AllDone(f) THEN pc' = "fin redraw" /\ active_run' = NoRun /\ ok' = ok
         ELSE pc' = "done" /\ active_run' = active_run /\ ok' = FALSE
  PROVE  InvLife' /\ InvRuns' /\ InvInit' /\ InvMisuse' /\ InvOver' /\ InvDrawn'
<1>1. (Orderly' => Orderly) /\ (Reliable' <=> Reliable)
  BY DEF Orderly, Reliable
<1>2. f \in 0 .. NAnalyses + 1 /\ (~AllDone(f) => ~Reliable)
  BY InnerEnds, Zenon DEF InnerFaults
<1>3. InvLife
  BY DEF IInv
<1>4. /\ InvLife'
      /\ \A a \in Analysis : /\ life'[a].inits = life[a].inits
                             /\ life'[a].run = life[a].run
                             /\ life'[a].plots = life[a].plots
                             /\ life[a].run = NoRun => life'[a].misuse = life[a].misuse
                             /\ life'[a].misuse \subseteq life[a].misuse \union {"finalised in a run"}
      /\ AllDone(f) => \A a \in Analysis : life'[a].over
  BY <1>2, <1>3, FinalCalls, Zenon
<1>5. /\ pc' \notin DrawPlaces \union {"rt begin", "rt events", "rt shot", "rt save", "fin shot", "fin save"}
      /\ pc' = "fin redraw" <=> AllDone(f)
      /\ pc' = "done" => ~ok' /\ ~AllDone(f)
      /\ pc \notin DrawPlaces
  BY DEF DrawPlaces
<1>6. active_run = NoRun /\ active_run' = NoRun
  BY DEF IInv, InvRuns
<1>7. Orderly => \A a \in Analysis : life[a].run = NoRun
  BY <1>6 DEF IInv, InvRuns
<1>8. InvRuns'
  <2>1. PlotsShowOneRun'
    BY <1>4 DEF IInv, InvRuns, PlotsShowOneRun
  <2>2. QED BY <1>1, <1>4, <1>5, <1>6, <1>7, <2>1 DEF InvRuns
<1>9. InvInit'
  BY <1>1, <1>4, <1>5 DEF IInv, InvInit
<1>10. InvMisuse'
  <2>1. Reliable => \A a \in Analysis : life'[a].misuse = {}
    BY <1>4, <1>7 DEF IInv, InvMisuse, AnalysesUsedInOrder, Reliable, Orderly
  <2>2. EventsBelongToRun'
    BY <1>4 DEF IInv, InvMisuse, EventsBelongToRun
  <2>3. QED BY <1>1, <2>1, <2>2 DEF InvMisuse, AnalysesUsedInOrder, Reliable
<1>11. InvOver'
  BY <1>1, <1>2, <1>4, <1>5 DEF InvOver
<1>12. InvDrawn'
  BY <1>5 DEF IInv, InvDrawn, SnapshotsAreUpToDate
<1>13. QED BY <1>4, <1>8, <1>9, <1>10, <1>11, <1>12

-----------------------------------------------------------------------------
(* The actions of the realtime sink.                                       *)

LEMMA InitialiseKeeps ==
  ASSUME IInv, \/ Initialise("realtime", "rt draw", FirstFinalise)
               \/ Initialise("fin init", "fin draw", "done")
  PROVE  IInv'
<1> DEFINE fin == pc = "fin init"
           fail == IF fin THEN "done" ELSE FirstFinalise
<1>1. /\ pc \in {"realtime", "fin init"} /\ ~initialised
      /\ \E f \in Ends("init") \union {0} :
           /\ Calls("init", NoRun, f)
           /\ IF AllDone(f) THEN pc' = (IF fin THEN "fin draw" ELSE "rt draw") /\ ok' = ok
                            ELSE pc' = fail /\ ok' = FALSE
      /\ UNCHANGED <<idx, message, env, seen, rootVars, realtimeVars, selection, shots>>
  <2>1. CASE Initialise("realtime", "rt draw", FirstFinalise)
    BY <2>1 DEF Initialise, Fails
  <2>2. CASE Initialise("fin init", "fin draw", "done")
    BY <2>2 DEF Initialise, Fails
  <2>3. QED BY <2>1, <2>2
<1>2. PICK f \in Ends("init") \union {0} :
        /\ Calls("init", NoRun, f)
        /\ IF AllDone(f) THEN pc' = (IF fin THEN "fin draw" ELSE "rt draw") /\ ok' = ok
                         ELSE pc' = fail /\ ok' = FALSE
  BY <1>1
<1> USE DEF env, given, realtimeVars, selection
<1>3. /\ active_run' \in Runs \union {NoRun} /\ initialised' \in BOOLEAN
      /\ selected' \in Analysis \union {None} /\ requests' \in Seq(Analysis \union {None})
      /\ shots' \subseteq Analysis \X BOOLEAN \X BOOLEAN
  BY <1>1 DEF IInv, InvCount, TypeOK
<1>4. /\ InvPlace' /\ InvCount' /\ InvSeen' /\ InvRoot'
      /\ ~AllDone(f) => pc' \in {"finalise text", "finalise root", "finalise realtime", "done"}
  <2>1. CASE fin
    <3>1. (pc' = "fin draw" /\ ok' = ok) \/ (pc' = "done" /\ ok' = FALSE)
      BY <1>2, <2>1
    <3>2. pc \in FinPlaces /\ (pc' = "fin draw" => pc' \in FinPlaces)
      BY <2>1 DEF FinPlaces
    <3>3. QED BY <1>1, <1>2, <1>3, <2>1, <3>1, <3>2, FinStep
  <2>2. CASE ~fin
    <3>1. (pc' = "rt draw" /\ ok' = ok) \/ (pc' = FirstFinalise /\ ok' = FALSE)
      BY <1>2, <2>2
    <3>2. pc \in RtPlaces /\ (pc' = "rt draw" => pc' \in RtPlaces)
      BY <1>1, <2>2 DEF RtPlaces
    <3>3. /\ InvPlace' /\ InvCount' /\ InvSeen' /\ InvRoot'
      BY <1>1, <1>3, <3>1, <3>2, RtStep
    <3>4. ~AllDone(f) => pc' = FirstFinalise
      BY <1>2, <2>2
    <3>5. FirstFinalise \in {"finalise text", "finalise root", "finalise realtime", "done"}
      BY FinaliserPlaces
    <3>6. QED BY <3>3, <3>4, <3>5
  <2>3. QED BY <2>1, <2>2
<1>5. IF AllDone(f) THEN pc' \in {"rt draw", "fin draw"} /\ ok' = ok
      ELSE pc' \in {"finalise text", "finalise root", "finalise realtime", "done"} /\ ok' = FALSE
  BY <1>2, <1>4
<1> HIDE DEF fin, fail
<1>6. InvLife' /\ InvRuns' /\ InvInit' /\ InvMisuse' /\ InvOver' /\ InvDrawn'
  BY <1>1, <1>2, <1>5, InitLife
<1>7. QED BY <1>4, <1>6 DEF IInv

LEMMA FirstDrawKeeps ==
  ASSUME IInv, \/ FirstDraw("rt draw", "rt shot", FirstFinalise)
               \/ FirstDraw("fin draw", "fin shot", "done")
               \/ FirstDraw("fin redraw", "fin save", "done")
  PROVE  IInv'
<1> DEFINE to == IF pc = "rt draw" THEN "rt shot" ELSE IF pc = "fin draw" THEN "fin shot" ELSE "fin save"
           fail == IF pc = "rt draw" THEN FirstFinalise ELSE "done"
<1>1. /\ pc \in {"rt draw", "fin draw", "fin redraw"}
      /\ \E f \in Ends("update") :
           /\ RedrawAll(f)
           /\ IF AllDone(f) THEN pc' = to /\ ok' = ok ELSE pc' = fail /\ ok' = FALSE
      /\ UNCHANGED <<idx, message, env, seen, rootVars, realtimeVars, selection, shots>>
  <2>1. CASE FirstDraw("rt draw", "rt shot", FirstFinalise)
    BY <2>1 DEF FirstDraw, Fails
  <2>2. CASE FirstDraw("fin draw", "fin shot", "done")
    BY <2>2 DEF FirstDraw, Fails
  <2>3. CASE FirstDraw("fin redraw", "fin save", "done")
    BY <2>3 DEF FirstDraw, Fails
  <2>4. QED BY <2>1, <2>2, <2>3
<1>2. PICK f \in Ends("update") :
        /\ RedrawAll(f)
        /\ IF AllDone(f) THEN pc' = to /\ ok' = ok ELSE pc' = fail /\ ok' = FALSE
  BY <1>1
<1> USE DEF env, given, realtimeVars, selection
<1>3. /\ active_run' \in Runs \union {NoRun} /\ initialised' \in BOOLEAN
      /\ selected' \in Analysis \union {None} /\ requests' \in Seq(Analysis \union {None})
      /\ shots' \subseteq Analysis \X BOOLEAN \X BOOLEAN
  BY <1>1 DEF IInv, InvCount, TypeOK
<1>4. /\ InvPlace' /\ InvCount' /\ InvSeen' /\ InvRoot'
      /\ ~AllDone(f) => pc' \in {"finalise text", "finalise root", "finalise realtime", "done"}
  <2>1. CASE pc # "rt draw"
    <3>1. (pc' = to /\ ok' = ok) \/ (pc' = "done" /\ ok' = FALSE)
      BY <1>2, <2>1
    <3>2. pc \in FinPlaces /\ (pc' = to => pc' \in FinPlaces)
      BY <1>1, <2>1 DEF FinPlaces
    <3>3. QED BY <1>1, <1>2, <1>3, <2>1, <3>1, <3>2, FinStep
  <2>2. CASE pc = "rt draw"
    <3>1. (pc' = "rt shot" /\ ok' = ok) \/ (pc' = FirstFinalise /\ ok' = FALSE)
      BY <1>2, <2>2
    <3>2. pc \in RtPlaces /\ (pc' = "rt shot" => pc' \in RtPlaces)
      BY <2>2 DEF RtPlaces
    <3>3. /\ InvPlace' /\ InvCount' /\ InvSeen' /\ InvRoot'
      BY <1>1, <1>3, <3>1, <3>2, RtStep
    <3>4. ~AllDone(f) => pc' = FirstFinalise
      BY <1>2, <2>2
    <3>5. FirstFinalise \in {"finalise text", "finalise root", "finalise realtime", "done"}
      BY FinaliserPlaces
    <3>6. QED BY <3>3, <3>4, <3>5
  <2>3. QED BY <2>1, <2>2
<1>5. IF AllDone(f) THEN pc' = to /\ ok' = ok
      ELSE pc' \in {"finalise text", "finalise root", "finalise realtime", "done"} /\ ok' = FALSE
  BY <1>2, <1>4
<1>6. InvLife' /\ InvRuns' /\ InvInit' /\ InvMisuse' /\ InvOver' /\ InvDrawn'
  BY <1>1, <1>2, <1>5, DrawLife
<1>7. QED BY <1>4, <1>6 DEF IInv

\* A snapshot leaves the analyses alone.
LEMMA SavedLife ==
  ASSUME IInv, UNCHANGED <<life, ok, active_run, faults, message>>, SnapshotsAreUpToDate',
         \/ /\ pc \in {"rt shot", "fin shot"} /\ initialised' = TRUE
            /\ pc' \in {"realtime", "fin end"}
         \/ pc = "rt save" /\ pc' = "rt end" /\ initialised' = initialised
         \/ pc = "fin save" /\ pc' = "done" /\ initialised' = initialised
  PROVE  InvLife' /\ InvRuns' /\ InvInit' /\ InvMisuse' /\ InvOver' /\ InvDrawn'
<1>1. (Orderly' <=> Orderly) /\ (Reliable' <=> Reliable)
  BY DEF Orderly, Reliable
<1>2. InvLife'
  BY DEF IInv, InvLife
<1>3. InvRuns'
  BY <1>1 DEF IInv, InvRuns, PlotsShowOneRun
<1>4. InvInit'
  <2>1. pc' \notin DrawPlaces
    BY DEF DrawPlaces
  <2>2. CASE pc \in {"rt shot", "fin shot"} /\ initialised' = TRUE
    <3>1. \A a \in Analysis : life[a].inits # 0
      BY <2>2 DEF IInv, InvInit, DrawPlaces
    <3>2. QED BY <2>1, <2>2, <3>1 DEF InvInit
  <2>3. CASE pc \in {"rt save", "fin save"} /\ initialised' = initialised
    <3>1. pc \notin DrawPlaces
      BY <2>3 DEF DrawPlaces
    <3>2. QED BY <1>1, <2>1, <2>3, <3>1 DEF IInv, InvInit
  <2>4. QED BY <2>2, <2>3
<1>5. InvMisuse'
  BY DEF IInv, InvMisuse, EventsBelongToRun, AnalysesUsedInOrder
<1>6. InvOver'
  <2>1. pc = "fin save" => \A a \in Analysis : life[a].over
    BY DEF IInv, InvOver
  <2>2. pc = "fin save" /\ Reliable => \A a \in Analysis : life[a].run = NoRun
    BY DEF IInv, InvRuns, Orderly
  <2>3. (pc' = "done" => pc = "fin save") /\ pc' \notin {"fin redraw", "fin save"} /\ life' = life
    OBVIOUS
  <2>4. QED BY <1>1, <2>1, <2>2, <2>3 DEF InvOver
<1>7. InvDrawn'
  BY DEF InvDrawn
<1>8. QED BY <1>2, <1>3, <1>4, <1>5, <1>6, <1>7

LEMMA NoneIsNone == \A a \in Analysis : a # None
BY PipelineAssumption DEF Analysis, None

LEMMA SnapshotKeeps ==
  ASSUME IInv, \/ FirstShot("rt shot", "realtime") \/ RtSave
               \/ FirstShot("fin shot", "fin end") \/ FinSave
  PROVE  IInv'
<1>1. /\ SaveSnapshots /\ (initialised' = TRUE \/ initialised' = initialised)
      /\ UNCHANGED <<loopVars, env, seen, rootVars, active_run, finalised, life>>
      /\ \/ pc = "rt shot" /\ pc' = "realtime" /\ initialised' = TRUE
         \/ pc = "rt save" /\ pc' = "rt end" /\ initialised' = initialised
         \/ pc = "fin shot" /\ pc' = "fin end" /\ initialised' = TRUE
         \/ pc = "fin save" /\ pc' = "done" /\ initialised' = initialised
  <2>1. CASE FirstShot("rt shot", "realtime")
    BY <2>1 DEF FirstShot, Goto
  <2>2. CASE RtSave
    BY <2>2 DEF RtSave, Goto, realtimeVars
  <2>3. CASE FirstShot("fin shot", "fin end")
    BY <2>3 DEF FirstShot, Goto
  <2>4. CASE FinSave
    BY <2>4 DEF FinSave, Goto, realtimeVars
  <2>5. QED BY <2>1, <2>2, <2>3, <2>4
<1> USE DEF loopVars, env, given
<1>2. \A a \in Analysis : life[a].drawn \/ a # selected
  <2>1. /\ pc \in {"rt shot", "fin shot", "fin save"} => \A a \in Analysis : life[a].drawn
        /\ pc = "rt save" /\ selected # None => \A a \in Analysis : life[a].drawn
    BY DEF IInv, InvDrawn
  <2>2. \A a \in Analysis : a # None
    BY NoneIsNone
  <2>3. QED BY <1>1, <2>1, <2>2
<1>3. /\ selected' \in Analysis \union {None} /\ requests' \in Seq(Analysis \union {None})
      /\ asked' = asked /\ shots' \subseteq Analysis \X BOOLEAN \X BOOLEAN
      /\ SnapshotsAreUpToDate'
  BY <1>1, <1>2, SavedTypes
<1>4. active_run' \in Runs \union {NoRun} /\ initialised' \in BOOLEAN
  BY <1>1 DEF IInv, InvCount, TypeOK
<1>5. InvPlace' /\ InvCount' /\ InvSeen' /\ InvRoot'
  <2>1. CASE pc \in RtPlaces /\ pc' \in RtPlaces
    BY <1>1, <1>3, <1>4, <2>1, RtStep
  <2>2. CASE pc \in FinPlaces /\ (pc' \in FinPlaces \/ pc' = "done")
    BY <1>1, <1>3, <1>4, <2>2, FinStep
  <2>3. (pc \in RtPlaces /\ pc' \in RtPlaces) \/ (pc \in FinPlaces /\ (pc' \in FinPlaces \/ pc' = "done"))
    BY <1>1 DEF RtPlaces, FinPlaces
  <2>4. QED BY <2>1, <2>2, <2>3
<1>6. InvLife' /\ InvRuns' /\ InvInit' /\ InvMisuse' /\ InvOver' /\ InvDrawn'
  BY <1>1, <1>3, SavedLife
<1>7. QED BY <1>5, <1>6 DEF IInv

\* What the three loops of calls of Consume have in common.
LEMMA RtCallsStep ==
  ASSUME IInv, NEW op, NEW r, NEW to \in RtPlaces, NEW run \in Runs \union {NoRun},
         RtCalls(op, r, to, run), pc \in RtPlaces
  PROVE  /\ InvPlace' /\ InvCount' /\ InvSeen' /\ InvRoot' /\ ok /\ initialised
         /\ UNCHANGED <<message, initialised, selected, shots, faults>>
         /\ \E f \in Ends(op) :
              /\ Calls(op, r, f)
              /\ IF AllDone(f) THEN pc' = to /\ active_run' = run /\ ok' = ok
                 ELSE /\ pc' \in {"finalise text", "finalise root", "finalise realtime", "done"} /\ ok' = FALSE
                      /\ active_run' = active_run
<1>1. /\ initialised
      /\ UNCHANGED <<idx, message, env, seen, rootVars, initialised, finalised, selection, shots>>
      /\ \E f \in Ends(op) :
           /\ Calls(op, r, f)
           /\ IF AllDone(f) THEN pc' = to /\ active_run' = run /\ ok' = ok
              ELSE pc' = FirstFinalise /\ ok' = FALSE /\ active_run' = active_run
  BY DEF RtCalls, Fails
<1>2. PICK f \in Ends(op) :
        /\ Calls(op, r, f)
        /\ IF AllDone(f) THEN pc' = to /\ active_run' = run /\ ok' = ok
           ELSE pc' = FirstFinalise /\ ok' = FALSE /\ active_run' = active_run
  BY <1>1
<1> USE DEF env, given, selection
<1>3. /\ active_run' \in Runs \union {NoRun} /\ initialised' \in BOOLEAN
      /\ selected' \in Analysis \union {None} /\ requests' \in Seq(Analysis \union {None})
      /\ shots' \subseteq Analysis \X BOOLEAN \X BOOLEAN
  BY <1>1 DEF IInv, InvCount, TypeOK
<1>4. (pc' \in RtPlaces /\ ok' = ok) \/ (pc' = FirstFinalise /\ ok' = FALSE)
  BY <1>2
<1>5. InvPlace' /\ InvCount' /\ InvSeen' /\ InvRoot' /\ ok
  BY <1>1, <1>3, <1>4, RtStep
<1>6. FirstFinalise \in {"finalise text", "finalise root", "finalise realtime", "done"}
  BY FinaliserPlaces
<1>7. /\ Calls(op, r, f)
      /\ IF AllDone(f) THEN pc' = to /\ active_run' = run /\ ok' = ok
         ELSE /\ pc' \in {"finalise text", "finalise root", "finalise realtime", "done"} /\ ok' = FALSE
              /\ active_run' = active_run
  BY <1>2, <1>6
<1>8. QED BY <1>1, <1>5, <1>7, Zenon

\* The message in hand is of a run.
LEMMA InHand == ASSUME IInv, pc \in RtPlaces PROVE message \in Runs /\ active_run \in Runs \union {NoRun}
BY DEF IInv, InvCount, TypeOK, OnHand

LEMMA RtEndRunKeeps == ASSUME IInv, RtEndRun PROVE IInv'
<1>1. pc = "realtime" /\ RtCalls("end", active_run, "rt begin", active_run)
  BY DEF RtEndRun
<1>2. pc \in RtPlaces /\ "rt begin" \in RtPlaces
  BY <1>1 DEF RtPlaces
<1>3. active_run \in Runs \union {NoRun}
  BY <1>2, InHand
<1>4. /\ InvPlace' /\ InvCount' /\ InvSeen' /\ InvRoot' /\ ok
      /\ UNCHANGED <<message, initialised, selected, shots, faults>>
      /\ \E f \in Ends("end") :
           /\ Calls("end", active_run, f)
           /\ IF AllDone(f) THEN pc' = "rt begin" /\ active_run' = active_run /\ ok' = ok
              ELSE /\ pc' \in {"finalise text", "finalise root", "finalise realtime", "done"} /\ ok' = FALSE
                   /\ active_run' = active_run
  BY <1>1, <1>2, <1>3, RtCallsStep, Zenon
<1>5. PICK f \in Ends("end") :
        /\ Calls("end", active_run, f)
        /\ IF AllDone(f) THEN pc' = "rt begin" /\ active_run' = active_run /\ ok' = ok
           ELSE /\ pc' \in {"finalise text", "finalise root", "finalise realtime", "done"} /\ ok' = FALSE
                /\ active_run' = active_run
  BY <1>4
<1>6. InvLife' /\ InvRuns' /\ InvInit' /\ InvMisuse' /\ InvOver' /\ InvDrawn'
  BY <1>1, <1>4, <1>5, EndLife
<1>7. QED BY <1>4, <1>6 DEF IInv

LEMMA RtBeginRunKeeps == ASSUME IInv, RtBeginRun PROVE IInv'
<1>1. /\ pc = "rt begin" \/ (pc = "realtime" /\ active_run = NoRun)
      /\ RtCalls("begin", message, "rt events", message)
  BY DEF RtBeginRun
<1>2. pc \in RtPlaces /\ "rt events" \in RtPlaces
  BY <1>1 DEF RtPlaces
<1>3. message \in Runs /\ message \in Runs \union {NoRun}
  BY <1>2, InHand
<1>4. /\ InvPlace' /\ InvCount' /\ InvSeen' /\ InvRoot' /\ ok /\ initialised
      /\ UNCHANGED <<message, initialised, selected, shots, faults>>
      /\ \E f \in Ends("begin") :
           /\ Calls("begin", message, f)
           /\ IF AllDone(f) THEN pc' = "rt events" /\ active_run' = message /\ ok' = ok
              ELSE /\ pc' \in {"finalise text", "finalise root", "finalise realtime", "done"} /\ ok' = FALSE
                   /\ active_run' = active_run
  BY <1>1, <1>2, <1>3, RtCallsStep, Zenon
<1>5. InvLife' /\ InvRuns' /\ InvInit' /\ InvMisuse' /\ InvOver' /\ InvDrawn'
  BY <1>1, <1>3, <1>4, BeginLife, Zenon
<1>6. QED BY <1>4, <1>5 DEF IInv

LEMMA RtEventsKeeps == ASSUME IInv, RtEvents PROVE IInv'
<1>1. /\ pc = "rt events" \/ (pc = "realtime" /\ active_run = message)
      /\ RtCalls("event", message, "rt pump", active_run)
  BY DEF RtEvents
<1>2. pc \in RtPlaces /\ "rt pump" \in RtPlaces
  BY <1>1 DEF RtPlaces
<1>3. message \in Runs /\ active_run \in Runs \union {NoRun}
  BY <1>2, InHand
<1>4. /\ InvPlace' /\ InvCount' /\ InvSeen' /\ InvRoot' /\ ok /\ initialised
      /\ UNCHANGED <<message, initialised, selected, shots, faults>>
      /\ \E f \in Ends("event") :
           /\ Calls("event", message, f)
           /\ IF AllDone(f) THEN pc' = "rt pump" /\ active_run' = active_run /\ ok' = ok
              ELSE /\ pc' \in {"finalise text", "finalise root", "finalise realtime", "done"} /\ ok' = FALSE
                   /\ active_run' = active_run
  BY <1>1, <1>2, <1>3, RtCallsStep, Zenon
<1>5. PICK f \in Ends("event") :
        /\ Calls("event", message, f)
        /\ IF AllDone(f) THEN pc' = "rt pump" /\ active_run' = active_run /\ ok' = ok
           ELSE /\ pc' \in {"finalise text", "finalise root", "finalise realtime", "done"} /\ ok' = FALSE
                /\ active_run' = active_run
  BY <1>4
<1>6. active_run' = active_run
  BY <1>5
<1>7. InvLife' /\ InvRuns' /\ InvInit' /\ InvMisuse' /\ InvOver' /\ InvDrawn'
  BY <1>1, <1>3, <1>4, <1>5, <1>6, EventLife
<1>8. QED BY <1>4, <1>7 DEF IInv

\* A snapshot that is due shows what is drawn.
LEMMA PumpLife ==
  ASSUME IInv, pc = "rt pump", UNCHANGED <<message, initialised, active_run, shots, faults>>,
         InvLife',
         \A a \in Analysis : /\ life'[a].inits = life[a].inits
                             /\ life'[a].run = life[a].run
                             /\ life'[a].plots = life[a].plots
                             /\ life'[a].misuse = life[a].misuse,
         \/ /\ pc' \in {"rt save", "rt end"} /\ ok' = ok
            /\ pc' = "rt save" /\ selected' # None => \A a \in Analysis : life'[a].drawn
         \/ /\ pc' \in {"finalise text", "finalise root", "finalise realtime", "done"} /\ ok' = FALSE
            /\ ~Reliable
  PROVE  InvRuns' /\ InvInit' /\ InvMisuse' /\ InvOver' /\ InvDrawn'
<1>1. (Orderly' => Orderly) /\ (Reliable' <=> Reliable)
  <2>1. ok' => ok
    OBVIOUS
  <2>2. QED BY <2>1 DEF Orderly, Reliable
<1>2. /\ pc' \notin DrawPlaces \union {"rt begin", "rt events", "rt shot", "fin shot", "fin final", "fin redraw", "fin save"}
      /\ pc \notin DrawPlaces
      /\ pc' = "done" => ~ok' /\ ~Reliable
      /\ pc' = "rt save" /\ selected' # None => \A a \in Analysis : life'[a].drawn
  BY DEF DrawPlaces
<1>3. InvRuns'
  BY <1>1, <1>2 DEF IInv, InvRuns, PlotsShowOneRun
<1>4. InvInit'
  BY <1>1, <1>2 DEF IInv, InvInit
<1>5. InvMisuse'
  BY DEF IInv, InvMisuse, EventsBelongToRun, AnalysesUsedInOrder
<1>6. InvOver'
  BY <1>1, <1>2 DEF InvOver
<1>7. InvDrawn'
  BY <1>2 DEF IInv, InvDrawn, SnapshotsAreUpToDate
<1>8. QED BY <1>3, <1>4, <1>5, <1>6, <1>7

LEMMA RtPumpKeeps == ASSUME IInv, RtPump PROVE IInv'
<1>1. /\ pc = "rt pump" /\ (IF Snapshots THEN Poll ELSE UNCHANGED selection)
      /\ UNCHANGED <<idx, message, env, seen, rootVars, realtimeVars, shots>>
  BY DEF RtPump
<1>2. PICK gui_due \in BOOLEAN, snapshot_due \in (IF Snapshots THEN BOOLEAN ELSE {FALSE}) :
        IF RedrawDue(gui_due, snapshot_due)
        THEN \E f \in Ends("update") :
               /\ RedrawAll(f)
               /\ IF AllDone(f) THEN pc' = (IF snapshot_due THEN "rt save" ELSE "rt end") /\ UNCHANGED ok
                                ELSE Fails(FirstFinalise)
        ELSE pc' = (IF snapshot_due THEN "rt save" ELSE "rt end") /\ UNCHANGED <<life, ok>>
  BY DEF RtPump
<1> USE DEF env, given, realtimeVars
<1>3. /\ selected' \in Analysis \union {None} /\ requests' \in Seq(Analysis \union {None})
      /\ asked' = asked
  <2>1. CASE Snapshots
    BY <1>1, <2>1, PollTypes
  <2>2. CASE ~Snapshots
    BY <1>1, <2>2 DEF IInv, InvCount, TypeOK, selection
  <2>3. QED BY <2>1, <2>2
<1>4. /\ active_run' \in Runs \union {NoRun} /\ initialised' \in BOOLEAN
      /\ shots' \subseteq Analysis \X BOOLEAN \X BOOLEAN
  BY <1>1 DEF IInv, InvCount, TypeOK
<1>5. /\ pc \in RtPlaces /\ "rt save" \in RtPlaces /\ "rt end" \in RtPlaces
      /\ FirstFinalise \in {"finalise text", "finalise root", "finalise realtime", "done"}
  BY <1>1, FinaliserPlaces DEF RtPlaces
<1>6. ASSUME RedrawDue(gui_due, snapshot_due)
      PROVE  IInv'
  <2>1. PICK f \in Ends("update") :
          /\ RedrawAll(f)
          /\ IF AllDone(f) THEN pc' = (IF snapshot_due THEN "rt save" ELSE "rt end") /\ UNCHANGED ok
                           ELSE pc' = FirstFinalise /\ ok' = FALSE
    BY <1>2, <1>6 DEF Fails
  <2>2. f \in 0 .. NAnalyses + 1 /\ (~AllDone(f) => ~Reliable)
    BY InnerEnds, Zenon DEF InnerFaults
  <2>3. InvLife /\ Calls("update", NoRun, f)
    BY <2>1 DEF IInv, RedrawAll
  <2>4. /\ InvLife'
        /\ \A a \in Analysis : /\ life'[a].inits = life[a].inits
                               /\ life'[a].run = life[a].run
                               /\ life'[a].plots = life[a].plots
                               /\ life'[a].misuse = life[a].misuse
        /\ AllDone(f) => \A a \in Analysis : life'[a].drawn
    BY <2>2, <2>3, UpdateCalls, Zenon
  <2>5. (pc' \in {"rt save", "rt end"} /\ ok' = ok /\ AllDone(f))
        \/ (pc' = FirstFinalise /\ ok' = FALSE /\ ~AllDone(f))
    BY <2>1
  <2>6. (pc' \in RtPlaces /\ ok' = ok) \/ (pc' = FirstFinalise /\ ok' = FALSE)
    BY <1>5, <2>5
  <2>7. InvPlace' /\ InvCount' /\ InvSeen' /\ InvRoot'
    BY <1>1, <1>3, <1>4, <1>5, <2>6, RtStep
  <2>8. InvRuns' /\ InvInit' /\ InvMisuse' /\ InvOver' /\ InvDrawn'
    BY <1>1, <1>5, <2>2, <2>4, <2>5, PumpLife
  <2>9. QED BY <2>4, <2>7, <2>8 DEF IInv
<1>7. ASSUME ~RedrawDue(gui_due, snapshot_due)
      PROVE  IInv'
  <2>1. pc' = (IF snapshot_due THEN "rt save" ELSE "rt end") /\ UNCHANGED <<life, ok>>
    BY <1>2, <1>7
  <2>2. pc' \in {"rt save", "rt end"} /\ (pc' = "rt save" => selected' = None)
    BY <1>7, <2>1 DEF RedrawDue
  <2>3. InvLife'
    BY <2>1 DEF IInv, InvLife
  <2>4. pc' \in RtPlaces /\ ok' = ok
    BY <1>5, <2>1, <2>2
  <2>5. InvPlace' /\ InvCount' /\ InvSeen' /\ InvRoot'
    BY <1>1, <1>3, <1>4, <1>5, <2>4, RtStep
  <2>6. InvRuns' /\ InvInit' /\ InvMisuse' /\ InvOver' /\ InvDrawn'
    BY <1>1, <2>1, <2>2, <2>3, PumpLife
  <2>7. QED BY <2>3, <2>5, <2>6 DEF IInv
<1>8. QED BY <1>6, <1>7

-----------------------------------------------------------------------------
(* The end of the realtime sink.                                           *)

\* What the loops of calls of Finalise have in common.
LEMMA FinCallsStep ==
  ASSUME IInv, NEW op, NEW to \in FinPlaces, NEW from \in FinPlaces, FinCalls(op, from, to)
  PROVE  /\ pc = from /\ InvPlace' /\ InvCount' /\ InvSeen' /\ InvRoot'
         /\ UNCHANGED <<message, initialised, selected, shots, faults>>
         /\ \E f \in Ends(op) :
              /\ Calls(op, active_run, f)
              /\ IF AllDone(f) THEN pc' = to /\ active_run' = NoRun /\ ok' = ok
                 ELSE pc' = "done" /\ active_run' = active_run /\ ok' = FALSE
<1>1. /\ pc = from
      /\ UNCHANGED <<idx, message, env, seen, rootVars, initialised, finalised, selection, shots>>
      /\ \E f \in Ends(op) :
           /\ Calls(op, active_run, f)
           /\ IF AllDone(f) THEN pc' = to /\ active_run' = NoRun /\ ok' = ok
              ELSE pc' = "done" /\ active_run' = active_run /\ ok' = FALSE
  BY DEF FinCalls, Fails
<1> USE DEF env, given, selection
<1>2. /\ (pc' = to /\ active_run' = NoRun /\ ok' = ok)
         \/ (pc' = "done" /\ active_run' = active_run /\ ok' = FALSE)
  BY <1>1
<1>3. /\ active_run' \in Runs \union {NoRun} /\ initialised' \in BOOLEAN
      /\ selected' \in Analysis \union {None} /\ requests' \in Seq(Analysis \union {None})
      /\ shots' \subseteq Analysis \X BOOLEAN \X BOOLEAN
  BY <1>1, <1>2 DEF IInv, InvCount, TypeOK
<1>4. InvPlace' /\ InvCount' /\ InvSeen' /\ InvRoot'
  BY <1>1, <1>2, <1>3, FinStep
<1>5. QED BY <1>1, <1>4, Zenon

LEMMA FinEndRunKeeps == ASSUME IInv, FinEndRun PROVE IInv'
<1> USE DEF env, given, selection
<1>1. CASE FinCalls("end", "fin end", "fin final")
  <2>1. "fin end" \in FinPlaces /\ "fin final" \in FinPlaces
    BY DEF FinPlaces
  <2>2. /\ pc = "fin end" /\ InvPlace' /\ InvCount' /\ InvSeen' /\ InvRoot'
        /\ UNCHANGED <<message, initialised, selected, shots, faults>>
        /\ \E f \in Ends("end") :
             /\ Calls("end", active_run, f)
             /\ IF AllDone(f) THEN pc' = "fin final" /\ active_run' = NoRun /\ ok' = ok
                ELSE pc' = "done" /\ active_run' = active_run /\ ok' = FALSE
    BY <1>1, <2>1, FinCallsStep, Zenon
  <2>3. PICK f \in Ends("end") :
          /\ Calls("end", active_run, f)
          /\ IF AllDone(f) THEN pc' = "fin final" /\ active_run' = NoRun /\ ok' = ok
             ELSE pc' = "done" /\ active_run' = active_run /\ ok' = FALSE
    BY <2>2
  <2>4. InvLife' /\ InvRuns' /\ InvInit' /\ InvMisuse' /\ InvOver' /\ InvDrawn'
    BY <2>2, <2>3, EndLife
  <2>5. QED BY <2>2, <2>4 DEF IInv
<1>2. CASE /\ active_run = NoRun /\ Goto("fin end", "fin final")
           /\ UNCHANGED <<loopVars, env, seen, rootVars, realtimeVars, selection, life, shots>>
  <2>1. /\ pc = "fin end" /\ pc' = "fin final" /\ active_run = NoRun
        /\ UNCHANGED <<idx, message, ok, env, seen, rootVars, realtimeVars, selection, life, shots>>
    BY <1>2 DEF Goto, loopVars
  <2> USE DEF realtimeVars
  <2>2. pc \in FinPlaces /\ pc' \in FinPlaces
    BY <2>1 DEF FinPlaces
  <2>3. InvPlace' /\ InvCount' /\ InvSeen' /\ InvRoot'
    BY <2>1, <2>2, FinStep DEF IInv, InvCount, TypeOK
  <2>4. (Orderly' <=> Orderly) /\ (Reliable' <=> Reliable)
    BY <2>1 DEF Orderly, Reliable
  <2>5. InvLife' /\ InvMisuse'
    BY <2>1 DEF IInv, InvLife, InvMisuse, EventsBelongToRun, AnalysesUsedInOrder
  <2>6. InvRuns'
    BY <2>1, <2>4 DEF IInv, InvRuns, PlotsShowOneRun
  <2>7. InvInit'
    BY <2>1, <2>4 DEF IInv, InvInit, DrawPlaces
  <2>8. InvOver'
    BY <2>1 DEF InvOver
  <2>9. InvDrawn'
    BY <2>1 DEF IInv, InvDrawn, SnapshotsAreUpToDate
  <2>10. QED BY <2>3, <2>5, <2>6, <2>7, <2>8, <2>9 DEF IInv
<1>3. QED BY <1>1, <1>2 DEF FinEndRun

LEMMA FinAnalysesKeeps == ASSUME IInv, FinAnalyses PROVE IInv'
<1>1. "fin final" \in FinPlaces /\ "fin redraw" \in FinPlaces
  BY DEF FinPlaces
<1>2. /\ pc = "fin final" /\ InvPlace' /\ InvCount' /\ InvSeen' /\ InvRoot'
      /\ UNCHANGED <<message, initialised, selected, shots, faults>>
      /\ \E f \in Ends("final") :
           /\ Calls("final", active_run, f)
           /\ IF AllDone(f) THEN pc' = "fin redraw" /\ active_run' = NoRun /\ ok' = ok
              ELSE pc' = "done" /\ active_run' = active_run /\ ok' = FALSE
  BY <1>1, FinCallsStep, Zenon DEF FinAnalyses
<1>3. InvLife' /\ InvRuns' /\ InvInit' /\ InvMisuse' /\ InvOver' /\ InvDrawn'
  BY <1>2, FinalLife, Zenon
<1>4. QED BY <1>2, <1>3 DEF IInv

-----------------------------------------------------------------------------
(* The environment, the initial states, and the theorems.                  *)

LEMMA SignalKeeps == ASSUME IInv, Signal PROVE IInv'
<1>1. /\ stop' = TRUE
      /\ UNCHANGED <<pc, loopVars, frames, given, seen, rootVars, realtimeVars, selection, life, shots>>
  BY DEF Signal
<1>2. stop' \in BOOLEAN /\ asked' \in 0 .. MaxRequests /\ requests' \in Seq(Analysis \union {None})
  BY <1>1 DEF IInv, InvCount, TypeOK, selection
<1>3. QED BY <1>1, <1>2, OutsideKeeps DEF selection

LEMMA RequestKeeps == ASSUME IInv, Request PROVE IInv'
<1>1. /\ asked < MaxRequests /\ asked' = asked + 1
      /\ \E a \in Analysis \union {None} : requests' = Append(requests, a)
      /\ UNCHANGED <<pc, loopVars, env, seen, rootVars, realtimeVars, selected, life, shots>>
  BY DEF Request
<1>2. /\ asked \in 0 .. MaxRequests /\ MaxRequests \in Nat /\ stop \in BOOLEAN
      /\ requests \in Seq(Analysis \union {None})
  BY PipelineAssumption DEF IInv, InvCount, TypeOK
<1>3. asked' \in 0 .. MaxRequests
  BY <1>1, <1>2
<1>4. requests' \in Seq(Analysis \union {None})
  BY <1>1, <1>2
<1>5. stop' \in BOOLEAN
  BY <1>1, <1>2 DEF env
<1>6. QED BY <1>1, <1>3, <1>4, <1>5, OutsideKeeps DEF env

LEMMA StutterKeeps == ASSUME IInv, UNCHANGED vars PROVE IInv'
<1> USE DEF vars, loopVars, env, given, rootVars, realtimeVars, selection
<1>1. stop' \in BOOLEAN /\ asked' \in 0 .. MaxRequests /\ requests' \in Seq(Analysis \union {None})
  BY DEF IInv, InvCount, TypeOK
<1>2. QED BY <1>1, OutsideKeeps

LEMMA Starts == Init => IInv
<1> SUFFICES ASSUME Init PROVE IInv
  OBVIOUS
<1>1. /\ pc = "loop" /\ idx = 0 /\ message = NoRun /\ ok = TRUE /\ stop = FALSE /\ frames = 0
      /\ supply \in 0 .. MaxFrames /\ faults \in FaultSets /\ seen = [i \in 1 .. 3 |-> 0]
      /\ root = "none" /\ root_finalised = FALSE
      /\ initialised = FALSE /\ active_run = NoRun /\ finalised = FALSE
      /\ selected = None /\ requests = <<>> /\ asked = 0
      /\ life = [a \in Analysis |-> Fresh] /\ shots = {}
  BY DEF Init
<1>2. /\ pc \notin OnHand /\ pc \notin Finishing /\ pc \notin BehindRoot /\ pc \notin DrawPlaces
      /\ pc \notin RtPlaces /\ pc \notin FinPlaces
  BY <1>1 DEF OnHand, RtPlaces, Finishing, BehindRoot, FinPlaces, DrawPlaces
<1>3. \A a \in Analysis : /\ life[a].inits = 0 /\ life[a].run = NoRun /\ life[a].plots = {}
                          /\ life[a].misuse = {} /\ life[a] \in Lives
  BY <1>1 DEF Fresh, Lives
<1>4. InvPlace
  BY <1>1, <1>2 DEF InvPlace
<1>5. InvCount
  <2>1. /\ MaxFrames \in Nat /\ MaxRequests \in Nat /\ MaxEvents \in Nat
    BY PipelineAssumption
  <2>2. /\ idx \in 0 .. frames /\ frames \in 0 .. MaxFrames /\ (MaxEvents > 0 => idx <= MaxEvents)
        /\ asked \in 0 .. MaxRequests /\ supply \in frames .. MaxFrames
    BY <1>1, <2>1
  <2>3. /\ message \in Runs \union {NoRun} /\ active_run \in Runs \union {NoRun}
        /\ {ok, stop, root_finalised, initialised, finalised} \subseteq BOOLEAN
        /\ root \in {"none", "open", "closed"} /\ faults \in FaultSets
    BY <1>1
  <2>4. /\ selected \in Analysis \union {None} /\ requests \in Seq(Analysis \union {None})
        /\ shots \subseteq Analysis \X BOOLEAN \X BOOLEAN
    BY <1>1
  <2>5. QED BY <1>2, <2>2, <2>3, <2>4 DEF InvCount, TypeOK
<1>6. InvSeen
  BY <1>1 DEF InvSeen, SinksInStep, Owed, RtPlaces
<1>7. InvRoot
  BY <1>1, <1>2, <1>3 DEF InvRoot
<1>8. InvLife
  BY <1>1, <1>3 DEF InvLife
<1>9. InvRuns
  BY <1>1, <1>3 DEF InvRuns, PlotsShowOneRun
<1>10. InvInit
  BY <1>1, <1>2, <1>3 DEF InvInit
<1>11. InvMisuse
  BY <1>3 DEF InvMisuse, EventsBelongToRun, AnalysesUsedInOrder
<1>12. InvOver
  BY <1>1 DEF InvOver
<1>13. InvDrawn
  BY <1>1 DEF InvDrawn, SnapshotsAreUpToDate
<1>14. QED BY <1>4, <1>5, <1>6, <1>7, <1>8, <1>9, <1>10, <1>11, <1>12, <1>13 DEF IInv

LEMMA StepKeeps == ASSUME IInv, [Next]_vars PROVE IInv'
<1>1. CASE Signal
  BY <1>1, SignalKeeps
<1>2. CASE Request
  BY <1>2, RequestKeeps
<1>3. CASE EndLoop \/ TakeFrame \/ Count \/ LoopFails
  BY <1>3, EndLoopKeeps, TakeFrameKeeps, CountKeeps, LoopFailsKeeps
<1>4. CASE Text \/ RootFile
  BY <1>4, TextKeeps, RootFileKeeps
<1>5. CASE RtInitialise
  BY <1>5, InitialiseKeeps, FirstDrawKeeps, SnapshotKeeps DEF RtInitialise
<1>6. CASE RtEndRun \/ RtBeginRun \/ RtEvents
  BY <1>6, RtEndRunKeeps, RtBeginRunKeeps, RtEventsKeeps
<1>7. CASE RtPump \/ RtSave \/ RtEnd
  BY <1>7, RtPumpKeeps, SnapshotKeeps, RtEndKeeps
<1>8. CASE FinaliseText \/ FinaliseRoot \/ FinaliseRealtime
  BY <1>8, FinaliseTextKeeps, FinaliseRootKeeps, FinaliseRealtimeKeeps
<1>9. CASE FinInitialise
  BY <1>9, InitialiseKeeps, FirstDrawKeeps, SnapshotKeeps DEF FinInitialise
<1>10. CASE FinEndRun \/ FinAnalyses \/ FinRedraw \/ FinSave
  BY <1>10, FinEndRunKeeps, FinAnalysesKeeps, FirstDrawKeeps, SnapshotKeeps DEF FinRedraw
<1>11. CASE Done \/ UNCHANGED vars
  BY <1>11, StutterKeeps DEF Done
<1>12. QED BY <1>1, <1>2, <1>3, <1>4, <1>5, <1>6, <1>7, <1>8, <1>9, <1>10, <1>11 DEF Next, Datamon

\* What is known of datamon's thread at each of its places (pipeline.cpp:24-68,
\* sink_realtime.cpp:374-430) holds in every state.
THEOREM PipelineInductive == Spec => []IInv
<1>1. Init => IInv
  BY Starts
<1>2. IInv /\ [Next]_vars => IInv'
  BY StepKeeps
<1>3. QED BY <1>1, <1>2, PTL DEF Spec

\* The sinks are never more than one message apart, none takes another after a
\* failure, and what is drawn and saved belongs to the run that is on, for any
\* number of analyses, whichever of them fail (pipeline.cpp:53,
\* sink_realtime.cpp:266, 378).
THEOREM SinksCorrect == Spec => []SinksAgree
<1>1. IInv => SinksAgree
  BY DEF IInv, InvCount, InvSeen, InvRuns, InvMisuse, InvDrawn, SinksAgree
<1>2. QED BY <1>1, PipelineInductive, PTL

\* Analyses that do not fail themselves are called in the order they are written
\* for, whatever else fails (sink_realtime.cpp:374-385, 407).
THEOREM AnalysesCorrect == Spec => []AnalysesUsedInOrder
<1>1. IInv => AnalysesUsedInOrder
  BY DEF IInv, InvMisuse
<1>2. QED BY <1>1, PipelineInductive, PTL

\* However Run ends, no file is left open and no run of an analysis unfinished:
\* finalise_sinks may stop at the first failure, in the order in which datamon
\* builds the sinks (pipeline.cpp:21, datamon.cpp:407-486).
THEOREM FinaliseCorrect == Spec => []NothingLeftOpen
<1>1. IInv => NothingLeftOpen
  <2>1. SUFFICES ASSUME IInv, pc = "done" PROVE NothingLeftOpen
    BY DEF NothingLeftOpen
  <2>2. root # "open"
    BY <2>1 DEF IInv, InvRoot, BehindRoot
  <2>3. Reliable => \A a \in Analysis : life[a].inits # 0 => life[a].run = NoRun /\ life[a].over
    BY <2>1 DEF IInv, InvOver
  <2>4. QED BY <2>2, <2>3 DEF NothingLeftOpen, Reliable
<1>2. QED BY <1>1, PipelineInductive, PTL

\* When datamon's Run returns true, every sink has taken every frame, the ROOT
\* file is closed and all analyses are finalised.
THEOREM SuccessCorrect == Spec => []SuccessMeansComplete
<1>1. IInv => SuccessMeansComplete
  <2>1. SUFFICES ASSUME IInv, pc = "done", ok PROVE SuccessMeansComplete
    BY DEF SuccessMeansComplete
  <2>2. \A i \in 1 .. 3 : ~Owed(i)
    BY <2>1 DEF Owed, RtPlaces
  <2>3. \A i \in 1 .. 3 : Built(Sinks[i]) => seen[i] = frames
    BY <2>1, <2>2 DEF IInv, InvSeen
  <2>4. HasRoot => root = "closed"
    BY <2>1 DEF IInv, InvRoot, BehindRoot
  <2>5. \A a \in Analysis : life[a].over
    BY <2>1 DEF IInv, InvOver
  <2>6. QED BY <2>3, <2>4, <2>5 DEF SuccessMeansComplete
<1>2. QED BY <1>1, PipelineInductive, PTL
=============================================================================
