------------------------ MODULE ExecutionContextProofs ------------------------
(***************************************************************************)
(* Proofs about ExecutionContext, for any programs, requests and scenes.    *)
(***************************************************************************)
EXTENDS ExecutionContext, WellFoundedInduction, SequenceTheorems, TLAPS

-----------------------------------------------------------------------------
(* The invariants.                                                          *)

\* The writer of a checkpoint has the lock, and a snapshot between what is on
\* disk and what is in memory.
CheckpointInv ==
    /\ \A t \in Workers : worker[t].pc \in {"write", "stamp"} => persistMu = t
    /\ saved.rev <= execution.rev /\ execution.rev <= revision
    /\ \A t \in Workers : worker[t].pc = "write" =>
           saved.rev <= worker[t].snap.rev /\ worker[t].snap.rev <= execution.rev

\* Context a stands for the commands of context c.
Told == {"log", "api", "active_gcode"}
Keeps(a, c) == a.dir = c.dir /\ (c.source \in Told => a.source = c.source /\ a.s = c.s)

\* Somebody is about to write what is in memory, or is writing it, or it is written.
Waiting == \E t \in Workers : worker[t].pc = "lock" /\ worker[t].force
Writing == \E t \in Workers : worker[t].pc = "write"
DurableInv ==
    "fail" \notin scene.requests /\ ~Waiting =>
        /\ \A t \in Workers : worker[t].pc = "write" => Keeps(worker[t].snap, execution)
        /\ Writing \/ Keeps(saved, execution)

\* What was said to the spindle by the first n lines of f still holds.
Follows(f, n, words) ==
    /\ f \in Files /\ n \in 0 .. Lines(f)
    /\ SpindleAt(f)[n].dir # 0 => words.m = SpindleAt(f)[n].dir
    /\ SpindleAt(f)[n].s # 0 => words.s = SpindleAt(f)[n].s

\* Where nobody else speaks to the spindle, a report shows it as the program does.
SpindleInv ==
    scene.words = {} =>
        /\ fw.file # None => Follows(fw.file, fw.line, [m |-> fw.dir, s |-> fw.s])
        /\ status # None /\ status.file # None => Follows(status.file, status.line, status.seen)
        /\ LET w == worker["status"]
           IN  /\ (w.pc = "recover" \/ w.then = "recover") /\ w.seen # NoWords
                    => Follows(w.path, w.line, w.seen)
               /\ w.pc = "recovered" /\ w.seen # NoWords
                    => w.snap.dir = w.seen.m /\ w.snap.s = w.seen.s

\* Only the status observer scans programs, and it records no command.
ObserverInv ==
    /\ \A t \in Workers \ {"status"} : worker[t].then = "idle" /\ worker[t].pc \notin {"recover", "recovered"}
    /\ worker["status"].pc # "record"

\* A selection that nothing else touched is in the store, and its file is known.
OwnInv ==
    own # None =>
        /\ stored = own /\ active.path = own
        /\ entries[own].known
        /\ ~(get.pc = "clear" /\ get.path = own)

IInv == TypeOK /\ CheckpointInv /\ DurableInv /\ SpindleInv /\ ObserverInv /\ OwnInv

-----------------------------------------------------------------------------
(* Lines of programs.                                                       *)

\* A set of naturals that is not empty has a least member.
LEMMA Least ==
    ASSUME NEW S \in SUBSET Nat, S # {}
    PROVE  \E n \in S : \A k \in S : n <= k
<1>1. PICK n \in S : \A k \in S : <<k, n>> \notin OpToRel(<, Nat)
  BY NatLessThanWellFounded, WFMin
<1>2. \A k \in S : ~(k < n)
  BY <1>1 DEF OpToRel
<1> QED BY <1>2

SpindleStates == [dir : Directions, s : {0} \cup Speeds, rpm : {0} \cup Speeds]
AtRest == [dir |-> 0, s |-> 0, rpm |-> 0]

LEMMA LineTyped ==
    ASSUME NEW f \in Files, NEW n \in 1 .. Lines(f)
    PROVE  Program[f][n] \in Words /\ (Program[f][n].s = Silent \/ Program[f][n].s \in Speeds)
<1>1. Program[f] \in Seq(Words) /\ Lines(f) \in Nat
  BY ActiveAssumption DEF Lines
<1>2. Program[f][n] \in Words
  BY <1>1 DEF Lines
<1>3. Program[f][n].s \in UNION {{Program[g][k].s : k \in 1 .. Lines(g)} : g \in Files}
  <2>1. Program[f][n].s \in {Program[f][k].s : k \in 1 .. Lines(f)}
    OBVIOUS
  <2>2. {Program[f][k].s : k \in 1 .. Lines(f)} \in {{Program[g][k].s : k \in 1 .. Lines(g)} : g \in Files}
    OBVIOUS
  <2> QED BY <2>1, <2>2
<1> QED BY <1>2, <1>3 DEF Speeds

LEMMA SpokenTyped ==
    ASSUME NEW sp \in SpindleStates, NEW w \in Words, w.s = Silent \/ w.s \in {0} \cup Speeds
    PROVE  Spoken(sp, w) \in SpindleStates
<1>1. sp.s \in {0} \cup Speeds /\ sp.dir \in Directions /\ sp.rpm \in {0} \cup Speeds /\ w.m \in {0, 3, 4, 5}
  BY DEF SpindleStates, Words
<1> DEFINE s == IF w.s = Silent THEN sp.s ELSE w.s
<1> DEFINE dir == IF w.m \in {3, 4} THEN w.m ELSE sp.dir
<1> DEFINE on == IF w.m \in {3, 4} THEN TRUE ELSE w.m # 5 /\ sp.rpm > 0
<1>2. s \in {0} \cup Speeds /\ dir \in Directions
  BY <1>1 DEF Directions
<1>3. Spoken(sp, w) = [sp EXCEPT !.s = s, !.dir = dir, !.rpm = IF on THEN s ELSE 0]
  BY DEF Spoken
<1> HIDE DEF s, dir, on
<1> QED BY <1>2, <1>3 DEF SpindleStates

\* The spindle after each line of a program is what the recursion says.
LEMMA SpindleDefined ==
    ASSUME NEW f \in Files
    PROVE  /\ SpindleAt(f)[0] = AtRest
           /\ \A n \in 1 .. Lines(f) : SpindleAt(f)[n] = Spoken(SpindleAt(f)[n - 1], Program[f][n])
<1> DEFINE Step(g, n) == IF n = 0 THEN AtRest ELSE Spoken(g[n - 1], Program[f][n])
<1> DEFINE Good(g, m) == g = [n \in 0 .. m |-> Step(g, n)]
<1> DEFINE Bad == {m \in Nat : m <= Lines(f) /\ ~ \E g : Good(g, m)}
<1>1. Lines(f) \in Nat
  BY ActiveAssumption DEF Lines
<1>2. Bad = {}
  <2> SUFFICES ASSUME Bad # {} PROVE FALSE
    OBVIOUS
  <2>1. PICK m \in Bad : \A k \in Bad : m <= k
    BY Least
  <2>2. m \in Nat /\ m <= Lines(f) /\ ~ \E g : Good(g, m)
    BY <2>1
  <2>3. CASE m = 0
    <3> DEFINE g == [n \in 0 .. 0 |-> AtRest]
    <3>1. g = [n \in 0 .. 0 |-> Step(g, n)]
      OBVIOUS
    <3> QED BY <2>2, <2>3, <3>1
  <2>4. CASE m # 0
    <3>1. m - 1 \in Nat /\ m - 1 \notin Bad
      BY <2>1, <2>2, <2>4
    <3>2. PICK g : Good(g, m - 1)
      <4> HIDE DEF Good
      <4> QED BY <1>1, <2>2, <3>1
    <3> DEFINE h == [n \in 0 .. m |-> IF n = m THEN Spoken(g[m - 1], Program[f][m]) ELSE g[n]]
    <3>3. \A n \in 0 .. m - 1 : g[n] = Step(g, n) /\ h[n] = g[n]
      BY <2>2, <3>2
    <3>4. ASSUME NEW n \in 0 .. m PROVE h[n] = Step(h, n)
      <4>1. CASE n = m
        <5>1. h[n] = Spoken(g[m - 1], Program[f][m])
          BY <4>1
        <5>2. m - 1 \in 0 .. m - 1 /\ h[m - 1] = g[m - 1]
          BY <2>2, <2>4, <3>3
        <5> QED BY <2>4, <4>1, <5>1, <5>2
      <4>2. CASE n # m
        <5>1. n \in 0 .. m - 1
          BY <2>2, <4>2
        <5>m. h[n] = Step(g, n)
          <6> HIDE DEF Step, h
          <6> QED BY <3>3, <5>1
        <5>2. n # 0 => n - 1 \in 0 .. m - 1 /\ h[n - 1] = g[n - 1]
          BY <2>2, <3>3, <5>1
        <5> QED BY <5>m, <5>2
      <4> QED BY <4>1, <4>2
    <3>5. Good(h, m)
      <4> HIDE DEF Step
      <4> QED BY <3>4
    <3> QED BY <2>2, <3>5
  <2> QED BY <2>3, <2>4
<1>3. \E g : Good(g, Lines(f))
  <2>1. Lines(f) \notin Bad
    BY <1>2
  <2> QED BY <1>1, <2>1
<1>4. Good(SpindleAt(f), Lines(f))
  <2>1. SpindleAt(f) = CHOOSE g : Good(g, Lines(f))
    BY DEF SpindleAt, AtRest
  <2> HIDE DEF Good
  <2> QED BY <1>3, <2>1
<1> QED
  <2>1. \A n \in 0 .. Lines(f) : SpindleAt(f)[n] = Step(SpindleAt(f), n)
    <3> HIDE DEF Step
    <3> QED BY <1>4
  <2> QED BY <1>1, <2>1

LEMMA SpindleTyped ==
    ASSUME NEW f \in Files
    PROVE  \A n \in 0 .. Lines(f) : SpindleAt(f)[n] \in SpindleStates
<1> DEFINE Bad == {n \in 0 .. Lines(f) : SpindleAt(f)[n] \notin SpindleStates}
<1>1. Lines(f) \in Nat
  BY ActiveAssumption DEF Lines
<1> SUFFICES ASSUME Bad # {} PROVE FALSE
  OBVIOUS
<1>2. Bad \in SUBSET Nat
  OBVIOUS
<1>3. PICK m \in Bad : \A k \in Bad : m <= k
  BY <1>2, Least
<1>4. m \in 0 .. Lines(f) /\ SpindleAt(f)[m] \notin SpindleStates
  BY <1>3
<1>5. m # 0
  <2>1. AtRest \in SpindleStates
    BY DEF AtRest, SpindleStates, Directions
  <2>2. SpindleAt(f)[0] = AtRest
    BY SpindleDefined
  <2>3. m = 0 => SpindleAt(f)[m] = AtRest
    BY <2>2
  <2> HIDE DEF Bad
  <2> QED BY <1>4, <2>1, <2>3
<1>6. m \in 1 .. Lines(f) /\ m - 1 \in 0 .. Lines(f) /\ m - 1 \notin Bad
  <2>1. m \in 1 .. Lines(f) /\ m - 1 \in 0 .. Lines(f) /\ m - 1 < m /\ m - 1 \in Nat
    BY <1>1, <1>4, <1>5
  <2>2. ~(m <= m - 1)
    BY <2>1
  <2> HIDE DEF Bad
  <2> QED BY <1>3, <2>1, <2>2
<1>7. SpindleAt(f)[m - 1] \in SpindleStates
  BY <1>6
<1>8. SpindleAt(f)[m] = Spoken(SpindleAt(f)[m - 1], Program[f][m])
  BY <1>6, SpindleDefined
<1> QED BY <1>4, <1>6, <1>7, <1>8, LineTyped, SpokenTyped

-----------------------------------------------------------------------------
(* Types of the selection.                                                  *)

LEMMA SpendKeeps ==
    ASSUME scene \in Bounds, NEW what, Spend(what)
    PROVE  /\ scene' \in Bounds
           /\ scene'.requests = scene.requests /\ scene'.words = scene.words /\ scene'.context = scene.context
BY DEF Spend, Bounds

LEMMA SpokenMachine ==
    ASSUME NEW m \in Machines, NEW w \in Words, w.s = Silent \/ w.s \in {0} \cup Speeds
    PROVE  /\ Spoken(m, w) \in Machines
           /\ Spoken(m, w).state = m.state /\ Spoken(m, w).file = m.file /\ Spoken(m, w).line = m.line
           /\ Spoken(m, w).dir = IF w.m \in {3, 4} THEN w.m ELSE m.dir
           /\ Spoken(m, w).s = IF w.s = Silent THEN m.s ELSE w.s
<1>1. m.s \in {0} \cup Speeds /\ m.dir \in Directions /\ m.rpm \in {0} \cup Speeds /\ w.m \in {0, 3, 4, 5}
  BY DEF Machines, Words
<1> DEFINE s == IF w.s = Silent THEN m.s ELSE w.s
<1> DEFINE dir == IF w.m \in {3, 4} THEN w.m ELSE m.dir
<1> DEFINE rpm == IF (IF w.m \in {3, 4} THEN TRUE ELSE w.m # 5 /\ m.rpm > 0) THEN s ELSE 0
<1>2. s \in {0} \cup Speeds /\ dir \in Directions /\ rpm \in {0} \cup Speeds
  BY <1>1 DEF Directions
<1>3. Spoken(m, w) = [m EXCEPT !.s = s, !.dir = dir, !.rpm = rpm]
  BY DEF Spoken
<1> DEFINE r == Spoken(m, w)
<1>4. r = [m EXCEPT !.s = s, !.dir = dir, !.rpm = rpm]
  BY <1>3
<1>5. r \in Machines /\ r.state = m.state /\ r.file = m.file /\ r.line = m.line /\ r.dir = dir /\ r.s = s
  <2> HIDE DEF s, dir, rpm, r
  <2> QED BY <1>2, <1>4 DEF Machines
<1> QED BY <1>5

LEMMA BeginTyped ==
    ASSUME ActiveTypeOK, NEW f \in Files, Begin(f)
    PROVE  /\ fw' \in Machines /\ fw'.state = "Run" /\ fw'.file = f /\ fw'.line = 0
           /\ fw'.dir = fw.dir /\ fw'.s = fw.s
           /\ scene' \in Bounds
           /\ scene'.requests = scene.requests /\ scene'.words = scene.words /\ scene'.context = scene.context
<1>1. fw \in Machines /\ scene \in Bounds /\ scene.jobs > 0
  BY DEF ActiveTypeOK, Begin, CanBegin
<1>2. fw' = [fw EXCEPT !.state = "Run", !.file = f, !.line = 0, !.job = 1 - fw.job]
  BY DEF Begin
<1>3. 1 - fw.job \in {0, 1}
  BY <1>1 DEF Machines
<1>4. fw' \in Machines /\ fw'.state = "Run" /\ fw'.file = f /\ fw'.line = 0 /\ fw'.dir = fw.dir /\ fw'.s = fw.s
  BY <1>1, <1>2, <1>3 DEF Machines, States, Playing, Paths
<1>5. scene' = [scene EXCEPT !.jobs = scene.jobs - 1] /\ scene.jobs - 1 \in Nat
  BY <1>1 DEF Begin, Bounds
<1> QED BY <1>1, <1>4, <1>5 DEF Bounds

\* What one line of the program does.
LEMMA PlayLineTyped ==
    ASSUME ActiveTypeOK, PlayLine
    PROVE  /\ fw' \in Machines /\ (fw'.state \in Playing <=> fw'.file # None)
           /\ \/ fw'.file = None
              \/ LET w == Program[fw.file][fw.line + 1]
                 IN  /\ fw.file \in Files /\ fw'.file = fw.file /\ fw.line < Lines(fw.file)
                     /\ fw'.line = fw.line + 1
                     /\ fw'.dir = (IF w.m \in {3, 4} THEN w.m ELSE fw.dir)
                     /\ fw'.s = (IF w.s = Silent THEN fw.s ELSE w.s)
<1>1. fw \in Machines /\ fw.state = "Run" /\ fw.file \in Files /\ fw.line \in Nat
  BY DEF ActiveTypeOK, PlayLine, Playing, Machines, Paths
<1>2. CASE fw.line < Lines(fw.file) /\ fw' = Spoken([fw EXCEPT !.line = @ + 1], Program[fw.file][fw.line + 1])
  <2> DEFINE m == [fw EXCEPT !.line = fw.line + 1]
  <2> DEFINE w == Program[fw.file][fw.line + 1]
  <2>1. Lines(fw.file) \in Nat
    BY <1>1, ActiveAssumption DEF Lines
  <2>2. w \in Words /\ (w.s = Silent \/ w.s \in {0} \cup Speeds)
    BY <1>1, <1>2, <2>1, LineTyped
  <2>3. m \in Machines /\ m.line = fw.line + 1 /\ m.file = fw.file /\ m.state = "Run" /\ m.dir = fw.dir /\ m.s = fw.s
    BY <1>1 DEF Machines
  <2>4. fw' = Spoken(m, w)
    BY <1>2
  <2> HIDE DEF m, w
  <2>5. /\ fw' \in Machines /\ fw'.state = "Run" /\ fw'.file = fw.file /\ fw'.line = fw.line + 1
        /\ fw'.dir = (IF w.m \in {3, 4} THEN w.m ELSE fw.dir) /\ fw'.s = (IF w.s = Silent THEN fw.s ELSE w.s)
    BY <2>2, <2>3, <2>4, SpokenMachine
  <2> QED BY <1>1, <1>2, <2>5, ActiveAssumption DEF Playing, w
<1>3. CASE fw' = [fw EXCEPT !.state = "Idle", !.file = None, !.line = 0, !.rpm = 0]
  BY <1>1, <1>3 DEF Machines, States, Playing, Paths
<1> QED BY <1>2, <1>3 DEF PlayLine

LEMMA FetchedTyped ==
    ASSUME ActiveTypeOK, NEW f \in Files
    PROVE  /\ Fetched(f) \in [Files -> Entries]
           /\ \A g \in Files : Fetched(f)[g].known = entries[g].known
<1>1. entries[f] \in Entries /\ onMachine[f] \in Versions
  BY DEF ActiveTypeOK
<1> DEFINE e == [entries[f] EXCEPT !.sync = "synced", !.cache = "ready", !.ver = onMachine[f]]
<1>2. e \in Entries /\ e.known = entries[f].known
  BY <1>1 DEF Entries, CacheStates
<1>3. Fetched(f) \in {entries, [entries EXCEPT ![f] = e]}
  BY DEF Fetched
<1> HIDE DEF e
<1>4. entries \in [Files -> Entries]
  BY DEF ActiveTypeOK
<1> QED BY <1>2, <1>3, <1>4

LEMMA MachineTyped ==
    ASSUME ActiveTypeOK, Machine
    PROVE  ActiveTypeOK'
<1>1. CASE PlayLine
  BY <1>1, PlayLineTyped DEF ActiveTypeOK, PlayLine, selectVars, probeVars
<1>2. CASE PauseResume
  <2>1. fw' \in Machines /\ fw'.state \in Playing /\ fw'.file = fw.file /\ fw.state \in Playing
    BY <1>2 DEF PauseResume, ActiveTypeOK, Machines, States, Playing
  <2> QED BY <1>2, <2>1 DEF ActiveTypeOK, PauseResume, selectVars, probeVars
<1>3. ASSUME NEW f \in Files, Play(f) PROVE ActiveTypeOK'
  <2>1. fw' \in Machines /\ fw'.state = "Run" /\ fw'.file = f /\ scene' \in Bounds
    BY <1>3, BeginTyped DEF Play
  <2> QED BY <1>3, <2>1, ActiveAssumption DEF ActiveTypeOK, Play, selectVars, probeVars, Playing
<1> QED BY <1>1, <1>2, <1>3 DEF Machine

LEMMA CatalogTyped ==
    ASSUME ActiveTypeOK, Catalog
    PROVE  ActiveTypeOK'
<1>1. ASSUME NEW f \in Files, Upload(f) PROVE ActiveTypeOK'
  <2>1. entries[f] \in Entries /\ entries[f].ver < MaxVersion
    BY <1>1 DEF ActiveTypeOK, Upload
  <2>2. [known |-> TRUE, sync |-> "pending_upload", cache |-> "ready", ver |-> entries[f].ver + 1] \in Entries
    BY <2>1, ActiveAssumption DEF Entries, CacheStates, Versions
  <2>3. entries' \in [Files -> Entries]
    BY <1>1, <2>2 DEF Upload, ActiveTypeOK
  <2>4. scene' \in Bounds
    BY <1>1, SpendKeeps DEF Upload, ActiveTypeOK
  <2> QED BY <1>1, <2>3, <2>4 DEF ActiveTypeOK, Upload, selectVars, probeVars
<1>2. ASSUME NEW f \in Files, Uploaded(f) PROVE ActiveTypeOK'
  <2>1. entries[f] \in Entries
    BY DEF ActiveTypeOK
  <2>2. entries[f].ver \in Versions /\ [entries[f] EXCEPT !.sync = "synced"] \in Entries
    BY <2>1 DEF Entries
  <2>3. entries' \in [Files -> Entries] /\ onMachine' \in [Files -> Versions]
    BY <1>2, <2>2 DEF Uploaded, ActiveTypeOK
  <2> QED BY <1>2, <2>3 DEF ActiveTypeOK, Uploaded, selectVars, probeVars
<1>3. ASSUME NEW f \in Files, Deleted(f) PROVE ActiveTypeOK'
  <2>1. NoEntry \in Entries /\ 0 \in Versions
    BY ActiveAssumption DEF NoEntry, Entries, CacheStates, Versions
  <2>2. entries' \in [Files -> Entries] /\ onMachine' \in [Files -> Versions] /\ own' \in Paths
    BY <1>3, <2>1 DEF Deleted, ActiveTypeOK, Paths
  <2>3. scene' \in Bounds
    BY <1>3, SpendKeeps DEF Deleted, ActiveTypeOK
  <2> QED BY <1>3, <2>2, <2>3 DEF ActiveTypeOK, Deleted, probeVars
<1> QED BY <1>1, <1>2, <1>3 DEF Catalog

LEMMA SelectTyped ==
    ASSUME ActiveTypeOK, Select
    PROVE  ActiveTypeOK'
<1>1. ASSUME NEW f \in Files, SelectOpen(f) PROVE ActiveTypeOK'
  <2>1. entries' \in [Files -> Entries]
    BY <1>1, FetchedTyped DEF SelectOpen, ActiveTypeOK
  <2>2. entries'[f].ver \in Versions
    BY <2>1 DEF Entries
  <2>3. select' = [pc |-> "store", path |-> f, ver |-> entries'[f].ver]
    BY <1>1 DEF SelectOpen
  <2>4. select' \in [pc : {"idle", "store", "publish"}, path : Paths, ver : Versions] /\ select'.path # None
    BY <2>2, <2>3, ActiveAssumption DEF Paths
  <2>5. scene' \in Bounds
    BY <1>1, SpendKeeps DEF SelectOpen, ActiveTypeOK
  <2> QED BY <1>1, <2>1, <2>4, <2>5 DEF ActiveTypeOK, SelectOpen, probeVars
<1>2. CASE SelectStore
  <2>1. select' = [select EXCEPT !.pc = "publish"] /\ select.pc # "idle" /\ stored' = select.path /\ own' = None
    BY <1>2 DEF SelectStore
  <2>2. /\ select' \in [pc : {"idle", "store", "publish"}, path : Paths, ver : Versions]
        /\ select'.path = select.path /\ stored' \in Paths /\ own' \in Paths
    BY <2>1 DEF ActiveTypeOK, Paths
  <2> QED BY <1>2, <2>1, <2>2 DEF ActiveTypeOK, SelectStore, probeVars
<1>3. CASE SelectPublish
  <2>1. select.path \in Paths /\ select.ver \in Versions
    BY DEF ActiveTypeOK
  <2>2. active' \in Actives /\ own' \in Paths
    BY <1>3, <2>1 DEF SelectPublish, Actives, Paths
  <2>3. /\ select' \in [pc : {"idle", "store", "publish"}, path : Paths, ver : Versions]
        /\ select'.pc = "idle"
    BY <1>3, ActiveAssumption DEF SelectPublish, NoSelect, Paths, Versions
  <2> QED BY <1>3, <2>2, <2>3 DEF ActiveTypeOK, SelectPublish, probeVars
<1> QED BY <1>1, <1>2, <1>3 DEF Select

\* What a read becomes; past its first look it has a path.
GetShape(g) ==
    /\ g \in [pc : GetPCs, window : BOOLEAN, mem : Actives, path : Paths, ver : Versions]
    /\ g.pc \notin {"idle", "ensure", "active", "stored", "reread"} => g.path # None

LEMMA GetBecomes ==
    ASSUME ActiveTypeOK, GetShape(get'), answer' \in Answers, active' \in Actives, stored' \in Paths,
           own' \in Paths, scene' \in Bounds,
           UNCHANGED <<fw, onMachine, entries, select, launch, probeVars, status>>
    PROVE  ActiveTypeOK'
BY DEF ActiveTypeOK, GetShape, probeVars

LEMMA GetFields ==
    ASSUME ActiveTypeOK
    PROVE  /\ GetShape(get) /\ get.mem \in Actives /\ get.path \in Paths /\ get.ver \in Versions /\ get.window \in BOOLEAN
           /\ active \in Actives /\ active.path \in Paths /\ active.ver \in Versions
           /\ 0 \in Versions /\ 1 \in Versions /\ NoActive \in Actives /\ GetShape(NoGet)
           /\ answer \in Answers
<1>1. 0 \in Versions /\ 1 \in Versions
  BY ActiveAssumption DEF Versions
<1>2. NoActive \in Actives
  BY <1>1 DEF NoActive, Actives, Paths
<1>3. GetShape(NoGet)
  BY <1>1, <1>2 DEF GetShape, NoGet, GetPCs, Paths
<1> QED BY <1>1, <1>2, <1>3 DEF ActiveTypeOK, GetShape, Actives

\* A read with another step, path, version or preview.
LEMMA GetGoesOn ==
    ASSUME ActiveTypeOK, NEW pc \in GetPCs, NEW path \in Paths, NEW ver \in Versions, NEW mem \in Actives,
           pc \notin {"idle", "ensure", "active", "stored", "reread"} => path # None
    PROVE  GetShape([get EXCEPT !.pc = pc, !.path = path, !.ver = ver, !.mem = mem])
<1>1. get \in [pc : GetPCs, window : BOOLEAN, mem : Actives, path : Paths, ver : Versions]
  BY DEF ActiveTypeOK
<1> DEFINE g == [get EXCEPT !.pc = pc, !.path = path, !.ver = ver, !.mem = mem]
<1>2. g \in [pc : GetPCs, window : BOOLEAN, mem : Actives, path : Paths, ver : Versions] /\ g.pc = pc /\ g.path = path
  BY <1>1
<1>3. GetShape(g)
  <2> HIDE DEF g
  <2> QED BY <1>2 DEF GetShape
<1> QED BY <1>3

LEMMA GetMoves ==
    ASSUME ActiveTypeOK, NEW pc \in GetPCs
    PROVE  /\ (pc \notin {"idle", "ensure", "active", "stored", "reread"} => get.path # None)
                => GetShape([get EXCEPT !.pc = pc])
           /\ \A path \in Paths : (pc \notin {"idle", "ensure", "active", "stored", "reread"} => path # None)
                => GetShape([get EXCEPT !.pc = pc, !.path = path])
           /\ \A ver \in Versions : (pc \notin {"idle", "ensure", "active", "stored", "reread"} => get.path # None)
                => GetShape([get EXCEPT !.pc = pc, !.ver = ver])
<1>1. get \in [pc : GetPCs, window : BOOLEAN, mem : Actives, path : Paths, ver : Versions]
  BY DEF ActiveTypeOK
<1>2. /\ [get EXCEPT !.pc = pc] = [get EXCEPT !.pc = pc, !.path = get.path, !.ver = get.ver, !.mem = get.mem]
      /\ \A path \in Paths : [get EXCEPT !.pc = pc, !.path = path]
                                = [get EXCEPT !.pc = pc, !.path = path, !.ver = get.ver, !.mem = get.mem]
      /\ \A ver \in Versions : [get EXCEPT !.pc = pc, !.ver = ver]
                                = [get EXCEPT !.pc = pc, !.path = get.path, !.ver = ver, !.mem = get.mem]
  BY <1>1
<1>3. get.path \in Paths /\ get.ver \in Versions /\ get.mem \in Actives
  BY <1>1
<1>4. ASSUME pc \notin {"idle", "ensure", "active", "stored", "reread"} => get.path # None
      PROVE  GetShape([get EXCEPT !.pc = pc])
  <2>1. GetShape([get EXCEPT !.pc = pc, !.path = get.path, !.ver = get.ver, !.mem = get.mem])
    BY <1>3, <1>4, GetGoesOn
  <2> QED BY <1>2, <2>1
<1>5. ASSUME NEW path \in Paths, pc \notin {"idle", "ensure", "active", "stored", "reread"} => path # None
      PROVE  GetShape([get EXCEPT !.pc = pc, !.path = path])
  <2>1. GetShape([get EXCEPT !.pc = pc, !.path = path, !.ver = get.ver, !.mem = get.mem])
    BY <1>3, <1>5, GetGoesOn
  <2> QED BY <1>2, <2>1
<1>6. ASSUME NEW ver \in Versions, pc \notin {"idle", "ensure", "active", "stored", "reread"} => get.path # None
      PROVE  GetShape([get EXCEPT !.pc = pc, !.ver = ver])
  <2>1. GetShape([get EXCEPT !.pc = pc, !.path = get.path, !.ver = ver, !.mem = get.mem])
    BY <1>3, <1>6, GetGoesOn
  <2> QED BY <1>2, <2>1
<1> QED BY <1>4, <1>5, <1>6

LEMMA AnswerTyped ==
    ASSUME ActiveTypeOK, NEW path \in Paths, NEW ver \in Versions, NEW preview \in Versions, Answer(path, ver, preview)
    PROVE  GetShape(get') /\ answer' \in Answers
<1>1. CASE get.window
  <2>1. get' = [get EXCEPT !.pc = "reread"] /\ answer' = answer
    BY <1>1 DEF Answer
  <2> QED BY <2>1, GetMoves, GetFields DEF GetPCs
<1>2. CASE ~get.window
  BY <1>2, GetFields DEF Answer, Answers
<1> QED BY <1>1, <1>2

LEMMA WindowTyped ==
    ASSUME ActiveTypeOK, Window(active)
    PROVE  GetShape(get') /\ answer' \in Answers
BY GetFields DEF Window, Answers

LEMMA GetTyped ==
    ASSUME ActiveTypeOK, Get
    PROVE  ActiveTypeOK'
<1>f. /\ GetShape(get) /\ get.mem \in Actives /\ get.path \in Paths /\ get.ver \in Versions /\ get.window \in BOOLEAN
      /\ active \in Actives /\ active.path \in Paths /\ active.ver \in Versions
      /\ 0 \in Versions /\ 1 \in Versions /\ NoActive \in Actives /\ GetShape(NoGet)
      /\ answer \in Answers
  BY GetFields
<1>t. stored \in Paths /\ own \in Paths /\ scene \in Bounds /\ entries \in [Files -> Entries]
  BY DEF ActiveTypeOK
<1>e. \A f \in Files : entries[f].ver \in Versions /\ ReadCache(f) \in Versions
  BY <1>t, <1>f DEF Entries, ReadCache
<1>n. None \in Paths
  BY DEF Paths
<1>1. ASSUME NEW w \in BOOLEAN, Start(w) PROVE ActiveTypeOK'
  <2>1. scene' \in Bounds
    BY <1>1, <1>t, SpendKeeps DEF Start
  <2>2. get' = [NoGet EXCEPT !.pc = IF w THEN "ensure" ELSE "active", !.window = w]
    BY <1>1 DEF Start
  <2>3. GetShape(get')
    BY <2>2, <1>f DEF GetShape, GetPCs, NoGet
  <2> QED BY <1>1, <1>t, <1>f, <2>1, <2>3, GetBecomes DEF Start
<1>2. CASE EnsureStored
  <2>1. get' = [get EXCEPT !.path = stored, !.ver = 1] /\ get.pc = "ensure"
    BY <1>2 DEF EnsureStored
  <2>2. GetShape(get')
    BY <1>f, <1>t, <2>1 DEF GetShape
  <2> QED BY <1>2, <1>t, <1>f, <2>2, GetBecomes DEF EnsureStored
<1>3. CASE EnsureActive
  <2>1. GetShape([NoGet EXCEPT !.pc = "active", !.window = TRUE])
    BY <1>f DEF GetShape, GetPCs, NoGet
  <2>2. GetShape(get') /\ answer' \in Answers
    BY <1>3, <1>f, <2>1, WindowTyped DEF EnsureActive
  <2> QED BY <1>3, <1>t, <1>f, <2>2, GetBecomes DEF EnsureActive
<1>4. CASE GetActive
  <2>1. get' = [get EXCEPT !.pc = "stored", !.mem = active]
    BY <1>4 DEF GetActive
  <2>2. GetShape(get')
    BY <1>f, <2>1 DEF GetShape, GetPCs
  <2> QED BY <1>4, <1>t, <1>f, <2>2, GetBecomes DEF GetActive
<1>5. CASE GetStored
  <2>1. get.mem.path \in Paths
    BY <1>f DEF Actives
  <2>2. CASE Unselected
    <3>1. GetShape(get') /\ answer' \in Answers
      BY <2>2, <1>f, <1>n, AnswerTyped DEF Unselected
    <3> QED BY <1>5, <1>t, <1>f, <3>1, GetBecomes DEF GetStored
  <2>3. CASE get' = [get EXCEPT !.pc = "clear", !.path = get.mem.path] /\ get.mem.path # None /\ answer' = answer
    <3>1. GetShape(get') /\ answer' \in Answers
      BY <2>1, <2>3, <1>f, GetMoves DEF GetPCs
    <3> QED BY <1>5, <1>t, <1>f, <3>1, GetBecomes DEF GetStored
  <2>4. CASE /\ get' = [get EXCEPT !.pc = IF get.mem.path = stored THEN "entry" ELSE "parse", !.path = stored]
             /\ stored # None /\ answer' = answer
    <3> DEFINE pc == IF get.mem.path = stored THEN "entry" ELSE "parse"
    <3>1. pc \in GetPCs
      BY DEF GetPCs
    <3>2. get' = [get EXCEPT !.pc = pc, !.path = stored]
      BY <2>4
    <3> HIDE DEF pc
    <3>3. GetShape([get EXCEPT !.pc = pc, !.path = stored])
      BY <2>4, <3>1, <1>t, GetMoves
    <3>4. GetShape(get') /\ answer' \in Answers
      BY <2>4, <3>2, <3>3, <1>f
    <3> QED BY <1>5, <1>t, <1>f, <3>4, GetBecomes DEF GetStored
  <2>5. \/ Unselected
        \/ get' = [get EXCEPT !.pc = "clear", !.path = get.mem.path] /\ get.mem.path # None /\ answer' = answer
        \/ /\ get' = [get EXCEPT !.pc = IF get.mem.path = stored THEN "entry" ELSE "parse", !.path = stored]
           /\ stored # None /\ answer' = answer
    BY <1>5 DEF GetStored
  <2> QED BY <2>2, <2>3, <2>4, <2>5
<1>6. CASE GetEntry
  <2>1. get.path \in Files
    BY <1>6, <1>f DEF GetEntry, GetShape, Paths
  <2>2. get.mem.ver \in Versions
    BY <1>f DEF Actives
  <2>3. GetShape(get') /\ answer' \in Answers
    BY <1>6, <1>f, <1>e, <2>1, <2>2, ActiveAssumption, AnswerTyped, GetMoves DEF GetEntry, GetPCs
  <2> QED BY <1>6, <1>t, <1>f, <2>3, GetBecomes DEF GetEntry
<1>7. CASE GetParse
  <2>1. get.path \in Files
    BY <1>7, <1>f DEF GetParse, GetShape, Paths
  <2>2. entries[get.path].ver \in Versions /\ ReadCache(get.path) \in Versions
    BY <1>e, <2>1
  <2>n. get.path # None
    BY <2>1, ActiveAssumption
  <2>3. ASSUME get' = [get EXCEPT !.pc = "clear"], answer' = answer
        PROVE  GetShape(get') /\ answer' \in Answers
    BY <1>f, <2>n, <2>3, GetMoves DEF GetPCs
  <2>4. ASSUME get' = [get EXCEPT !.pc = "publish", !.ver = ReadCache(get.path)], answer' = answer
        PROVE  GetShape(get') /\ answer' \in Answers
    BY <1>f, <2>2, <2>n, <2>4, GetMoves DEF GetPCs
  <2>5. ASSUME Answer(get.path, entries[get.path].ver, 0)
        PROVE  GetShape(get') /\ answer' \in Answers
    BY <1>f, <2>2, <2>5, AnswerTyped
  <2>6. GetShape(get') /\ answer' \in Answers
    BY <1>7, <2>3, <2>4, <2>5 DEF GetParse
  <2> QED BY <1>7, <1>t, <1>f, <2>6, GetBecomes DEF GetParse
<1>8. CASE GetPublish
  <2>1. Published \in Actives
    BY <1>f DEF Published, Actives
  <2>2. GetShape(get') /\ answer' \in Answers
    BY <1>8, <1>f, AnswerTyped DEF GetPublish
  <2> QED BY <1>8, <1>t, <1>f, <2>1, <2>2, GetBecomes DEF GetPublish
<1>9. CASE ClearActive
  <2>1. GetShape(get')
    BY <1>9, <1>f, GetMoves DEF ClearActive, GetPCs, GetShape
  <2> QED BY <1>9, <1>t, <1>f, <2>1, GetBecomes DEF ClearActive
<1>10. CASE ClearCheck
  <2>1. get.path # None
    BY <1>10, <1>f DEF ClearCheck, GetShape
  <2>2. GetShape(get') /\ answer' \in Answers
    BY <1>10, <1>f, <1>n, <2>1, AnswerTyped, GetMoves DEF ClearCheck, Unselected, GetPCs
  <2> QED BY <1>10, <1>t, <1>f, <2>2, GetBecomes DEF ClearCheck
<1>11. CASE ClearStore
  <2>1. GetShape(get') /\ answer' \in Answers
    BY <1>11, <1>f, <1>n, AnswerTyped DEF ClearStore, Unselected
  <2> QED BY <1>11, <1>t, <1>f, <1>n, <2>1, GetBecomes DEF ClearStore
<1>12. CASE Reread
  BY <1>12, <1>t, <1>f, WindowTyped, GetBecomes DEF Reread
<1> QED BY <1>1, <1>2, <1>3, <1>4, <1>5, <1>6, <1>7, <1>8, <1>9, <1>10, <1>11, <1>12 DEF Get

LEMMA RunTyped ==
    ASSUME ActiveTypeOK, RunActive
    PROVE  ActiveTypeOK'
<1>1. CASE RunCheck
  <2> DEFINE path == IF stored # None THEN stored ELSE active.path
  <2>1. path \in Paths /\ path # None /\ launch' = [pc |-> "send", path |-> path]
    BY <1>1 DEF RunCheck, ActiveTypeOK, Actives
  <2> HIDE DEF path
  <2>2. scene' \in Bounds
    BY <1>1, SpendKeeps DEF RunCheck, ActiveTypeOK
  <2> QED BY <1>1, <2>1, <2>2 DEF RunCheck, ActiveTypeOK, probeVars
<1>2. CASE RunSend
  <2>1. launch.path \in Files
    BY <1>2 DEF RunSend, ActiveTypeOK, Paths
  <2>2. fw' \in Machines /\ scene' \in Bounds /\ (fw'.state \in Playing <=> fw'.file # None)
    <3>1. CASE Begin(launch.path)
      BY <2>1, <3>1, BeginTyped, ActiveAssumption DEF Playing
    <3>2. CASE UNCHANGED <<fw, scene>>
      BY <3>2 DEF ActiveTypeOK
    <3> QED BY <1>2, <3>1, <3>2 DEF RunSend
  <2>3. launch' = [pc |-> "idle", path |-> None] /\ launch' \in [pc : {"idle", "send"}, path : Paths]
    BY <1>2 DEF RunSend, Paths
  <2> QED BY <1>2, <2>2, <2>3 DEF RunSend, ActiveTypeOK, probeVars
<1> QED BY <1>1, <1>2 DEF RunActive

LEMMA TaskTyped ==
    ASSUME ActiveTypeOK, Task \/ ProbeInterval
    PROVE  ActiveTypeOK'
<1>t. /\ task \in Tasks /\ probe \in Probes /\ entries \in [Files -> Entries] /\ onMachine \in [Files -> Versions]
      /\ (probe.inFlight <=> task.pc # "idle")
  BY DEF ActiveTypeOK
<1>f. /\ task.path \in Paths /\ task.md5 \in Versions /\ task.loaded \in BOOLEAN /\ task.verified \in BOOLEAN
      /\ 0 \in Versions
  BY <1>t, ActiveAssumption DEF Tasks, Versions
<1>b. ASSUME entries' \in [Files -> Entries], stored' \in Paths, own' \in Paths, probe' \in Probes, task' \in Tasks,
             probe'.inFlight <=> task'.pc # "idle",
             task'.pc \in {"report", "record", "cache"} => task'.path # None,
             UNCHANGED <<scene, fw, onMachine, active, select, get, answer, launch, status>>
      PROVE  ActiveTypeOK'
  BY <1>b DEF ActiveTypeOK
<1>u. stored \in Paths /\ own \in Paths
  BY DEF ActiveTypeOK
<1>1. CASE TaskQuery
  <2>1. fw.file \in Files
    BY <1>1 DEF TaskQuery, ActiveTypeOK, Machines, Paths
  <2> DEFINE md5 == IF scene.playStatus THEN onMachine[fw.file] ELSE 0
  <2>2. md5 \in Versions
    BY <1>t, <1>f, <2>1
  <2>3. task' = [task EXCEPT !.pc = "report", !.path = fw.file, !.md5 = md5]
    BY <1>1 DEF TaskQuery
  <2> HIDE DEF md5
  <2>4. task' \in Tasks /\ task'.pc = "report" /\ task'.path = fw.file
    BY <1>t, <2>1, <2>2, <2>3 DEF Tasks, Paths
  <2> QED BY <1>1, <1>b, <1>t, <1>u, <2>1, <2>4, ActiveAssumption DEF TaskQuery, selectVars
<1>2. CASE TaskQueryFails
  <2>1. task' = [task EXCEPT !.pc = "done"] /\ task.pc = "query"
    BY <1>2 DEF TaskQueryFails
  <2>2. task' \in Tasks /\ task'.pc = "done"
    BY <1>t, <2>1 DEF Tasks
  <2>3. probe' \in Probes /\ probe'.inFlight = probe.inFlight
    BY <1>2, <1>t DEF TaskQueryFails, Probes
  <2> QED BY <1>2, <1>b, <1>t, <1>u, <2>1, <2>2, <2>3 DEF TaskQueryFails, selectVars
<1>3. CASE TaskVerify
  <2> DEFINE good == /\ entries[task.path].known
                     /\ task.md5 > 0 /\ entries[task.path].ver = task.md5
                     /\ entries[task.path].cache = "validating"
  <2>0. task.path \in Files
    BY <1>3, <1>f DEF TaskVerify, ActiveTypeOK, Paths
  <2>1. good \in BOOLEAN
    BY <1>t, <2>0 DEF Entries
  <2>2. task' = [task EXCEPT !.pc = "record", !.verified = good]
    BY <1>3 DEF TaskVerify
  <2> HIDE DEF good
  <2>3. task' \in Tasks /\ task'.pc = "record" /\ task'.path = task.path
    <3>1. ASSUME NEW b \in BOOLEAN
          PROVE  /\ [task EXCEPT !.pc = "record", !.verified = b] \in Tasks
                 /\ [task EXCEPT !.pc = "record", !.verified = b].pc = "record"
                 /\ [task EXCEPT !.pc = "record", !.verified = b].path = task.path
      BY <1>t DEF Tasks
    <3> QED BY <2>1, <2>2, <3>1
  <2>4. task.pc # "idle" /\ task.path # None
    BY <1>3, <2>0, ActiveAssumption DEF TaskVerify
  <2> QED BY <1>3, <1>b, <1>t, <1>u, <2>3, <2>4 DEF TaskVerify, selectVars
<1>4. CASE TaskRecord
  <2>0. task.path \in Files /\ task.path # None /\ task.pc # "idle"
    BY <1>4, <1>f DEF TaskRecord, ActiveTypeOK, Paths
  <2>1. entries[task.path] \in Entries
    BY <1>t, <2>0
  <2>2. Reported(entries[task.path]) \in Entries
    <3> DEFINE e == entries[task.path]
    <3> DEFINE e1 == IF task.md5 > 0 /\ e.sync = "remote_only" THEN [e EXCEPT !.ver = task.md5] ELSE e
    <3>1. [NoEntry EXCEPT !.known = TRUE, !.ver = task.md5] \in Entries
      BY <1>f DEF NoEntry, Entries, CacheStates
    <3>2. e1 \in Entries
      BY <1>f, <2>1 DEF Entries
    <3>3. [e1 EXCEPT !.cache = "ready"] \in Entries
      <4> HIDE DEF e1
      <4> QED BY <3>2 DEF Entries, CacheStates
    <3>4. Reported(e) \in {[NoEntry EXCEPT !.known = TRUE, !.ver = task.md5], e1, [e1 EXCEPT !.cache = "ready"]}
      BY DEF Reported
    <3> HIDE DEF e, e1
    <3>5. Reported(e) \in Entries
      BY <3>1, <3>2, <3>3, <3>4
    <3> QED BY <3>5 DEF e
  <2>3. entries' \in [Files -> Entries] /\ stored' \in Paths /\ own' \in Paths
    BY <1>4, <1>t, <1>f, <2>2 DEF TaskRecord, Paths
  <2>4. task' = [task EXCEPT !.pc = "cache"]
    BY <1>4 DEF TaskRecord
  <2>5. task' \in Tasks /\ task'.pc = "cache" /\ task'.path = task.path
    BY <1>t, <2>4 DEF Tasks
  <2> QED BY <1>4, <1>b, <1>t, <2>0, <2>3, <2>5 DEF TaskRecord
<1>5. CASE TaskCache
  <2>0. task.path \in Files /\ task.pc # "idle"
    BY <1>5, <1>f DEF TaskCache, ActiveTypeOK, Paths
  <2>1. entries' \in [Files -> Entries]
    BY <1>5, <1>t, <2>0, FetchedTyped DEF TaskCache
  <2>2. task' = [task EXCEPT !.pc = "done", !.loaded = TRUE]
    BY <1>5 DEF TaskCache
  <2>3. task' \in Tasks /\ task'.pc = "done"
    BY <1>t, <2>2 DEF Tasks
  <2> QED BY <1>5, <1>b, <1>t, <1>u, <2>0, <2>1, <2>3 DEF TaskCache, selectVars
<1>6. CASE TaskDone
  <2>1. NoTask \in Tasks /\ NoTask.pc = "idle"
    BY <1>f DEF NoTask, Tasks, Paths
  <2>2. probe.loaded \in BOOLEAN
    BY <1>t DEF Probes
  <2>3. ASSUME NEW b \in BOOLEAN
        PROVE  /\ [probe EXCEPT !.inFlight = FALSE, !.loaded = b] \in Probes
               /\ ~[probe EXCEPT !.inFlight = FALSE, !.loaded = b].inFlight
    BY <1>t DEF Probes
  <2>4. (probe.loaded \/ task.loaded) \in BOOLEAN
    OBVIOUS
  <2>5. Finished \in Probes /\ ~Finished.inFlight
    BY <2>3, <2>4 DEF Finished
  <2> QED BY <1>6, <1>b, <1>t, <1>u, <2>1, <2>5 DEF TaskDone, selectVars
<1>7. CASE ProbeInterval
  <2>1. probe' \in Probes /\ probe'.inFlight = probe.inFlight
    BY <1>7, <1>t DEF ProbeInterval, Probes
  <2> QED BY <1>7, <1>b, <1>t, <1>u, <2>1 DEF ProbeInterval, selectVars, ActiveTypeOK
<1> QED BY <1>1, <1>2, <1>3, <1>4, <1>5, <1>6, <1>7 DEF Task

LEMMA ActiveTyped ==
    ASSUME ActiveTypeOK, ActiveNext
    PROVE  ActiveTypeOK' /\ status' = status
<1>1. ActiveTypeOK'
  BY MachineTyped, CatalogTyped, SelectTyped, GetTyped, RunTyped, TaskTyped DEF ActiveNext
<1>2. status' = status
  BY DEF ActiveNext, Machine, PlayLine, PauseResume, Play, Catalog, Upload, Uploaded, Deleted, Select, SelectOpen,
         SelectStore, SelectPublish, Get, Start, EnsureStored, EnsureActive, GetActive, GetStored, GetEntry, GetParse,
         GetPublish, ClearActive, ClearCheck, ClearStore, Reread, RunActive, RunCheck, RunSend, Task, TaskQuery,
         TaskQueryFails, TaskVerify, TaskRecord, TaskCache, TaskDone, ProbeInterval
<1> QED BY <1>1, <1>2

-----------------------------------------------------------------------------
(* Types of the context.                                                    *)

RecordShape(r) == r \in Records /\ ("recover" \in {r.pc, r.then} => r.path # None)

LEMMA IdleShape ==
    /\ NoWords \in Words /\ NoContext \in Contexts /\ RecordShape(IdleWorker)
    /\ IdleWorker.pc = "idle" /\ IdleWorker.then = "idle" /\ IdleWorker.force = FALSE
<1>1. NoWords \in Words
  BY ActiveAssumption DEF NoWords, Words
<1>2. NoContext \in Contexts
  BY DEF NoContext, Contexts, Paths, Directions
<1>3. 0 \in 0 .. MaxClock
  BY ContextAssumption
<1> QED BY <1>1, <1>2, <1>3 DEF IdleWorker, Records, RecordShape, PCs, Paths

LEMMA WorkerShape ==
    ASSUME TypeOK, NEW t \in Workers
    PROVE  RecordShape(worker[t])
BY DEF TypeOK, RecordShape

\* A step of one worker.
LEMMA BecomeTyped ==
    ASSUME TypeOK, NEW t \in Workers, NEW r, RecordShape(r), Become(t, r)
    PROVE  /\ worker' \in [Workers -> Records] /\ worker'[t] = r
           /\ \A u \in Workers : u # t => worker'[u] = worker[u]
           /\ \A u \in Workers : RecordShape(worker'[u])
<1>1. /\ worker' \in [Workers -> Records] /\ worker'[t] = r
      /\ \A u \in Workers : u # t => worker'[u] = worker[u]
  BY DEF Become, TypeOK, RecordShape
<1>2. \A u \in Workers : RecordShape(worker[u])
  BY WorkerShape
<1> QED BY <1>1, <1>2

\* What a worker goes on with when its update needs no checkpoint, or has one.
Resumed(r) == IF r.then = "idle" THEN IdleWorker ELSE [r EXCEPT !.pc = r.then, !.then = "idle"]

LEMMA ResumedShape ==
    ASSUME NEW r, RecordShape(r)
    PROVE  /\ RecordShape(Resumed(r)) /\ Resumed(r).pc \in {"idle", "recover"} /\ Resumed(r).then = "idle"
           /\ Resumed(r).pc = "recover" => /\ r.then = "recover" /\ Resumed(r).path = r.path /\ Resumed(r).line = r.line
                                           /\ Resumed(r).seen = r.seen
<1>1. CASE r.then = "idle"
  BY <1>1, IdleShape DEF Resumed
<1>2. CASE r.then = "recover"
  <2> DEFINE x == [r EXCEPT !.pc = "recover", !.then = "idle"]
  <2>1. x \in Records /\ x.pc = "recover" /\ x.then = "idle" /\ x.path = r.path /\ x.line = r.line /\ x.seen = r.seen
    BY DEF RecordShape, Records, PCs
  <2>2. Resumed(r) = x
    BY <1>2 DEF Resumed
  <2> HIDE DEF x
  <2> QED BY <1>2, <2>1, <2>2 DEF RecordShape
<1>3. r.then \in {"idle", "recover"}
  BY DEF RecordShape, Records
<1> QED BY <1>1, <1>2, <1>3

Queued(r, force, at) == [r EXCEPT !.pc = "lock", !.at = at, !.force = force]

LEMMA QueuedShape ==
    ASSUME NEW r, RecordShape(r), NEW force \in BOOLEAN, NEW at \in 0 .. MaxClock
    PROVE  /\ RecordShape(Queued(r, force, at)) /\ Queued(r, force, at).pc = "lock"
           /\ Queued(r, force, at).force = force /\ Queued(r, force, at).then = r.then
           /\ Queued(r, force, at).path = r.path /\ Queued(r, force, at).line = r.line
           /\ Queued(r, force, at).seen = r.seen
<1> DEFINE x == Queued(r, force, at)
<1>1. /\ x \in Records /\ x.pc = "lock" /\ x.force = force /\ x.then = r.then
      /\ x.path = r.path /\ x.line = r.line /\ x.seen = r.seen
  BY DEF Queued, RecordShape, Records, PCs
<1>2. RecordShape(x)
  <2> HIDE DEF x
  <2> QED BY <1>1 DEF RecordShape
<1> QED BY <1>1, <1>2

LEMMA UpdateEffect ==
    ASSUME TypeOK, NEW t \in Workers, NEW r, RecordShape(r), NEW new \in Contexts, NEW force \in BOOLEAN,
           NEW at \in 0 .. MaxClock, Update(t, r, new, force, at)
    PROVE  /\ \/ new = execution /\ UNCHANGED <<execution, revision>> /\ worker'[t] = Resumed(r)
              \/ /\ new # execution
                 /\ revision' = revision + 1 /\ execution' = [new EXCEPT !.rev = revision + 1]
                 /\ \/ worker'[t] = Queued(r, force, at)
                    \/ ~force /\ worker'[t] = Resumed(r)
           /\ worker' \in [Workers -> Records] /\ execution' \in Contexts /\ revision' \in Nat
           /\ \A u \in Workers : u # t => worker'[u] = worker[u]
           /\ \A u \in Workers : RecordShape(worker'[u])
<1>1. RecordShape(Resumed(r)) /\ RecordShape(Queued(r, force, at))
  BY ResumedShape, QueuedShape
<1>2. revision \in Nat /\ execution \in Contexts
  BY DEF TypeOK
<1>3. CASE new = execution
  <2>1. Become(t, Resumed(r)) /\ UNCHANGED <<execution, revision>>
    BY <1>3 DEF Update, Resumed
  <2> QED BY <1>1, <1>2, <1>3, <2>1, BecomeTyped
<1>4. CASE new # execution
  <2>1. /\ revision' = revision + 1 /\ execution' = [new EXCEPT !.rev = revision + 1]
        /\ Become(t, Queued(r, force, at)) \/ (~force /\ Become(t, Resumed(r)))
    BY <1>4 DEF Update, Resumed, Queued, Due
  <2>2. execution' \in Contexts /\ revision' \in Nat
    BY <1>2, <2>1 DEF Contexts
  <2> QED BY <1>1, <1>4, <2>1, <2>2, BecomeTyped
<1> QED BY <1>3, <1>4

LEMMA RecordedTyped ==
    ASSUME NEW c \in Contexts, NEW w \in Words, w.s = Silent \/ w.s \in {0} \cup Speeds, NEW source \in {"log", "api"}
    PROVE  /\ Recorded(c, w, source) \in Contexts /\ Recorded(c, w, source).rev = c.rev
           /\ Recorded(c, w, source) = c \/ Recorded(c, w, source).source = source
<1> DEFINE x == IF w.s = Silent \/ w.s = c.s THEN c ELSE [c EXCEPT !.s = w.s, !.source = source]
<1>1. x \in Contexts /\ x.rev = c.rev /\ (x = c \/ x.source = source)
  BY DEF Contexts
<1>2. CASE w.m = 5
  <2>1. Recorded(c, w, source) = [x EXCEPT !.stopped = TRUE, !.source = source]
    BY <1>2 DEF Recorded
  <2> HIDE DEF x
  <2> QED BY <1>1, <2>1 DEF Contexts
<1>3. CASE w.m \in {3, 4}
  <2>1. Recorded(c, w, source) = [x EXCEPT !.dir = w.m, !.stopped = FALSE, !.source = source]
    BY <1>3 DEF Recorded
  <2> HIDE DEF x
  <2> QED BY <1>1, <1>3, <2>1 DEF Contexts, Directions
<1>4. CASE w.m \notin {3, 4, 5}
  <2>1. Recorded(c, w, source) = x
    BY <1>4 DEF Recorded
  <2> HIDE DEF x
  <2> QED BY <1>1, <2>1
<1> QED BY <1>2, <1>3, <1>4

LEMMA ObservedTyped ==
    ASSUME NEW c \in Contexts, NEW st \in Reports, NEW path \in Paths
    PROVE  /\ Observed(c, st, path) \in Contexts /\ Observed(c, st, path).rev = c.rev
           /\ Keeps(c, Observed(c, st, path))
           /\ Observed(c, st, path).source \in {c.source, "status"}
<1>1. st.line \in Nat /\ st.rpm \in {0} \cup Speeds
  BY DEF Reports
<1> DEFINE job == IF stateMayReportActiveGcode(st.state)
                  THEN [c EXCEPT !.path = IF path = None THEN @ ELSE path,
                                 !.line = IF st.line > 0 THEN st.line ELSE @]
                  ELSE c
<1>2. /\ job \in Contexts /\ job.rev = c.rev /\ job.dir = c.dir /\ job.s = c.s /\ job.source = c.source
      /\ job.stopped = c.stopped
  BY <1>1 DEF Contexts
<1>3. CASE st.rpm > 0 /\ c.dir \in {3, 4}
  <2>1. Observed(c, st, path) = [job EXCEPT !.s = st.rpm, !.stopped = FALSE,
                                            !.source = IF c.s = st.rpm THEN @ ELSE "status"]
    BY <1>3 DEF Observed
  <2> HIDE DEF job
  <2> QED BY <1>1, <1>2, <2>1 DEF Contexts, Keeps, Told
<1>4. CASE ~(st.rpm > 0 /\ c.dir \in {3, 4})
  <2>1. Observed(c, st, path) = job
    BY <1>4 DEF Observed
  <2> HIDE DEF job
  <2> QED BY <1>2, <2>1 DEF Keeps
<1> QED BY <1>3, <1>4

LEMMA RecoveredTyped ==
    ASSUME NEW c \in Contexts, NEW path \in Paths, NEW found \in Contexts
    PROVE  /\ Recovered(c, path, found) \in Contexts /\ Recovered(c, path, found).rev = c.rev
           /\ Recovered(c, path, found) = c \/ ~SpindleKnown(c)
<1>1. CASE c.path # path \/ SpindleKnown(c)
  BY <1>1 DEF Recovered
<1>2. CASE ~(c.path # path \/ SpindleKnown(c))
  BY <1>2 DEF Recovered, Contexts
<1> QED BY <1>1, <1>2

\* What the observer makes of a report.
ObservedPath == IF stateMayReportActiveGcode(status.state) THEN stored ELSE None
ObserverRecord ==
    [IdleWorker EXCEPT
       !.then = IF ObservedPath # None /\ status.line > 0 THEN "recover" ELSE "idle",
       !.line = status.line, !.path = ObservedPath, !.at = status.at,
       !.seen = IF status.file = ObservedPath THEN status.seen ELSE NoWords]

LEMMA ObserverShape ==
    ASSUME TypeOK, status # None
    PROVE  /\ RecordShape(ObserverRecord) /\ ObservedPath \in Paths
           /\ status \in Reports /\ status.at \in 0 .. MaxClock
           /\ ObserverRecord.pc = "idle" /\ ObserverRecord.line = status.line /\ ObserverRecord.path = ObservedPath
           /\ ObserverRecord.seen = (IF status.file = ObservedPath THEN status.seen ELSE NoWords)
           /\ ObserverRecord.then = "recover" => ObservedPath # None
<1>1. status \in Reports /\ stored \in Paths
  BY DEF TypeOK, ActiveTypeOK
<1>2. ObservedPath \in Paths
  BY <1>1 DEF ObservedPath, Paths
<1>3. status.line \in Nat /\ status.at \in 0 .. MaxClock /\ status.seen \in Words
  BY <1>1 DEF Reports
<1> DEFINE then == IF ObservedPath # None /\ status.line > 0 THEN "recover" ELSE "idle"
<1> DEFINE seen == IF status.file = ObservedPath THEN status.seen ELSE NoWords
<1>4. then \in {"idle", "recover"} /\ seen \in Words /\ (then = "recover" => ObservedPath # None)
  BY <1>3, IdleShape
<1>5. IdleWorker \in Records /\ IdleWorker.pc = "idle"
  BY IdleShape DEF RecordShape
<1> DEFINE x == [IdleWorker EXCEPT !.then = then, !.line = status.line, !.path = ObservedPath,
                                   !.at = status.at, !.seen = seen]
<1>6. /\ x \in Records /\ x.pc = "idle" /\ x.then = then /\ x.line = status.line /\ x.path = ObservedPath /\ x.seen = seen
  <2> HIDE DEF then, seen
  <2> QED BY <1>2, <1>3, <1>4, <1>5 DEF Records
<1>7. ObserverRecord = x
  BY DEF ObserverRecord
<1>8. RecordShape(x)
  <2> HIDE DEF x, then, seen
  <2> QED BY <1>4, <1>6 DEF RecordShape
<1>9. /\ RecordShape(ObserverRecord) /\ ObserverRecord.pc = "idle" /\ ObserverRecord.then = then
      /\ ObserverRecord.line = status.line /\ ObserverRecord.path = ObservedPath /\ ObserverRecord.seen = seen
  <2> HIDE DEF x, then, seen
  <2> QED BY <1>6, <1>7, <1>8
<1> QED BY <1>1, <1>2, <1>3, <1>4, <1>9

-----------------------------------------------------------------------------
(* Every step keeps the types.                                              *)

LEMMA TypedBy ==
    ASSUME TypeOK, ActiveTypeOK', status' # None => status' \in Reports, execution' \in Contexts, saved' \in Contexts,
           persistMu' \in Workers \cup {None}, worker' \in [Workers -> Records],
           \A u \in Workers : RecordShape(worker'[u]), recovery' \in [path : Paths, at : 0 .. MaxClock],
           clock' \in 1 .. MaxClock, persistedAt' \in 0 .. MaxClock, revision' \in Nat
    PROVE  TypeOK'
BY DEF TypeOK, RecordShape

LEMMA Fields ==
    ASSUME TypeOK
    PROVE  /\ ActiveTypeOK /\ (status # None => status \in Reports) /\ execution \in Contexts /\ saved \in Contexts
           /\ persistMu \in Workers \cup {None} /\ worker \in [Workers -> Records]
           /\ \A u \in Workers : RecordShape(worker[u])
           /\ recovery \in [path : Paths, at : 0 .. MaxClock]
           /\ clock \in 1 .. MaxClock /\ persistedAt \in 0 .. MaxClock /\ revision \in Nat
BY DEF TypeOK, RecordShape

LEMMA ActiveUnchanged ==
    ASSUME ActiveTypeOK, UNCHANGED activeVars
    PROVE  ActiveTypeOK' /\ status' = status
BY DEF ActiveTypeOK, activeVars

LEMMA SpeedsAreNumbers == \A s \in {0} \cup Speeds : s \in Nat
<1> SUFFICES ASSUME NEW f \in Files, NEW n \in 1 .. Lines(f) PROVE Program[f][n].s \in Nat
  BY DEF Speeds
<1> QED BY LineTyped DEF Words

LEMMA ReportTyped ==
    ASSUME TypeOK
    PROVE  Report \in Reports
<1>1. fw \in Machines /\ clock \in 0 .. MaxClock
  BY DEF TypeOK, ActiveTypeOK
<1> DEFINE seen == IF scene.words = {} THEN [m |-> fw.dir, s |-> fw.s] ELSE NoWords
<1> DEFINE file == IF scene.words = {} THEN fw.file ELSE None
<1>2. [m |-> fw.dir, s |-> fw.s] \in Words
  <2>1. fw.dir \in {0, 3, 4} /\ fw.s \in {0} \cup Speeds
    BY <1>1 DEF Machines, Directions
  <2>2. fw.s \in Nat
    BY <2>1, SpeedsAreNumbers
  <2> QED BY <2>1, <2>2 DEF Words
<1>3. seen \in Words /\ file \in Paths
  BY <1>1, <1>2, IdleShape DEF Machines, Paths
<1>4. Report = [state |-> fw.state, line |-> fw.line, rpm |-> fw.rpm, at |-> clock, seen |-> seen, file |-> file]
  BY DEF Report
<1>5. fw.state \in States /\ fw.line \in Nat /\ fw.rpm \in {0} \cup Speeds
  BY <1>1 DEF Machines
<1> HIDE DEF seen, file
<1> QED BY <1>1, <1>3, <1>4, <1>5 DEF Reports

LEMMA ProbedTyped ==
    ASSUME ActiveTypeOK, NEW st, Probed(st)
    PROVE  /\ probe' \in Probes /\ task' \in Tasks /\ (probe'.inFlight <=> task'.pc # "idle")
           /\ task'.pc \in {"report", "record", "cache"} => task'.path # None
<1>1. /\ probe \in Probes /\ task \in Tasks /\ (probe.inFlight <=> task.pc # "idle")
      /\ task.pc \in {"report", "record", "cache"} => task.path # None
  BY DEF ActiveTypeOK
<1>2. CASE UNCHANGED probeVars
  BY <1>1, <1>2 DEF probeVars
<1>3. CASE probe' = [probe EXCEPT !.loaded = FALSE, !.recent = FALSE] /\ task' = task
  <2>1. probe' \in Probes /\ probe'.inFlight = probe.inFlight
    BY <1>1, <1>3 DEF Probes
  <2> QED BY <1>1, <1>3, <2>1
<1>4. CASE probe' = [probe EXCEPT !.inFlight = TRUE, !.recent = TRUE] /\ task' = [NoTask EXCEPT !.pc = "query"]
  <2>1. probe' \in Probes /\ probe'.inFlight = TRUE
    BY <1>1, <1>4 DEF Probes
  <2>2. 0 \in Versions /\ None \in Paths
    BY ActiveAssumption DEF Versions, Paths
  <2>3. task' \in Tasks /\ task'.pc = "query"
    BY <1>4, <2>2 DEF Tasks, NoTask
  <2> QED BY <2>1, <2>3
<1> QED BY <1>2, <1>3, <1>4 DEF Probed

LEMMA ScannedTyped ==
    ASSUME NEW f \in Files, NEW line \in Nat
    PROVE  /\ Scanned(f, line) \in SpindleStates
           /\ line <= Lines(f) => Scanned(f, line) = SpindleAt(f)[line]
<1>1. Lines(f) \in Nat
  BY ActiveAssumption DEF Lines
<1> DEFINE n == IF line > Lines(f) THEN Lines(f) ELSE line
<1>2. n \in 0 .. Lines(f) /\ (line <= Lines(f) => n = line)
  BY <1>1
<1>3. Scanned(f, line) = SpindleAt(f)[n]
  BY DEF Scanned
<1> HIDE DEF n
<1> QED BY <1>2, <1>3, SpindleTyped

\* A scan that found something leaves what it found with the observer.
LEMMA ScanEffect ==
    ASSUME TypeOK, Scan
    PROVE  LET w == worker["status"]
           IN  \E r : /\ Become("status", r) /\ RecordShape(r)
                      /\ \/ r = IdleWorker
                         \/ /\ r.pc = "recovered" /\ r.then = w.then /\ r.seen = w.seen /\ r.line = w.line
                            /\ r.path = w.path /\ w.path \in Files /\ w.line \in Nat /\ w.pc = "recover"
                            /\ r.snap.dir = Scanned(w.path, w.line).dir /\ r.snap.s = Scanned(w.path, w.line).s
                            /\ r.snap.dir # 0 /\ r.snap.s # 0
<1> DEFINE w == worker["status"]
<1> DEFINE at == Scanned(w.path, w.line)
<1>1. RecordShape(w) /\ w.pc = "recover"
  BY WorkerShape DEF Scan, Workers
<1>2. w.path \in Files /\ w.line \in Nat /\ w \in Records
  BY <1>1 DEF RecordShape, Records, Paths
<1>3. at \in SpindleStates
  BY <1>2, ScannedTyped
<1> DEFINE snap == [NoContext EXCEPT !.dir = at.dir, !.s = at.s, !.stopped = (at.rpm = 0)]
<1> DEFINE r == [w EXCEPT !.pc = "recovered", !.snap = snap]
<1>4. \/ Become("status", IdleWorker)
      \/ at.s > 0 /\ at.dir # 0 /\ Become("status", r)
  BY DEF Scan
<1>5. CASE Become("status", IdleWorker)
  BY <1>5, IdleShape
<1>6. CASE at.s > 0 /\ at.dir # 0 /\ Become("status", r)
  <2>1. at.s \in {0} \cup Speeds /\ at.dir \in Directions
    BY <1>3 DEF SpindleStates
  <2>2. (at.rpm = 0) \in BOOLEAN
    OBVIOUS
  <2>3. snap \in Contexts /\ snap.dir = at.dir /\ snap.s = at.s
    <3> HIDE DEF at
    <3>1. ASSUME NEW b \in BOOLEAN
          PROVE  /\ [NoContext EXCEPT !.dir = at.dir, !.s = at.s, !.stopped = b] \in Contexts
                 /\ [NoContext EXCEPT !.dir = at.dir, !.s = at.s, !.stopped = b].dir = at.dir
                 /\ [NoContext EXCEPT !.dir = at.dir, !.s = at.s, !.stopped = b].s = at.s
      BY <2>1, IdleShape DEF Contexts
    <3> QED BY <2>2, <3>1
  <2>4. /\ r \in Records /\ r.pc = "recovered" /\ r.snap = snap
        /\ r.then = w.then /\ r.seen = w.seen /\ r.line = w.line /\ r.path = w.path
    <3> HIDE DEF snap, w
    <3> QED BY <1>2, <2>3 DEF Records, PCs
  <2>5. RecordShape(r)
    <3> HIDE DEF r
    <3> QED BY <1>2, <2>4, ActiveAssumption DEF RecordShape
  <2>6. r.snap.dir # 0 /\ r.snap.s # 0
    <3>1. snap.dir # 0 /\ snap.s # 0
      <4> HIDE DEF snap, at
      <4> QED BY <1>6, <2>3
    <3> HIDE DEF snap, r
    <3> QED BY <2>4, <3>1
  <2> HIDE DEF r, snap
  <2> QED BY <1>1, <1>2, <1>6, <2>3, <2>4, <2>5, <2>6
<1> QED BY <1>4, <1>5, <1>6

LEMMA ReturnEffect ==
    ASSUME TypeOK, NEW t \in Workers, Return(t)
    PROVE  /\ worker' \in [Workers -> Records] /\ worker'[t] = Resumed(worker[t])
           /\ \A u \in Workers : u # t => worker'[u] = worker[u]
           /\ \A u \in Workers : RecordShape(worker'[u])
<1>1. Become(t, Resumed(worker[t]))
  BY DEF Return, Resumed
<1>2. RecordShape(Resumed(worker[t]))
  BY WorkerShape, ResumedShape
<1> QED BY <1>1, <1>2, BecomeTyped

\* A worker that takes the lock holds a snapshot of the context in memory.
LEMMA LockEffect ==
    ASSUME TypeOK, NEW t \in Workers, Lock(t)
    PROVE  /\ worker[t].pc = "lock"
           /\ \/ /\ persistMu = None /\ persistMu' = t
                 /\ worker'[t] = [worker[t] EXCEPT !.pc = "write", !.snap = execution]
                 /\ worker'[t].pc = "write" /\ worker'[t].snap = execution
                 /\ worker'[t].then = worker[t].then /\ worker'[t].path = worker[t].path
                 /\ worker'[t].line = worker[t].line /\ worker'[t].seen = worker[t].seen
              \/ /\ persistMu' = persistMu /\ worker'[t] = Resumed(worker[t]) /\ ~worker[t].force
           /\ worker' \in [Workers -> Records] /\ \A u \in Workers : u # t => worker'[u] = worker[u]
           /\ \A u \in Workers : RecordShape(worker'[u])
<1>1. CASE Due(worker[t].force, worker[t].at)
  <2> DEFINE r == [worker[t] EXCEPT !.pc = "write", !.snap = execution]
  <2>1. worker[t].pc = "lock" /\ persistMu = None /\ persistMu' = t /\ Become(t, r)
    BY <1>1 DEF Lock
  <2>2. RecordShape(worker[t]) /\ execution \in Contexts
    BY WorkerShape DEF TypeOK
  <2>3. /\ r \in Records /\ r.pc = "write" /\ r.snap = execution /\ r.then = worker[t].then
        /\ r.path = worker[t].path /\ r.line = worker[t].line /\ r.seen = worker[t].seen
    BY <2>2 DEF RecordShape, Records, PCs
  <2>4. RecordShape(r)
    <3> HIDE DEF r
    <3> QED BY <2>2, <2>3 DEF RecordShape
  <2> HIDE DEF r
  <2>5. /\ worker' \in [Workers -> Records] /\ worker'[t] = r
        /\ \A u \in Workers : u # t => worker'[u] = worker[u]
        /\ \A u \in Workers : RecordShape(worker'[u])
    BY <2>1, <2>4, BecomeTyped
  <2> QED BY <2>1, <2>3, <2>5 DEF r
<1>2. CASE ~Due(worker[t].force, worker[t].at)
  <2>1. worker[t].pc = "lock" /\ persistMu' = persistMu /\ Return(t) /\ ~worker[t].force
    BY <1>2 DEF Lock, Due
  <2> QED BY <2>1, ReturnEffect
<1> QED BY <1>1, <1>2

LEMMA WriteEffect ==
    ASSUME TypeOK, NEW t \in Workers, Write(t)
    PROVE  /\ worker[t].pc = "write" /\ saved' = worker[t].snap /\ saved' \in Contexts
           /\ worker'[t].pc = "stamp" /\ worker'[t].then = worker[t].then /\ worker'[t].path = worker[t].path
           /\ worker'[t].line = worker[t].line /\ worker'[t].seen = worker[t].seen
           /\ worker' \in [Workers -> Records] /\ \A u \in Workers : u # t => worker'[u] = worker[u]
           /\ \A u \in Workers : RecordShape(worker'[u])
<1> DEFINE r == [worker[t] EXCEPT !.pc = "stamp"]
<1>1. worker[t].pc = "write" /\ saved' = worker[t].snap /\ Become(t, r)
  BY DEF Write
<1>2. RecordShape(worker[t]) /\ worker[t] \in Records
  BY WorkerShape DEF TypeOK
<1>3. /\ r \in Records /\ r.pc = "stamp" /\ r.then = worker[t].then
      /\ r.path = worker[t].path /\ r.line = worker[t].line /\ r.seen = worker[t].seen
  BY <1>2 DEF Records, PCs
<1>4. RecordShape(r)
  <2> HIDE DEF r
  <2> QED BY <1>2, <1>3 DEF RecordShape
<1>5. worker[t].snap \in Contexts
  BY <1>2 DEF Records
<1> HIDE DEF r
<1> QED BY <1>1, <1>3, <1>4, <1>5, BecomeTyped

\* A command is on its way to be recorded.
LEMMA CommandEffect ==
    ASSUME TypeOK, NEW t \in Workers, NEW w \in Commands, Command(t, w)
    PROVE  /\ t \in {"log", "api"} /\ worker[t].pc = "idle" /\ scene.words # {}
           /\ scene' \in Bounds /\ scene'.requests = scene.requests /\ scene'.words = scene.words
           /\ scene'.context = scene.context
           /\ fw' \in Machines /\ fw'.state = fw.state /\ fw'.file = fw.file
           /\ worker'[t].pc = "record" /\ worker'[t].then = "idle" /\ worker'[t].words = w
           /\ worker' \in [Workers -> Records] /\ \A u \in Workers : u # t => worker'[u] = worker[u]
           /\ \A u \in Workers : RecordShape(worker'[u])
<1>1. /\ t \in {"log", "api"} /\ worker[t].pc = "idle" /\ w \in scene.words
      /\ Spend(IF t = "api" THEN "api" ELSE "controller") /\ fw' = Spoken(fw, w)
  BY DEF Command
<1>2. w \in Words /\ (w.s = Silent \/ w.s \in {0} \cup Speeds)
  BY SpeedsAreNumbers, ActiveAssumption DEF Commands, Words
<1>3. scene \in Bounds /\ fw \in Machines /\ clock \in 0 .. MaxClock
  BY DEF TypeOK, ActiveTypeOK
<1> DEFINE r == [IdleWorker EXCEPT !.pc = "record", !.words = w, !.at = clock]
<1>4. Become(t, r)
  BY DEF Command
<1>5. r \in Records /\ r.pc = "record" /\ r.then = "idle" /\ r.words = w
  BY <1>2, <1>3, IdleShape DEF RecordShape, Records, PCs
<1>6. RecordShape(r)
  <2> HIDE DEF r
  <2> QED BY <1>5 DEF RecordShape
<1> HIDE DEF r
<1> QED BY <1>1, <1>2, <1>3, <1>4, <1>5, <1>6, BecomeTyped, SpokenMachine, SpendKeeps

LEMMA WordsAreSpoken ==
    ASSUME NEW w \in Commands \cup {NoWords}
    PROVE  w \in Words /\ (w.s = Silent \/ w.s \in {0} \cup Speeds)
BY SpeedsAreNumbers, ActiveAssumption DEF Commands, NoWords, Words

\* A command is recorded under its source and waits for its checkpoint.
LEMMA RecordEffect ==
    ASSUME TypeOK, NEW t \in {"log", "api"}, Record(t)
    PROVE  /\ worker[t].pc = "record"
           /\ \/ UNCHANGED <<execution, revision>> /\ worker'[t] = Resumed(worker[t])
              \/ /\ revision' = revision + 1 /\ execution'.rev = revision + 1 /\ execution'.source = t
                 /\ worker'[t].pc = "lock" /\ worker'[t].force /\ worker'[t].then = worker[t].then
                 /\ worker'[t].path = worker[t].path /\ worker'[t].line = worker[t].line
                 /\ worker'[t].seen = worker[t].seen
           /\ worker' \in [Workers -> Records] /\ execution' \in Contexts /\ revision' \in Nat
           /\ \A u \in Workers : u # t => worker'[u] = worker[u]
           /\ \A u \in Workers : RecordShape(worker'[u])
<1> DEFINE new == Recorded(execution, worker[t].words, t)
<1> DEFINE force == TRUE
<1> DEFINE at == IF t = "api" THEN clock ELSE worker[t].at
<1>1. t \in Workers /\ RecordShape(worker[t]) /\ execution \in Contexts /\ revision \in Nat /\ clock \in 0 .. MaxClock
  BY WorkerShape DEF TypeOK, Workers
<1>2. worker[t].words \in Commands \cup {NoWords} /\ worker[t].at \in 0 .. MaxClock
  BY <1>1 DEF RecordShape, Records
<1>3. new \in Contexts /\ (new = execution \/ new.source = t)
  BY <1>1, <1>2, WordsAreSpoken, RecordedTyped
<1>4. at \in 0 .. MaxClock
  BY <1>1, <1>2
<1>5. worker[t].pc = "record" /\ Update(t, worker[t], new, force, at)
  BY DEF Record
<1>b. force \in BOOLEAN
  OBVIOUS
<1>f. force
  OBVIOUS
<1> HIDE DEF new, at, force
<1>6. /\ \/ new = execution /\ UNCHANGED <<execution, revision>> /\ worker'[t] = Resumed(worker[t])
         \/ /\ new # execution
            /\ revision' = revision + 1 /\ execution' = [new EXCEPT !.rev = revision + 1]
            /\ \/ worker'[t] = Queued(worker[t], force, at)
               \/ ~force /\ worker'[t] = Resumed(worker[t])
      /\ worker' \in [Workers -> Records] /\ execution' \in Contexts /\ revision' \in Nat
      /\ \A u \in Workers : u # t => worker'[u] = worker[u]
      /\ \A u \in Workers : RecordShape(worker'[u])
  BY <1>1, <1>3, <1>4, <1>5, <1>b, UpdateEffect
<1>7. ASSUME new # execution, execution' = [new EXCEPT !.rev = revision + 1]
      PROVE  execution'.rev = revision + 1 /\ execution'.source = t
  BY <1>3, <1>7 DEF Contexts
<1>8. /\ Queued(worker[t], force, at).pc = "lock" /\ Queued(worker[t], force, at).force = force
      /\ Queued(worker[t], force, at).then = worker[t].then /\ Queued(worker[t], force, at).path = worker[t].path
      /\ Queued(worker[t], force, at).line = worker[t].line /\ Queued(worker[t], force, at).seen = worker[t].seen
  BY <1>1, <1>4, <1>b, QueuedShape
<1> QED BY <1>5, <1>6, <1>7, <1>8, <1>f

\* What the observer applies does not undo what was said to the spindle.
LEMMA ObserveEffect ==
    ASSUME TypeOK, ObserveStatus, scene.context
    PROVE  /\ worker["status"].pc = "idle" /\ status # None
           /\ \/ UNCHANGED <<execution, revision>>
              \/ /\ revision' = revision + 1 /\ execution'.rev = revision + 1 /\ Keeps(execution, execution')
                 /\ execution'.source \in {execution.source, "status"}
           /\ \/ worker'["status"] = Resumed(ObserverRecord)
              \/ /\ worker'["status"].pc = "lock" /\ worker'["status"].then = ObserverRecord.then
                 /\ worker'["status"].path = ObserverRecord.path /\ worker'["status"].line = ObserverRecord.line
                 /\ worker'["status"].seen = ObserverRecord.seen
           /\ worker' \in [Workers -> Records] /\ execution' \in Contexts /\ revision' \in Nat
           /\ \A u \in Workers : u # "status" => worker'[u] = worker[u]
           /\ \A u \in Workers : RecordShape(worker'[u])
<1> DEFINE new == Observed(execution, status, ObservedPath)
<1> DEFINE force == ObservedPath # None /\ ObservedPath # execution.path
<1>1. /\ "status" \in Workers /\ RecordShape(ObserverRecord) /\ ObservedPath \in Paths
      /\ execution \in Contexts /\ revision \in Nat /\ status.at \in 0 .. MaxClock /\ status \in Reports
  <2>1. status # None
    BY DEF ObserveStatus
  <2> QED BY <2>1, ObserverShape DEF TypeOK, Workers
<1>2. /\ new \in Contexts /\ Keeps(execution, new) /\ new.source \in {execution.source, "status"}
  BY <1>1, ObservedTyped
<1>3. /\ worker["status"].pc = "idle" /\ status # None
      /\ Update("status", ObserverRecord, new, force, status.at)
  BY DEF ObserveStatus, ObserverRecord, ObservedPath
<1>4. force \in BOOLEAN
  OBVIOUS
<1> HIDE DEF new, force
<1>5. /\ \/ new = execution /\ UNCHANGED <<execution, revision>> /\ worker'["status"] = Resumed(ObserverRecord)
         \/ /\ new # execution
            /\ revision' = revision + 1 /\ execution' = [new EXCEPT !.rev = revision + 1]
            /\ \/ worker'["status"] = Queued(ObserverRecord, force, status.at)
               \/ worker'["status"] = Resumed(ObserverRecord)
      /\ worker' \in [Workers -> Records] /\ execution' \in Contexts /\ revision' \in Nat
      /\ \A u \in Workers : u # "status" => worker'[u] = worker[u]
      /\ \A u \in Workers : RecordShape(worker'[u])
  BY <1>1, <1>2, <1>3, <1>4, UpdateEffect
<1>6. ASSUME execution' = [new EXCEPT !.rev = revision + 1]
      PROVE  /\ execution'.rev = revision + 1 /\ Keeps(execution, execution')
             /\ execution'.source \in {execution.source, "status"}
  <2>1. /\ execution'.rev = revision + 1 /\ execution'.source = new.source /\ execution'.dir = new.dir
        /\ execution'.s = new.s
    BY <1>2, <1>6 DEF Contexts
  <2> QED BY <1>2, <2>1 DEF Keeps
<1>7. LET q == Queued(ObserverRecord, force, status.at)
      IN  /\ q.pc = "lock" /\ q.then = ObserverRecord.then /\ q.path = ObserverRecord.path
          /\ q.line = ObserverRecord.line /\ q.seen = ObserverRecord.seen
  BY <1>1, <1>4, QueuedShape
<1> QED BY <1>3, <1>5, <1>6, <1>7

\* A recovered spindle state replaces none that is known.
LEMMA RecoverEffect ==
    ASSUME TypeOK, Recover
    PROVE  /\ worker["status"].pc = "recovered"
           /\ \/ UNCHANGED <<execution, revision>> /\ worker'["status"] = Resumed(worker["status"])
              \/ /\ revision' = revision + 1 /\ execution'.rev = revision + 1 /\ ~SpindleKnown(execution)
                 /\ worker'["status"].pc = "lock" /\ worker'["status"].force
                 /\ worker'["status"].then = worker["status"].then /\ worker'["status"].path = worker["status"].path
                 /\ worker'["status"].line = worker["status"].line /\ worker'["status"].seen = worker["status"].seen
           /\ worker' \in [Workers -> Records] /\ execution' \in Contexts /\ revision' \in Nat
           /\ \A u \in Workers : u # "status" => worker'[u] = worker[u]
           /\ \A u \in Workers : RecordShape(worker'[u])
<1> DEFINE force == TRUE
<1> DEFINE w == worker["status"]
<1> DEFINE new == Recovered(execution, w.path, w.snap)
<1>1. "status" \in Workers /\ RecordShape(w) /\ execution \in Contexts /\ revision \in Nat
  BY WorkerShape DEF TypeOK, Workers
<1>2. w.path \in Paths /\ w.snap \in Contexts /\ w.at \in 0 .. MaxClock
  BY <1>1 DEF RecordShape, Records
<1>3. new \in Contexts /\ (new = execution \/ ~SpindleKnown(execution))
  BY <1>1, <1>2, RecoveredTyped
<1>4. w.pc = "recovered" /\ Update("status", w, new, force, w.at)
  BY DEF Recover
<1>b. force \in BOOLEAN
  OBVIOUS
<1>f. force
  OBVIOUS
<1> HIDE DEF new, w, force
<1>5. /\ \/ new = execution /\ UNCHANGED <<execution, revision>> /\ worker'["status"] = Resumed(w)
         \/ /\ new # execution
            /\ revision' = revision + 1 /\ execution' = [new EXCEPT !.rev = revision + 1]
            /\ \/ worker'["status"] = Queued(w, force, w.at)
               \/ ~force /\ worker'["status"] = Resumed(w)
      /\ worker' \in [Workers -> Records] /\ execution' \in Contexts /\ revision' \in Nat
      /\ \A u \in Workers : u # "status" => worker'[u] = worker[u]
      /\ \A u \in Workers : RecordShape(worker'[u])
  BY <1>1, <1>2, <1>3, <1>4, <1>b, UpdateEffect
<1>6. ASSUME execution' = [new EXCEPT !.rev = revision + 1]
      PROVE  execution'.rev = revision + 1
  BY <1>3, <1>6 DEF Contexts
<1>7. /\ Queued(w, force, w.at).pc = "lock" /\ Queued(w, force, w.at).force = force /\ Queued(w, force, w.at).then = w.then
      /\ Queued(w, force, w.at).path = w.path /\ Queued(w, force, w.at).line = w.line /\ Queued(w, force, w.at).seen = w.seen
  BY <1>1, <1>2, <1>b, QueuedShape
<1> QED BY <1>3, <1>4, <1>5, <1>6, <1>7, <1>f DEF w

LEMMA CrashTyped ==
    ASSUME TypeOK, Crash
    PROVE  /\ TypeOK' /\ scene'.requests = scene.requests /\ scene'.words = scene.words
           /\ \A u \in Workers : worker'[u] = IdleWorker
<1>1. /\ scene \in Bounds /\ fw \in Machines /\ onMachine \in [Files -> Versions] /\ entries \in [Files -> Entries]
      /\ stored \in Paths /\ answer \in Answers /\ (fw.state \in Playing <=> fw.file # None)
  BY DEF TypeOK, ActiveTypeOK
<1>2. scene' \in Bounds /\ scene'.requests = scene.requests /\ scene'.words = scene.words
  BY <1>1, SpendKeeps DEF Crash
<1>3. 0 \in Versions /\ None \in Paths
  BY ActiveAssumption DEF Versions, Paths
<1>4. active' \in Actives /\ select' \in [pc : {"idle", "store", "publish"}, path : Paths, ver : Versions]
  BY <1>3 DEF Crash, NoActive, Actives, NoSelect
<1>5. get' \in [pc : GetPCs, window : BOOLEAN, mem : Actives, path : Paths, ver : Versions]
  BY <1>3 DEF Crash, NoGet, NoActive, Actives, GetPCs
<1>6. launch' \in [pc : {"idle", "send"}, path : Paths] /\ own' \in Paths /\ task' \in Tasks
  BY <1>3 DEF Crash, NoTask, Tasks
<1>7. select'.pc = "idle" /\ get'.pc = "idle" /\ launch'.pc = "idle" /\ task'.pc = "idle"
  BY DEF Crash, NoSelect, NoGet, NoTask
<1>8. probe' \in Probes /\ probe'.inFlight = FALSE
  <2>1. ASSUME NEW b \in BOOLEAN
        PROVE  /\ [inFlight |-> FALSE, loaded |-> FALSE, recent |-> FALSE, unsupported |-> b] \in Probes
               /\ [inFlight |-> FALSE, loaded |-> FALSE, recent |-> FALSE, unsupported |-> b].inFlight = FALSE
    BY DEF Probes
  <2>2. (~scene.probe) \in BOOLEAN
    OBVIOUS
  <2>3. probe' = [inFlight |-> FALSE, loaded |-> FALSE, recent |-> FALSE, unsupported |-> ~scene.probe]
    BY DEF Crash
  <2> QED BY <2>1, <2>2, <2>3
<1>9. UNCHANGED <<fw, onMachine, entries, stored, answer>>
  BY DEF Crash
<1>10. ActiveTypeOK'
  BY <1>1, <1>2, <1>4, <1>5, <1>6, <1>7, <1>8, <1>9 DEF ActiveTypeOK
<1>11. worker' \in [Workers -> Records] /\ \A u \in Workers : worker'[u] = IdleWorker /\ RecordShape(worker'[u])
  BY IdleShape DEF Crash, RecordShape
<1>12. /\ status' = None /\ execution' \in Contexts /\ saved' \in Contexts /\ persistMu' = None
       /\ recovery' = [path |-> None, at |-> 0] /\ clock' = clock /\ persistedAt' = 0 /\ revision' = revision
  BY DEF Crash, TypeOK
<1>13. clock \in 1 .. MaxClock /\ revision \in Nat /\ 0 \in 0 .. MaxClock
  BY ContextAssumption DEF TypeOK
<1>14. recovery' \in [path : Paths, at : 0 .. MaxClock]
  BY <1>3, <1>12, <1>13
<1>15. TypeOK'
  BY <1>10, <1>11, <1>12, <1>13, <1>14, TypedBy
<1> QED BY <1>2, <1>11, <1>15

LEMMA ContextTyped ==
    ASSUME TypeOK, ObserverInv, ContextNext
    PROVE  TypeOK'
<1>f. /\ ActiveTypeOK /\ (status # None => status \in Reports) /\ execution \in Contexts /\ saved \in Contexts
      /\ persistMu \in Workers \cup {None} /\ worker \in [Workers -> Records]
      /\ \A u \in Workers : RecordShape(worker[u])
      /\ recovery \in [path : Paths, at : 0 .. MaxClock]
      /\ clock \in 1 .. MaxClock /\ persistedAt \in 0 .. MaxClock /\ revision \in Nat
  BY Fields
<1>1. CASE ReportStatus
  <2>1. ActiveTypeOK'
    BY <1>1, <1>f DEF ReportStatus, ActiveTypeOK, selectVars, probeVars
  <2>2. status' \in Reports /\ UNCHANGED contextVars
    BY <1>1, ReportTyped DEF ReportStatus
  <2> QED BY <1>f, <2>1, <2>2, TypedBy DEF contextVars
<1>2. CASE ObserveStatus
  <2>1. /\ probe' \in Probes /\ task' \in Tasks /\ (probe'.inFlight <=> task'.pc # "idle")
        /\ task'.pc \in {"report", "record", "cache"} => task'.path # None
    BY <1>2, <1>f, ProbedTyped DEF ObserveStatus
  <2>2. ActiveTypeOK'
    BY <1>2, <1>f, <2>1 DEF ObserveStatus, ActiveTypeOK, selectVars
  <2>3. /\ execution' \in Contexts /\ worker' \in [Workers -> Records] /\ revision' \in Nat
        /\ \A u \in Workers : RecordShape(worker'[u])
    <3>1. CASE scene.context
      BY <1>2, <3>1, ObserveEffect
    <3>2. CASE ~scene.context
      BY <1>2, <1>f, <3>2 DEF ObserveStatus
    <3> QED BY <3>1, <3>2
  <2>4. status' = None /\ UNCHANGED <<saved, persistedAt, persistMu, recovery, clock>>
    BY <1>2 DEF ObserveStatus
  <2> QED BY <1>f, <2>2, <2>3, <2>4, TypedBy
<1>3. CASE RecoverNot
  <2>1. Become("status", IdleWorker) /\ "status" \in Workers
    BY <1>3 DEF RecoverNot, Workers
  <2>2. worker' \in [Workers -> Records] /\ \A u \in Workers : RecordShape(worker'[u])
    BY <2>1, BecomeTyped, IdleShape
  <2>3. /\ ActiveTypeOK' /\ status' = status
        /\ UNCHANGED <<execution, saved, persistedAt, persistMu, recovery, clock, revision>>
    BY <1>3, <1>f, ActiveUnchanged DEF RecoverNot
  <2> QED BY <1>f, <2>2, <2>3, TypedBy
<1>4. CASE Scan
  <2>1. PICK r : Become("status", r) /\ RecordShape(r)
    BY <1>4, ScanEffect
  <2>2. worker' \in [Workers -> Records] /\ \A u \in Workers : RecordShape(worker'[u])
    BY <2>1, BecomeTyped DEF Workers
  <2>3. worker["status"].path \in Paths
    BY <1>f DEF Workers, RecordShape, Records
  <2>4. recovery' = [path |-> worker["status"].path, at |-> clock]
    BY <1>4 DEF Scan
  <2>5. recovery' \in [path : Paths, at : 0 .. MaxClock]
    BY <1>f, <2>3, <2>4
  <2>6. ActiveTypeOK' /\ status' = status /\ UNCHANGED <<execution, saved, persistedAt, persistMu, clock, revision>>
    BY <1>4, <1>f, ActiveUnchanged DEF Scan
  <2> QED BY <1>f, <2>2, <2>5, <2>6, TypedBy
<1>5. CASE Recover
  <2>1. /\ worker' \in [Workers -> Records] /\ execution' \in Contexts /\ revision' \in Nat
        /\ \A u \in Workers : RecordShape(worker'[u])
    BY <1>5, RecoverEffect
  <2>2. ActiveTypeOK' /\ status' = status /\ UNCHANGED <<saved, persistedAt, persistMu, recovery, clock>>
    BY <1>5, <1>f, ActiveUnchanged DEF Recover
  <2> QED BY <1>f, <2>1, <2>2, TypedBy
<1>6. CASE Tick
  <2>1. clock' \in 1 .. MaxClock
    BY <1>6, <1>f, ContextAssumption DEF Tick
  <2>2. /\ ActiveTypeOK' /\ status' = status
        /\ UNCHANGED <<execution, saved, persistedAt, persistMu, worker, recovery, revision>>
    BY <1>6, <1>f, ActiveUnchanged DEF Tick
  <2> QED BY <1>f, <2>1, <2>2, TypedBy
<1>7. CASE Crash
  BY <1>7, CrashTyped
<1>8. ASSUME NEW t \in Workers, Lock(t) PROVE TypeOK'
  <2>1. /\ worker' \in [Workers -> Records] /\ \A u \in Workers : RecordShape(worker'[u])
        /\ persistMu' \in Workers \cup {None}
    BY <1>8, <1>f, LockEffect
  <2>2. ActiveTypeOK' /\ status' = status /\ UNCHANGED <<execution, saved, persistedAt, recovery, clock, revision>>
    BY <1>8, <1>f, ActiveUnchanged DEF Lock
  <2> QED BY <1>f, <2>1, <2>2, TypedBy
<1>9. ASSUME NEW t \in Workers, Write(t) PROVE TypeOK'
  <2>1. worker' \in [Workers -> Records] /\ saved' \in Contexts /\ \A u \in Workers : RecordShape(worker'[u])
    BY <1>9, WriteEffect
  <2>2. ActiveTypeOK' /\ status' = status /\ UNCHANGED <<execution, persistedAt, persistMu, recovery, clock, revision>>
    BY <1>9, <1>f, ActiveUnchanged DEF Write
  <2> QED BY <1>f, <2>1, <2>2, TypedBy
<1>10. ASSUME NEW t \in Workers, WriteFails(t) PROVE TypeOK'
  <2>1. worker' \in [Workers -> Records] /\ persistMu' = None /\ \A u \in Workers : RecordShape(worker'[u])
    BY <1>10, ReturnEffect DEF WriteFails
  <2>2. ActiveTypeOK' /\ status' = status /\ UNCHANGED <<execution, saved, persistedAt, recovery, clock, revision>>
    BY <1>10, <1>f, ActiveUnchanged DEF WriteFails
  <2> QED BY <1>f, <2>1, <2>2, TypedBy
<1>11. ASSUME NEW t \in Workers, Stamp(t) PROVE TypeOK'
  <2>1. worker' \in [Workers -> Records] /\ persistMu' = None /\ \A u \in Workers : RecordShape(worker'[u])
    BY <1>11, ReturnEffect DEF Stamp
  <2>2. worker[t].at \in 0 .. MaxClock
    BY <1>f DEF RecordShape, Records
  <2>3. persistedAt' \in 0 .. MaxClock
    BY <1>11, <1>f, <2>2 DEF Stamp
  <2>4. ActiveTypeOK' /\ status' = status /\ UNCHANGED <<execution, saved, recovery, clock, revision>>
    BY <1>11, <1>f, ActiveUnchanged DEF Stamp
  <2> QED BY <1>f, <2>1, <2>3, <2>4, TypedBy
<1>12. ASSUME NEW t \in Workers, Record(t) PROVE TypeOK'
  <2>o. t \in {"log", "api"}
    BY <1>12 DEF Record, ObserverInv, Workers
  <2>1. /\ worker' \in [Workers -> Records] /\ execution' \in Contexts /\ revision' \in Nat
        /\ \A u \in Workers : RecordShape(worker'[u])
    BY <1>12, <2>o, RecordEffect
  <2>2. ActiveTypeOK' /\ status' = status /\ UNCHANGED <<saved, persistedAt, persistMu, recovery, clock>>
    BY <1>12, <1>f, ActiveUnchanged DEF Record
  <2> QED BY <1>f, <2>1, <2>2, TypedBy
<1>13. ASSUME NEW t \in Workers, NEW w \in Commands, Command(t, w) PROVE TypeOK'
  <2>1. /\ worker' \in [Workers -> Records] /\ scene' \in Bounds /\ fw' \in Machines /\ fw'.state = fw.state
        /\ fw'.file = fw.file /\ \A u \in Workers : RecordShape(worker'[u])
    BY <1>13, CommandEffect
  <2>2. /\ UNCHANGED <<onMachine, entries, stored, active, select, get, answer, launch, own, probe, task, status>>
        /\ UNCHANGED <<execution, saved, persistedAt, persistMu, recovery, clock, revision>>
    BY <1>13 DEF Command, selectVars, probeVars
  <2>3. ActiveTypeOK'
    BY <1>f, <2>1, <2>2 DEF ActiveTypeOK
  <2> QED BY <1>f, <2>1, <2>2, <2>3, TypedBy
<1> QED BY <1>1, <1>2, <1>3, <1>4, <1>5, <1>6, <1>7, <1>8, <1>9, <1>10, <1>11, <1>12, <1>13 DEF ContextNext

-----------------------------------------------------------------------------
(* What the steps of the selection and of the context leave alone.          *)

\* Nothing but a request spends the bounds, and what a scene allows stays.
LEMMA ActiveScene ==
    ASSUME ActiveTypeOK, ActiveNext
    PROVE  scene'.requests = scene.requests /\ scene'.words = scene.words
<1>1. scene \in Bounds
  BY DEF ActiveTypeOK
<1>2. CASE Machine
  <2>1. ASSUME NEW f \in Files, Play(f) PROVE scene'.requests = scene.requests /\ scene'.words = scene.words
    BY <2>1, BeginTyped DEF Play
  <2> QED BY <1>2, <2>1 DEF Machine, PlayLine, PauseResume
<1>3. CASE Catalog
  <2>1. ASSUME NEW f \in Files, Upload(f) \/ Deleted(f)
        PROVE  scene'.requests = scene.requests /\ scene'.words = scene.words
    BY <1>1, <2>1, SpendKeeps DEF Upload, Deleted
  <2> QED BY <1>3, <2>1 DEF Catalog, Uploaded
<1>4. CASE Select
  <2>1. ASSUME NEW f \in Files, SelectOpen(f) PROVE scene'.requests = scene.requests /\ scene'.words = scene.words
    BY <1>1, <2>1, SpendKeeps DEF SelectOpen
  <2> QED BY <1>4, <2>1 DEF Select, SelectStore, SelectPublish
<1>5. CASE Get
  <2>1. ASSUME NEW w \in BOOLEAN, Start(w) PROVE scene'.requests = scene.requests /\ scene'.words = scene.words
    BY <1>1, <2>1, SpendKeeps DEF Start
  <2> QED BY <1>5, <2>1 DEF Get, EnsureStored, EnsureActive, GetActive, GetStored, GetEntry, GetParse, GetPublish,
             ClearActive, ClearCheck, ClearStore, Reread
<1>6. CASE RunActive
  <2>1. ASSUME RunCheck PROVE scene'.requests = scene.requests /\ scene'.words = scene.words
    BY <1>1, <2>1, SpendKeeps DEF RunCheck
  <2>2. ASSUME RunSend PROVE scene'.requests = scene.requests /\ scene'.words = scene.words
    <3>1. launch.path \in Files
      BY <2>2 DEF RunSend, ActiveTypeOK, Paths
    <3> QED BY <2>2, <3>1, BeginTyped DEF RunSend
  <2> QED BY <1>6, <2>1, <2>2 DEF RunActive
<1>7. CASE Task \/ ProbeInterval
  BY <1>7 DEF Task, TaskQuery, TaskQueryFails, TaskVerify, TaskRecord, TaskCache, TaskDone, ProbeInterval
<1> QED BY <1>2, <1>3, <1>4, <1>5, <1>6, <1>7 DEF ActiveNext

LEMMA SceneKept ==
    ASSUME TypeOK, [Next]_vars
    PROVE  scene'.requests = scene.requests /\ scene'.words = scene.words
<1>1. CASE ActiveNext
  BY <1>1, ActiveScene DEF TypeOK
<1>2. CASE Crash
  BY <1>2, CrashTyped
<1>3. ASSUME NEW t \in Workers, NEW w \in Commands, Command(t, w)
      PROVE  scene'.requests = scene.requests /\ scene'.words = scene.words
  BY <1>3, CommandEffect
<1>4. CASE ReportStatus \/ ObserveStatus \/ RecoverNot \/ Scan \/ Recover \/ Tick
  BY <1>4 DEF ReportStatus, ObserveStatus, RecoverNot, Scan, Recover, Tick, activeVars
<1>5. CASE \E t \in Workers : Lock(t) \/ Write(t) \/ WriteFails(t) \/ Stamp(t) \/ Record(t)
  BY <1>5 DEF Lock, Write, WriteFails, Stamp, Record, activeVars
<1>6. CASE UNCHANGED vars
  BY <1>6 DEF vars, activeVars
<1> QED BY <1>1, <1>2, <1>3, <1>4, <1>5, <1>6 DEF Next, ContextNext

\* A step of a worker outside the observer's own.
WorkerStep(t) ==
    \/ Lock(t) \/ Write(t) \/ WriteFails(t) \/ Stamp(t) \/ Record(t)
    \/ \E w \in Commands : Command(t, w)

\* It goes on, or on its way to a checkpoint, with what it had to scan.
Goes(t) ==
    \/ worker'[t] = Resumed(worker[t])
    \/ /\ worker'[t].pc \in {"lock", "write", "stamp"} /\ worker'[t].then = worker[t].then
       /\ worker'[t].path = worker[t].path /\ worker'[t].line = worker[t].line /\ worker'[t].seen = worker[t].seen
    \/ worker'[t].pc = "record" /\ worker'[t].then = "idle" /\ t # "status"

LEMMA WorkerGoes ==
    ASSUME TypeOK, ObserverInv, NEW t \in Workers, WorkerStep(t)
    PROVE  Goes(t) /\ (\A u \in Workers : u # t => worker'[u] = worker[u]) /\ status' = status
<1>1. CASE Lock(t)
  BY <1>1, LockEffect DEF Goes, Lock, activeVars
<1>2. CASE Write(t)
  BY <1>2, WriteEffect DEF Goes, Write, activeVars
<1>3. CASE WriteFails(t) \/ Stamp(t)
  BY <1>3, ReturnEffect DEF Goes, WriteFails, Stamp, activeVars
<1>4. CASE Record(t)
  <2>1. t \in {"log", "api"}
    BY <1>4 DEF Record, ObserverInv, Workers
  <2> QED BY <1>4, <2>1, RecordEffect DEF Goes, Record, activeVars
<1>5. ASSUME NEW w \in Commands, Command(t, w)
      PROVE  Goes(t) /\ (\A u \in Workers : u # t => worker'[u] = worker[u]) /\ status' = status
  BY <1>5, CommandEffect DEF Goes, Command
<1> QED BY <1>1, <1>2, <1>3, <1>4, <1>5 DEF WorkerStep

\* The other steps, in which the workers stay where they are.
Quiet == UNCHANGED <<execution, saved, persistMu, worker, revision>>

LEMMA StepCases ==
    ASSUME TypeOK, [Next]_vars
    PROVE  \/ Quiet
           \/ ObserveStatus /\ scene.context
           \/ RecoverNot \/ Scan \/ Recover \/ Crash
           \/ \E t \in Workers : WorkerStep(t)
<1>1. CASE ActiveNext /\ UNCHANGED contextVars
  BY <1>1 DEF contextVars, Quiet
<1>2. CASE ReportStatus \/ Tick
  BY <1>2 DEF ReportStatus, Tick, contextVars, Quiet
<1>3. CASE ObserveStatus /\ ~scene.context
  BY <1>3 DEF ObserveStatus, Quiet
<1>4. CASE UNCHANGED vars
  BY <1>4 DEF vars, contextVars, Quiet
<1> QED BY <1>1, <1>2, <1>3, <1>4 DEF Next, ContextNext, WorkerStep

-----------------------------------------------------------------------------
(* The invariants are kept.                                                 *)

LEMMA ScanGoes ==
    ASSUME TypeOK, Scan
    PROVE  /\ \/ worker'["status"] = IdleWorker
              \/ worker'["status"].pc = "recovered"
           /\ \A u \in Workers : u # "status" => worker'[u] = worker[u]
           /\ worker["status"].pc = "recover"
<1>1. PICK r : Become("status", r) /\ RecordShape(r) /\ (r = IdleWorker \/ r.pc = "recovered")
  BY ScanEffect
<1>2. worker["status"].pc = "recover" /\ "status" \in Workers
  BY DEF Scan, Workers
<1> QED BY <1>1, <1>2, BecomeTyped

LEMMA ObserverKept ==
    ASSUME TypeOK, ObserverInv, [Next]_vars
    PROVE  ObserverInv'
<1>1. CASE Quiet
  BY <1>1 DEF Quiet, ObserverInv
<1>2. ASSUME \A u \in Workers : u # "status" => worker'[u] = worker[u], worker'["status"].pc # "record"
      PROVE  ObserverInv'
  BY <1>2 DEF ObserverInv, Workers
<1>3. CASE ObserveStatus /\ scene.context
  <2>1. RecordShape(ObserverRecord)
    BY <1>3, ObserverShape DEF ObserveStatus
  <2>2. /\ \/ worker'["status"] = Resumed(ObserverRecord)
           \/ worker'["status"].pc = "lock"
        /\ \A u \in Workers : u # "status" => worker'[u] = worker[u]
    BY <1>3, ObserveEffect
  <2>3. Resumed(ObserverRecord).pc # "record"
    BY <2>1, ResumedShape
  <2> QED BY <1>2, <2>2, <2>3
<1>4. CASE RecoverNot
  <2>1. /\ worker'["status"] = IdleWorker
        /\ \A u \in Workers : u # "status" => worker'[u] = worker[u]
    BY <1>4, BecomeTyped, IdleShape DEF RecoverNot, Workers
  <2> QED BY <1>2, <2>1, IdleShape
<1>5. CASE Scan
  BY <1>2, <1>5, ScanGoes, IdleShape
<1>6. CASE Recover
  <2>1. Resumed(worker["status"]).pc # "record"
    BY WorkerShape, ResumedShape DEF Workers
  <2> QED BY <1>2, <1>6, <2>1, RecoverEffect
<1>7. CASE Crash
  <2>1. \A u \in Workers : worker'[u] = IdleWorker
    BY <1>7, CrashTyped
  <2> QED BY <2>1, IdleShape DEF ObserverInv, Workers
<1>8. ASSUME NEW t \in Workers, WorkerStep(t) PROVE ObserverInv'
  <2>1. Goes(t) /\ (\A u \in Workers : u # t => worker'[u] = worker[u])
    BY <1>8, WorkerGoes
  <2>2. /\ Resumed(worker[t]).pc \in {"idle", "recover"} /\ Resumed(worker[t]).then = "idle"
        /\ Resumed(worker[t]).pc = "recover" => worker[t].then = "recover"
    BY WorkerShape, ResumedShape
  <2>3. worker'[t].pc = "record" => t # "status"
    BY <2>1, <2>2 DEF Goes
  <2>4. t # "status" => worker'[t].then = "idle" /\ worker'[t].pc \notin {"recover", "recovered"}
    <3>1. t # "status" => worker[t].then = "idle"
      BY DEF ObserverInv
    <3> QED BY <2>1, <2>2, <3>1 DEF Goes
  <2> QED BY <2>1, <2>3, <2>4 DEF ObserverInv, Workers
<1> QED BY <1>1, <1>3, <1>4, <1>5, <1>6, <1>7, <1>8, StepCases

LEMMA CheckpointKept ==
    ASSUME TypeOK, ObserverInv, CheckpointInv, [Next]_vars
    PROVE  CheckpointInv'
<1>f. /\ execution \in Contexts /\ saved \in Contexts /\ revision \in Nat
      /\ execution.rev \in Nat /\ saved.rev \in Nat
      /\ \A u \in Workers : RecordShape(worker[u])
      /\ \A u \in Workers : worker[u].snap.rev \in Nat
  <2>1. \A u \in Workers : worker[u].snap \in Contexts
    BY WorkerShape DEF RecordShape, Records
  <2> QED BY <2>1, Fields DEF Contexts
<1>i. /\ \A u \in Workers : worker[u].pc \in {"write", "stamp"} => persistMu = u
      /\ saved.rev <= execution.rev /\ execution.rev <= revision
      /\ \A u \in Workers : worker[u].pc = "write" =>
             saved.rev <= worker[u].snap.rev /\ worker[u].snap.rev <= execution.rev
  BY DEF CheckpointInv
<1>1. CASE Quiet
  BY <1>1 DEF Quiet, CheckpointInv
\* One goroutine goes to a place where it holds no lock; the context may have advanced.
<1>2. ASSUME NEW t \in Workers, worker'[t].pc \notin {"write", "stamp"},
             \A u \in Workers : u # t => worker'[u] = worker[u],
             UNCHANGED <<saved, persistMu>>,
             \/ UNCHANGED <<execution, revision>>
             \/ revision' = revision + 1 /\ execution'.rev = revision + 1
      PROVE  CheckpointInv'
  <2>1. saved'.rev <= execution'.rev /\ execution'.rev <= revision' /\ execution.rev <= execution'.rev
    BY <1>f, <1>i, <1>2
  <2>2. execution'.rev \in Nat
    BY <1>f, <1>2
  <2>3. ASSUME NEW u \in Workers, worker'[u].pc = "write"
        PROVE  saved'.rev <= worker'[u].snap.rev /\ worker'[u].snap.rev <= execution'.rev
    <3>1. worker'[u] = worker[u] /\ worker[u].pc = "write"
      BY <1>2, <2>3
    <3>2. saved.rev <= worker[u].snap.rev /\ worker[u].snap.rev <= execution.rev
      BY <1>i, <3>1
    <3> QED BY <1>f, <1>2, <2>1, <2>2, <3>1, <3>2
  <2>4. \A u \in Workers : worker'[u].pc \in {"write", "stamp"} => persistMu' = u
    BY <1>i, <1>2
  <2> QED BY <2>1, <2>3, <2>4 DEF CheckpointInv
<1>3. CASE ObserveStatus /\ scene.context
  <2>1. Resumed(ObserverRecord).pc \in {"idle", "recover"}
    BY <1>3, ObserverShape, ResumedShape DEF ObserveStatus
  <2>2. worker'["status"].pc \notin {"write", "stamp"}
    BY <1>3, <2>1, ObserveEffect
  <2>3. UNCHANGED <<saved, persistMu>>
    BY <1>3 DEF ObserveStatus
  <2>4. /\ \A u \in Workers : u # "status" => worker'[u] = worker[u]
        /\ \/ UNCHANGED <<execution, revision>>
           \/ revision' = revision + 1 /\ execution'.rev = revision + 1
    BY <1>3, ObserveEffect
  <2> QED BY <1>2, <2>2, <2>3, <2>4 DEF Workers
<1>4. CASE RecoverNot
  <2>1. /\ worker'["status"] = IdleWorker
        /\ \A u \in Workers : u # "status" => worker'[u] = worker[u]
    BY <1>4, BecomeTyped, IdleShape DEF RecoverNot, Workers
  <2> QED BY <1>2, <1>4, <2>1, IdleShape DEF RecoverNot, Workers
<1>5. CASE Scan
  <2>1. worker'["status"].pc \notin {"write", "stamp"} /\ \A u \in Workers : u # "status" => worker'[u] = worker[u]
    BY <1>5, ScanGoes, IdleShape
  <2> QED BY <1>2, <1>5, <2>1 DEF Scan, Workers
<1>6. CASE Recover
  <2>1. Resumed(worker["status"]).pc \in {"idle", "recover"}
    BY <1>f, ResumedShape DEF Workers
  <2>2. worker'["status"].pc \notin {"write", "stamp"}
    BY <1>6, <2>1, RecoverEffect
  <2>3. /\ \A u \in Workers : u # "status" => worker'[u] = worker[u]
        /\ \/ UNCHANGED <<execution, revision>>
           \/ revision' = revision + 1 /\ execution'.rev = revision + 1
    BY <1>6, RecoverEffect
  <2>4. UNCHANGED <<saved, persistMu>>
    BY <1>6 DEF Recover
  <2> QED BY <1>2, <2>2, <2>3, <2>4 DEF Workers
<1>7. CASE Crash
  <2>1. \A u \in Workers : worker'[u].pc = "idle"
    BY <1>7, CrashTyped, IdleShape
  <2>2. execution' = saved /\ saved' = saved /\ revision' = revision
    BY <1>7 DEF Crash
  <2>3. saved.rev <= saved.rev /\ saved.rev <= revision
    BY <1>f, <1>i
  <2> QED BY <2>1, <2>2, <2>3 DEF CheckpointInv
<1>8. ASSUME NEW t \in Workers, Lock(t) PROVE CheckpointInv'
  <2>1. CASE persistMu' = persistMu /\ worker'[t] = Resumed(worker[t])
    <3>1. worker'[t].pc \notin {"write", "stamp"}
      BY <1>f, <2>1, ResumedShape
    <3> QED BY <1>2, <1>8, <2>1, <3>1, LockEffect DEF Lock
  <2>2. CASE persistMu = None /\ persistMu' = t /\ worker'[t].pc = "write" /\ worker'[t].snap = execution
    <3>1. \A u \in Workers : u # t => worker'[u] = worker[u]
      BY <1>8, LockEffect
    <3>2. \A u \in Workers : worker[u].pc \notin {"write", "stamp"}
      BY <1>i, <2>2, ContextAssumption
    <3>3. UNCHANGED <<execution, saved, revision>>
      BY <1>8 DEF Lock
    <3>4. \A u \in Workers : worker'[u].pc \in {"write", "stamp"} => u = t
      BY <3>1, <3>2
    <3>5. saved.rev <= execution.rev /\ execution.rev <= execution.rev
      BY <1>f, <1>i
    <3> QED BY <1>i, <2>2, <3>3, <3>4, <3>5 DEF CheckpointInv
  <2> QED BY <1>8, <2>1, <2>2, LockEffect
<1>9. ASSUME NEW t \in Workers, Write(t) PROVE CheckpointInv'
  <2>1. /\ worker[t].pc = "write" /\ saved' = worker[t].snap /\ worker'[t].pc = "stamp"
        /\ \A u \in Workers : u # t => worker'[u] = worker[u]
    BY <1>9, WriteEffect
  <2>2. UNCHANGED <<execution, persistMu, revision>>
    BY <1>9 DEF Write
  <2>3. persistMu = t /\ worker[t].snap.rev <= execution.rev
    BY <1>i, <2>1
  <2>4. \A u \in Workers : worker'[u].pc = "write" => FALSE
    BY <1>i, <2>1, <2>3
  <2>5. \A u \in Workers : worker'[u].pc = "stamp" => persistMu = u
    BY <1>i, <2>1, <2>3
  <2> QED BY <1>i, <2>1, <2>2, <2>3, <2>4, <2>5 DEF CheckpointInv
<1>10. ASSUME NEW t \in Workers, WriteFails(t) \/ Stamp(t) PROVE CheckpointInv'
  <2>1. /\ worker[t].pc \in {"write", "stamp"} /\ Return(t)
        /\ UNCHANGED <<execution, saved, revision>>
    BY <1>10 DEF WriteFails, Stamp
  <2>2. worker'[t].pc \notin {"write", "stamp"} /\ \A u \in Workers : u # t => worker'[u] = worker[u]
    BY <1>f, <2>1, ReturnEffect, ResumedShape
  <2>3. \A u \in Workers : worker'[u].pc \notin {"write", "stamp"}
    BY <1>i, <2>1, <2>2
  <2> QED BY <1>i, <2>1, <2>3 DEF CheckpointInv
<1>11. ASSUME NEW t \in Workers, Record(t) PROVE CheckpointInv'
  <2>1. t \in {"log", "api"}
    BY <1>11 DEF Record, ObserverInv, Workers
  <2>2. worker'[t].pc \notin {"write", "stamp"}
    BY <1>f, <1>11, <2>1, RecordEffect, ResumedShape
  <2>3. /\ \A u \in Workers : u # t => worker'[u] = worker[u]
        /\ \/ UNCHANGED <<execution, revision>>
           \/ revision' = revision + 1 /\ execution'.rev = revision + 1
    BY <1>11, <2>1, RecordEffect
  <2>4. UNCHANGED <<saved, persistMu>>
    BY <1>11 DEF Record
  <2> QED BY <1>2, <2>2, <2>3, <2>4
<1>12. ASSUME NEW t \in Workers, NEW w \in Commands, Command(t, w) PROVE CheckpointInv'
  <2>1. worker'[t].pc \notin {"write", "stamp"} /\ \A u \in Workers : u # t => worker'[u] = worker[u]
    BY <1>12, CommandEffect
  <2> QED BY <1>2, <1>12, <2>1 DEF Command
<1> QED BY <1>1, <1>3, <1>4, <1>5, <1>6, <1>7, <1>8, <1>9, <1>10, <1>11, <1>12, StepCases DEF WorkerStep

LEMMA KeepsIsOrder ==
    /\ \A c : Keeps(c, c)
    /\ \A a, b, c : Keeps(a, b) /\ Keeps(b, c) => Keeps(a, c)
BY DEF Keeps

LEMMA DurableKept ==
    ASSUME TypeOK, ObserverInv, CheckpointInv, DurableInv, [Next]_vars
    PROVE  DurableInv'
<1>s. scene'.requests = scene.requests
  BY SceneKept
<1>i. "fail" \notin scene.requests /\ ~Waiting =>
         /\ \A u \in Workers : worker[u].pc = "write" => Keeps(worker[u].snap, execution)
         /\ Writing \/ Keeps(saved, execution)
  BY DEF DurableInv
<1>m. \A u \in Workers : worker[u].pc \in {"write", "stamp"} => persistMu = u
  BY DEF CheckpointInv
<1>f. \A u \in Workers : RecordShape(worker[u])
  BY Fields
<1>w. (\E u \in Workers : worker'[u].pc = "lock" /\ worker'[u].force) => DurableInv'
  BY DEF DurableInv, Waiting
<1>1. CASE Quiet
  BY <1>1, <1>s DEF Quiet, DurableInv, Waiting, Writing
\* A goroutine moves outside the checkpoint; what the context gains keeps what was said.
<1>2. ASSUME NEW t \in Workers, worker[t].pc \notin {"lock", "write"}, worker'[t].pc # "write",
             \A u \in Workers : u # t => worker'[u] = worker[u], saved' = saved, Keeps(execution, execution')
      PROVE  DurableInv'
  <2> SUFFICES ASSUME "fail" \notin scene'.requests, ~Waiting'
               PROVE  /\ \A u \in Workers : worker'[u].pc = "write" => Keeps(worker'[u].snap, execution')
                      /\ Writing' \/ Keeps(saved', execution')
    BY DEF DurableInv
  <2>1. \A u \in Workers : ~(worker'[u].pc = "lock" /\ worker'[u].force)
    BY DEF Waiting
  <2>2. ~Waiting
    BY <1>2, <2>1 DEF Waiting
  <2>3. /\ \A u \in Workers : worker[u].pc = "write" => Keeps(worker[u].snap, execution)
        /\ Writing \/ Keeps(saved, execution)
    BY <1>i, <1>s, <2>2
  <2>4. ASSUME NEW u \in Workers, worker'[u].pc = "write" PROVE Keeps(worker'[u].snap, execution')
    <3>1. worker'[u] = worker[u] /\ worker[u].pc = "write"
      BY <1>2, <2>4
    <3>2. Keeps(worker[u].snap, execution)
      BY <2>3, <3>1
    <3> QED BY <1>2, <3>1, <3>2, KeepsIsOrder
  <2>5. CASE Writing
    <3>1. PICK u \in Workers : worker[u].pc = "write"
      BY <2>5 DEF Writing
    <3>2. worker'[u].pc = "write"
      BY <1>2, <3>1
    <3> QED BY <2>4, <3>2 DEF Writing
  <2>6. CASE Keeps(saved, execution)
    BY <1>2, <2>4, <2>6, KeepsIsOrder
  <2> QED BY <2>3, <2>5, <2>6
<1>k. Keeps(execution, execution)
  BY KeepsIsOrder
<1>3. CASE ObserveStatus /\ scene.context
  <2>1. Resumed(ObserverRecord).pc # "write"
    BY <1>3, ObserverShape, ResumedShape DEF ObserveStatus
  <2>2. /\ worker["status"].pc = "idle" /\ \A u \in Workers : u # "status" => worker'[u] = worker[u]
        /\ worker'["status"] = Resumed(ObserverRecord) \/ worker'["status"].pc = "lock"
        /\ execution' = execution \/ Keeps(execution, execution')
    BY <1>3, ObserveEffect
  <2>3. Keeps(execution, execution')
    BY <1>k, <2>2
  <2>4. saved' = saved
    BY <1>3 DEF ObserveStatus
  <2> QED BY <1>2, <2>1, <2>2, <2>3, <2>4 DEF Workers
<1>4. CASE RecoverNot
  <2>1. /\ worker'["status"] = IdleWorker
        /\ \A u \in Workers : u # "status" => worker'[u] = worker[u]
    BY <1>4, BecomeTyped, IdleShape DEF RecoverNot, Workers
  <2>2. saved' = saved /\ execution' = execution /\ worker["status"].pc = "recover"
    BY <1>4 DEF RecoverNot
  <2> QED BY <1>2, <1>k, <2>1, <2>2, IdleShape DEF Workers
<1>5. CASE Scan
  <2>1. /\ worker'["status"].pc # "write" /\ \A u \in Workers : u # "status" => worker'[u] = worker[u]
        /\ worker["status"].pc = "recover"
    BY <1>5, ScanGoes, IdleShape
  <2>2. saved' = saved /\ execution' = execution
    BY <1>5 DEF Scan
  <2> QED BY <1>2, <1>k, <2>1, <2>2 DEF Workers
<1>6. CASE Recover
  <2>1. CASE UNCHANGED <<execution, revision>> /\ worker'["status"] = Resumed(worker["status"])
    <3>1. Resumed(worker["status"]).pc # "write"
      BY <1>f, ResumedShape DEF Workers
    <3>2. worker["status"].pc = "recovered" /\ \A u \in Workers : u # "status" => worker'[u] = worker[u]
      BY <1>6, RecoverEffect
    <3>3. saved' = saved
      BY <1>6 DEF Recover
    <3> QED BY <1>2, <1>k, <2>1, <3>1, <3>2, <3>3 DEF Workers
  <2>2. CASE worker'["status"].pc = "lock" /\ worker'["status"].force
    BY <1>w, <2>2 DEF Workers
  <2> QED BY <1>6, <2>1, <2>2, RecoverEffect
<1>7. CASE Crash
  <2>1. \A u \in Workers : worker'[u].pc = "idle"
    BY <1>7, CrashTyped, IdleShape
  <2>2. execution' = saved /\ saved' = saved
    BY <1>7 DEF Crash
  <2> QED BY <2>1, <2>2, KeepsIsOrder DEF DurableInv
<1>8. ASSUME NEW t \in Workers, Lock(t) PROVE DurableInv'
  <2>u. saved' = saved /\ execution' = execution
    BY <1>8 DEF Lock
  <2>1. CASE worker'[t] = Resumed(worker[t]) /\ ~worker[t].force
    <3>0. Resumed(worker[t]).pc \in {"idle", "recover"}
      BY <1>f, ResumedShape
    <3>1. worker'[t].pc \notin {"lock", "write"} /\ worker[t].pc = "lock"
      BY <1>8, <2>1, <3>0 DEF Lock
    <3>2. \A u \in Workers : u # t => worker'[u] = worker[u]
      BY <1>8, LockEffect
    <3>3. Waiting' <=> Waiting
      BY <2>1, <3>1, <3>2 DEF Waiting
    <3>4. Writing' <=> Writing
      BY <3>1, <3>2 DEF Writing
    <3>5. \A u \in Workers : worker'[u].pc = "write" => worker'[u] = worker[u]
      BY <3>1, <3>2
    <3> QED BY <1>i, <1>s, <2>u, <3>3, <3>4, <3>5 DEF DurableInv
  <2>2. CASE persistMu = None /\ worker'[t].pc = "write" /\ worker'[t].snap = execution
    <3>1. \A u \in Workers : u # t => worker'[u] = worker[u]
      BY <1>8, LockEffect
    <3>2. \A u \in Workers : worker[u].pc # "write"
      BY <1>m, <2>2, ContextAssumption
    <3>3. \A u \in Workers : worker'[u].pc = "write" => u = t
      BY <3>1, <3>2
    <3>4. Writing'
      BY <2>2 DEF Writing
    <3> QED BY <1>k, <2>u, <2>2, <3>3, <3>4 DEF DurableInv
  <2> QED BY <1>8, <2>1, <2>2, LockEffect
<1>9. ASSUME NEW t \in Workers, Write(t) PROVE DurableInv'
  <2>1. /\ worker[t].pc = "write" /\ saved' = worker[t].snap /\ worker'[t].pc = "stamp"
        /\ \A u \in Workers : u # t => worker'[u] = worker[u]
    BY <1>9, WriteEffect
  <2>2. execution' = execution
    BY <1>9 DEF Write
  <2>3. \A u \in Workers : worker'[u].pc # "write"
    BY <1>m, <2>1
  <2>4. Waiting' <=> Waiting
    BY <2>1 DEF Waiting
  <2> QED BY <1>i, <1>s, <2>1, <2>2, <2>3, <2>4 DEF DurableInv
<1>10. ASSUME NEW t \in Workers, WriteFails(t) PROVE DurableInv'
  BY <1>10, <1>s DEF WriteFails, DurableInv
<1>11. ASSUME NEW t \in Workers, Stamp(t) PROVE DurableInv'
  <2>1. worker[t].pc = "stamp" /\ Return(t) /\ UNCHANGED <<execution, saved>>
    BY <1>11 DEF Stamp
  <2>2. worker'[t].pc # "write" /\ \A u \in Workers : u # t => worker'[u] = worker[u]
    BY <1>f, <2>1, ReturnEffect, ResumedShape
  <2> QED BY <1>2, <1>k, <2>1, <2>2
<1>12. ASSUME NEW t \in Workers, Record(t) PROVE DurableInv'
  <2>1. t \in {"log", "api"} /\ saved' = saved
    BY <1>12 DEF Record, ObserverInv, Workers
  <2>2. CASE execution' = execution /\ worker'[t] = Resumed(worker[t])
    <3>1. worker'[t].pc # "write"
      BY <1>f, <2>2, ResumedShape
    <3>2. worker[t].pc = "record" /\ \A u \in Workers : u # t => worker'[u] = worker[u]
      BY <1>12, <2>1, RecordEffect
    <3> QED BY <1>2, <1>k, <2>1, <2>2, <3>1, <3>2
  <2>3. CASE worker'[t].pc = "lock" /\ worker'[t].force
    BY <1>w, <2>3
  <2> QED BY <1>12, <2>1, <2>2, <2>3, RecordEffect
<1>13. ASSUME NEW t \in Workers, NEW w \in Commands, Command(t, w) PROVE DurableInv'
  <2>1. /\ worker'[t].pc = "record" /\ worker[t].pc = "idle" /\ \A u \in Workers : u # t => worker'[u] = worker[u]
    BY <1>13, CommandEffect
  <2>2. saved' = saved /\ execution' = execution
    BY <1>13 DEF Command
  <2> QED BY <1>2, <1>k, <2>1, <2>2
<1> QED BY <1>1, <1>3, <1>4, <1>5, <1>6, <1>7, <1>8, <1>9, <1>10, <1>11, <1>12, <1>13, StepCases DEF WorkerStep

-----------------------------------------------------------------------------
(* The program's spindle, and what is recovered of it.                      *)

PlayerFollows == fw.file # None => Follows(fw.file, fw.line, [m |-> fw.dir, s |-> fw.s])

\* A job starts with nothing said.
LEMMA FollowsAtStart ==
    ASSUME NEW f \in Files, NEW words
    PROVE  Follows(f, 0, words)
<1>1. SpindleAt(f)[0].dir = 0 /\ SpindleAt(f)[0].s = 0
  BY SpindleDefined DEF AtRest
<1>2. 0 \in 0 .. Lines(f)
  BY ActiveAssumption DEF Lines
<1> QED BY <1>1, <1>2 DEF Follows

\* A line changes the spindle of the machine as it changes the program's.
LEMMA FollowsNext ==
    ASSUME TypeOK, PlayLine, PlayerFollows
    PROVE  PlayerFollows'
<1> SUFFICES ASSUME fw'.file # None
             PROVE  Follows(fw'.file, fw'.line, [m |-> fw'.dir, s |-> fw'.s])
  BY DEF PlayerFollows
<1> DEFINE f == fw.file
<1> DEFINE n == fw.line + 1
<1> DEFINE w == Program[f][n]
<1> DEFINE before == SpindleAt(f)[n - 1]
<1>1. /\ f \in Files /\ fw'.file = f /\ fw.line < Lines(f) /\ fw'.line = n
      /\ fw'.dir = (IF w.m \in {3, 4} THEN w.m ELSE fw.dir)
      /\ fw'.s = (IF w.s = Silent THEN fw.s ELSE w.s)
  BY PlayLineTyped DEF TypeOK
<1>2. Lines(f) \in Nat /\ fw.line \in Nat
  BY <1>1, ActiveAssumption DEF Lines, TypeOK, ActiveTypeOK, Machines
<1>3. n \in 1 .. Lines(f) /\ n - 1 = fw.line /\ n - 1 \in 0 .. Lines(f)
  BY <1>1, <1>2
<1>4. /\ before.dir # 0 => fw.dir = before.dir
      /\ before.s # 0 => fw.s = before.s
  <2>1. Follows(f, fw.line, [m |-> fw.dir, s |-> fw.s])
    BY <1>1, ActiveAssumption DEF PlayerFollows
  <2> QED BY <1>3, <2>1 DEF Follows
<1>5. before \in SpindleStates
  BY <1>1, <1>3, SpindleTyped
<1>6. SpindleAt(f)[n] = Spoken(before, w)
  BY <1>1, <1>3, SpindleDefined
<1>7. /\ Spoken(before, w).dir = (IF w.m \in {3, 4} THEN w.m ELSE before.dir)
      /\ Spoken(before, w).s = (IF w.s = Silent THEN before.s ELSE w.s)
  <2> HIDE DEF before, w
  <2> QED BY <1>5 DEF Spoken, SpindleStates
<1>8. /\ SpindleAt(f)[n].dir # 0 => fw'.dir = SpindleAt(f)[n].dir
      /\ SpindleAt(f)[n].s # 0 => fw'.s = SpindleAt(f)[n].s
  <2> HIDE DEF before, w, f, n
  <2> QED BY <1>1, <1>4, <1>6, <1>7
<1>9. n \in 0 .. Lines(f)
  BY <1>3
<1>10. Follows(f, n, [m |-> fw'.dir, s |-> fw'.s])
  <2> HIDE DEF f, n
  <2> QED BY <1>1, <1>8, <1>9 DEF Follows
<1> QED BY <1>1, <1>10

\* In every step, as long as nobody else speaks to the spindle.
LEMMA PlayerKept ==
    ASSUME TypeOK, scene.words = {}, PlayerFollows, [Next]_vars
    PROVE  PlayerFollows'
<1>1. CASE PlayLine
  BY <1>1, FollowsNext
<1>2. ASSUME NEW f \in Files, Begin(f) PROVE PlayerFollows'
  <2>1. fw'.file = f /\ fw'.line = 0
    BY <1>2, BeginTyped DEF TypeOK
  <2> QED BY <2>1, FollowsAtStart DEF PlayerFollows
<1>3. CASE fw'.file = fw.file /\ fw'.line = fw.line /\ fw'.dir = fw.dir /\ fw'.s = fw.s
  BY <1>3 DEF PlayerFollows
<1>4. CASE ActiveNext
  <2>1. CASE Machine
    <3>1. CASE PauseResume
      <4>1. fw \in Machines /\ fw' = [fw EXCEPT !.state = IF fw.state = "Run" THEN "Pause" ELSE "Run"]
        BY <3>1 DEF PauseResume, TypeOK, ActiveTypeOK
      <4>2. fw'.file = fw.file /\ fw'.line = fw.line /\ fw'.dir = fw.dir /\ fw'.s = fw.s
        BY <4>1 DEF Machines
      <4> QED BY <1>3, <4>2
    <3>2. ASSUME NEW f \in Files, Play(f) PROVE PlayerFollows'
      BY <1>2, <3>2 DEF Play
    <3> QED BY <1>1, <2>1, <3>1, <3>2 DEF Machine
  <2>2. CASE RunActive
    <3>1. CASE RunSend
      <4>1. launch.path \in Files
        BY <3>1 DEF RunSend, TypeOK, ActiveTypeOK, Paths
      <4> QED BY <1>2, <1>3, <3>1, <4>1 DEF RunSend
    <3>2. CASE RunCheck
      BY <1>3, <3>2 DEF RunCheck
    <3> QED BY <2>2, <3>1, <3>2 DEF RunActive
  <2>3. CASE Catalog \/ Select
    BY <1>3, <2>3 DEF Catalog, Upload, Uploaded, Deleted, Select, SelectOpen, SelectStore, SelectPublish
  <2>4. CASE Get
    BY <1>3, <2>4 DEF Get, Start, EnsureStored, EnsureActive, GetActive, GetStored, GetEntry, GetParse, GetPublish,
                      ClearActive, ClearCheck, ClearStore, Reread
  <2>5. CASE Task \/ ProbeInterval
    BY <1>3, <2>5 DEF Task, TaskQuery, TaskQueryFails, TaskVerify, TaskRecord, TaskCache, TaskDone, ProbeInterval
  <2> QED BY <1>4, <2>1, <2>2, <2>3, <2>4, <2>5 DEF ActiveNext
<1>5. CASE ReportStatus \/ ObserveStatus \/ RecoverNot \/ Scan \/ Recover \/ Tick \/ Crash
  BY <1>3, <1>5 DEF ReportStatus, ObserveStatus, RecoverNot, Scan, Recover, Tick, Crash, activeVars
<1>6. CASE \E t \in Workers : Lock(t) \/ Write(t) \/ WriteFails(t) \/ Stamp(t) \/ Record(t)
  BY <1>3, <1>6 DEF Lock, Write, WriteFails, Stamp, Record, activeVars
<1>7. ASSUME NEW t \in Workers, NEW w \in Commands, Command(t, w) PROVE FALSE
  BY <1>7, CommandEffect
<1>8. CASE UNCHANGED vars
  BY <1>3, <1>8 DEF vars, activeVars
<1> QED BY <1>4, <1>5, <1>6, <1>7, <1>8 DEF Next, ContextNext

ReportFollows == status # None /\ status.file # None => Follows(status.file, status.line, status.seen)
ScanFollows(w) == (w.pc = "recover" \/ w.then = "recover") /\ w.seen # NoWords => Follows(w.path, w.line, w.seen)
FoundFollows(w) == w.pc = "recovered" /\ w.seen # NoWords => w.snap.dir = w.seen.m /\ w.snap.s = w.seen.s

LEMMA SpindleParts ==
    SpindleInv <=> (scene.words = {} => /\ PlayerFollows /\ ReportFollows
                                        /\ ScanFollows(worker["status"]) /\ FoundFollows(worker["status"]))
BY DEF SpindleInv, PlayerFollows, ReportFollows, ScanFollows, FoundFollows

\* A goroutine that goes on keeps what it has to scan.
LEMMA ScanGoesOn ==
    ASSUME NEW r, NEW x, RecordShape(r), ScanFollows(r),
           \/ x = Resumed(r)
           \/ /\ x.pc \in {"lock", "write", "stamp"} /\ x.then = r.then
              /\ x.path = r.path /\ x.line = r.line /\ x.seen = r.seen
    PROVE  ScanFollows(x) /\ FoundFollows(x)
<1>1. CASE x = Resumed(r)
  <2>1. /\ x.pc \in {"idle", "recover"} /\ x.then = "idle"
        /\ x.pc = "recover" => r.then = "recover" /\ x.path = r.path /\ x.line = r.line /\ x.seen = r.seen
    BY <1>1, ResumedShape
  <2> QED BY <2>1 DEF ScanFollows, FoundFollows
<1>2. CASE /\ x.pc \in {"lock", "write", "stamp"} /\ x.then = r.then
           /\ x.path = r.path /\ x.line = r.line /\ x.seen = r.seen
  BY <1>2 DEF ScanFollows, FoundFollows
<1> QED BY <1>1, <1>2

LEMMA ReportKept ==
    ASSUME TypeOK, scene.words = {}, PlayerFollows, ReportFollows, [Next]_vars
    PROVE  ReportFollows'
<1>1. CASE ReportStatus
  <2>1. /\ Report.seen = [m |-> fw.dir, s |-> fw.s] /\ Report.file = fw.file /\ Report.line = fw.line
    BY DEF Report
  <2>2. status' = Report
    BY <1>1 DEF ReportStatus
  <2> QED BY <2>1, <2>2 DEF ReportFollows, PlayerFollows
<1>2. CASE ObserveStatus \/ Crash
  BY <1>2 DEF ObserveStatus, Crash, ReportFollows
<1>3. CASE status' = status
  BY <1>3 DEF ReportFollows
<1>4. CASE ActiveNext
  BY <1>3, <1>4, ActiveTyped DEF TypeOK
<1>5. CASE RecoverNot \/ Scan \/ Recover \/ Tick \/ UNCHANGED vars
  BY <1>3, <1>5 DEF RecoverNot, Scan, Recover, Tick, activeVars, vars
<1>6. CASE \E t \in Workers : Lock(t) \/ Write(t) \/ WriteFails(t) \/ Stamp(t) \/ Record(t) \/ \E w \in Commands : Command(t, w)
  BY <1>3, <1>6 DEF Lock, Write, WriteFails, Stamp, Record, Command, activeVars
<1> QED BY <1>1, <1>2, <1>4, <1>5, <1>6 DEF Next, ContextNext

LEMMA ScanKept ==
    ASSUME TypeOK, ObserverInv, scene.words = {}, ReportFollows,
           ScanFollows(worker["status"]), FoundFollows(worker["status"]), [Next]_vars
    PROVE  ScanFollows(worker'["status"]) /\ FoundFollows(worker'["status"])
<1> DEFINE w == worker["status"]
<1> DEFINE w2 == worker'["status"]
<1>w. RecordShape(w)
  BY WorkerShape DEF Workers
<1>0. CASE w2 = IdleWorker
  BY <1>0, IdleShape DEF ScanFollows, FoundFollows
<1>1. CASE worker' = worker
  BY <1>1
<1>2. CASE ObserveStatus /\ scene.context
  <2>1. status # None /\ RecordShape(ObserverRecord)
    BY <1>2, ObserverShape DEF ObserveStatus
  <2>2. /\ ObserverRecord.pc = "idle" /\ ObserverRecord.line = status.line /\ ObserverRecord.path = ObservedPath
        /\ ObserverRecord.seen = (IF status.file = ObservedPath THEN status.seen ELSE NoWords)
        /\ ObserverRecord.then = "recover" => ObservedPath # None
    BY <2>1, ObserverShape
  <2>3. ScanFollows(ObserverRecord)
    BY <2>1, <2>2 DEF ScanFollows, ReportFollows
  <2>4. \/ w2 = Resumed(ObserverRecord)
        \/ /\ w2.pc = "lock" /\ w2.then = ObserverRecord.then /\ w2.path = ObserverRecord.path
           /\ w2.line = ObserverRecord.line /\ w2.seen = ObserverRecord.seen
    BY <1>2, ObserveEffect
  <2> HIDE DEF w2
  <2>5. ScanFollows(w2) /\ FoundFollows(w2)
    BY <2>1, <2>3, <2>4, ScanGoesOn
  <2> QED BY <2>5 DEF w2
<1>3. CASE RecoverNot
  <2>1. w2 = IdleWorker
    BY <1>3, BecomeTyped, IdleShape DEF RecoverNot, Workers
  <2> QED BY <1>0, <2>1
<1>4. CASE Scan
  <2>1. PICK r : /\ Become("status", r) /\ RecordShape(r)
                 /\ \/ r = IdleWorker
                    \/ /\ r.pc = "recovered" /\ r.then = w.then /\ r.seen = w.seen /\ r.line = w.line
                       /\ r.path = w.path /\ w.path \in Files /\ w.line \in Nat /\ w.pc = "recover"
                       /\ r.snap.dir = Scanned(w.path, w.line).dir /\ r.snap.s = Scanned(w.path, w.line).s
                       /\ r.snap.dir # 0 /\ r.snap.s # 0
    BY <1>4, ScanEffect
  <2>2. w2 = r
    BY <2>1, BecomeTyped DEF Workers
  <2>3. CASE r = IdleWorker
    BY <1>0, <2>2, <2>3
  <2>4. CASE /\ r.pc = "recovered" /\ r.then = w.then /\ r.seen = w.seen /\ r.line = w.line
             /\ r.path = w.path /\ w.path \in Files /\ w.line \in Nat /\ w.pc = "recover"
             /\ r.snap.dir = Scanned(w.path, w.line).dir /\ r.snap.s = Scanned(w.path, w.line).s
             /\ r.snap.dir # 0 /\ r.snap.s # 0
    <3> HIDE DEF w
    <3>1. ASSUME w.seen # NoWords PROVE r.snap.dir = w.seen.m /\ r.snap.s = w.seen.s
      <4>1. Follows(w.path, w.line, w.seen)
        BY <2>4, <3>1 DEF ScanFollows, w
      <4>2. w.line <= Lines(w.path)
        BY <2>4, <4>1, ActiveAssumption DEF Follows, Lines
      <4>3. Scanned(w.path, w.line) = SpindleAt(w.path)[w.line]
        BY <2>4, <4>2, ScannedTyped
      <4> QED BY <2>4, <4>1, <4>3 DEF Follows
    <3>2. w.seen # NoWords => Follows(w.path, w.line, w.seen)
      BY <2>4 DEF ScanFollows, w
    <3>3. ScanFollows(r) /\ FoundFollows(r)
      BY <2>4, <3>1, <3>2 DEF ScanFollows, FoundFollows
    <3> QED BY <2>2, <3>3
  <2> QED BY <2>1, <2>3, <2>4
<1>5. CASE Recover
  <2>1. \/ w2 = Resumed(w)
        \/ /\ w2.pc = "lock" /\ w2.then = w.then /\ w2.path = w.path /\ w2.line = w.line /\ w2.seen = w.seen
    BY <1>5, RecoverEffect
  <2> HIDE DEF w2
  <2>2. ScanFollows(w2) /\ FoundFollows(w2)
    BY <1>w, <2>1, ScanGoesOn
  <2> QED BY <2>2 DEF w2
<1>6. CASE Crash
  <2>1. w2 = IdleWorker
    BY <1>6, CrashTyped DEF Workers
  <2> QED BY <1>0, <2>1
<1>7. ASSUME NEW t \in Workers, WorkerStep(t) PROVE ScanFollows(w2) /\ FoundFollows(w2)
  <2>1. CASE t # "status"
    <3>1. w2 = w
      BY <1>7, <2>1, WorkerGoes DEF Workers
    <3> QED BY <3>1
  <2>2. CASE t = "status"
    <3>1. \/ w2 = Resumed(w)
          \/ /\ w2.pc \in {"lock", "write", "stamp"} /\ w2.then = w.then
             /\ w2.path = w.path /\ w2.line = w.line /\ w2.seen = w.seen
      BY <1>7, <2>2, WorkerGoes DEF Goes
    <3> HIDE DEF w2
    <3> QED BY <1>w, <3>1, ScanGoesOn
  <2> QED BY <2>1, <2>2
<1> QED BY <1>1, <1>2, <1>3, <1>4, <1>5, <1>6, <1>7, StepCases DEF Quiet

LEMMA SpindleKept ==
    ASSUME TypeOK, ObserverInv, SpindleInv, [Next]_vars
    PROVE  SpindleInv'
<1> SUFFICES ASSUME scene'.words = {}
             PROVE  /\ PlayerFollows' /\ ReportFollows'
                    /\ ScanFollows(worker["status"])' /\ FoundFollows(worker["status"])'
  BY DEF SpindleInv, PlayerFollows, ReportFollows, ScanFollows, FoundFollows
<1>1. scene.words = {}
  BY SceneKept
<1>2. PlayerFollows /\ ReportFollows /\ ScanFollows(worker["status"]) /\ FoundFollows(worker["status"])
  BY <1>1, SpindleParts
<1> QED BY <1>1, <1>2, PlayerKept, ReportKept, ScanKept

-----------------------------------------------------------------------------
(* The last selection.                                                      *)

LEMMA OwnKept ==
    ASSUME TypeOK, OwnInv, [Next]_vars
    PROVE  OwnInv'
<1>t. /\ ActiveTypeOK /\ entries \in [Files -> Entries] /\ own \in Paths
      /\ get \in [pc : GetPCs, window : BOOLEAN, mem : Actives, path : Paths, ver : Versions]
      /\ own # None => own \in Files
  BY DEF TypeOK, ActiveTypeOK, Paths
<1>u. CASE UNCHANGED <<own, stored, active, entries, get>>
  BY <1>u DEF OwnInv
<1>1. CASE Machine
  BY <1>1, <1>u DEF Machine, PlayLine, PauseResume, Play, selectVars
<1>2. ASSUME NEW f \in Files, Upload(f) \/ Uploaded(f) PROVE OwnInv'
  <2>1. UNCHANGED <<own, stored, active, get>>
    BY <1>2 DEF Upload, Uploaded, selectVars
  <2>2. own # None => (entries[own].known => entries'[own].known)
    <3>1. ASSUME own # None PROVE entries[own].known => entries'[own].known
      <4>1. CASE Upload(f)
        BY <1>t, <3>1, <4>1 DEF Upload
      <4>2. CASE Uploaded(f)
        <5>1. entries' = [entries EXCEPT ![f] = [entries[f] EXCEPT !.sync = "synced"]]
          BY <4>2 DEF Uploaded
        <5>2. [entries[f] EXCEPT !.sync = "synced"].known = entries[f].known
          BY <1>t DEF Entries
        <5> QED BY <1>t, <3>1, <5>1, <5>2
      <4> QED BY <1>2, <4>1, <4>2
    <3> QED BY <3>1
  <2> QED BY <2>1, <2>2 DEF OwnInv
<1>3. ASSUME NEW f \in Files, Deleted(f) PROVE OwnInv'
  <2>1. UNCHANGED <<stored, active, get>> /\ own' = (IF own = f THEN None ELSE own) /\ entries' = [entries EXCEPT ![f] = NoEntry]
    BY <1>3 DEF Deleted
  <2> QED BY <1>t, <2>1 DEF OwnInv
<1>4. ASSUME NEW f \in Files, SelectOpen(f) PROVE OwnInv'
  <2>1. UNCHANGED <<own, stored, active, get>> /\ entries' \in {entries, Fetched(f)}
    BY <1>4 DEF SelectOpen
  <2>2. own # None => entries'[own].known = entries[own].known
    BY <1>t, <2>1, FetchedTyped
  <2> QED BY <2>1, <2>2 DEF OwnInv
<1>5. CASE SelectStore \/ ClearStore \/ TaskRecord \/ Crash
  BY <1>5 DEF SelectStore, ClearStore, TaskRecord, Crash, OwnInv
<1>6. CASE SelectPublish
  BY <1>6 DEF SelectPublish, OwnInv
<1>7. ASSUME UNCHANGED <<own, stored, active, entries>>, get'.pc # "clear" PROVE OwnInv'
  BY <1>7 DEF OwnInv
<1>8. ASSUME NEW path, NEW ver, NEW preview, Answer(path, ver, preview) PROVE get'.pc # "clear"
  BY <1>8, <1>t DEF Answer, NoGet
<1>9. CASE Get
  <2>1. ASSUME NEW w \in BOOLEAN, Start(w) PROVE OwnInv'
    <3>1. get'.pc # "clear"
      BY <2>1 DEF Start, NoGet
    <3> QED BY <1>7, <2>1, <3>1 DEF Start
  <2>2. CASE EnsureStored
    <3>1. get' = [get EXCEPT !.path = stored, !.ver = 1] /\ get.pc = "ensure"
      BY <2>2 DEF EnsureStored
    <3>2. get'.pc # "clear"
      BY <1>t, <3>1
    <3> QED BY <1>7, <2>2, <3>2 DEF EnsureStored
  <2>3. CASE EnsureActive
    <3>1. get'.pc # "clear"
      <4>1. get' = NoGet \/ get' = [NoGet EXCEPT !.pc = "active", !.window = TRUE]
        BY <2>3 DEF EnsureActive, Window
      <4>2. NoGet \in [pc : GetPCs, window : BOOLEAN, mem : Actives, path : Paths, ver : Versions] /\ NoGet.pc = "idle"
        BY <1>t, GetFields DEF GetShape, NoGet
      <4> QED BY <4>1, <4>2
    <3> QED BY <1>7, <2>3, <3>1 DEF EnsureActive
  <2>4. CASE GetActive
    <3>1. get'.pc # "clear"
      BY <1>t, <2>4 DEF GetActive
    <3> QED BY <1>7, <2>4, <3>1 DEF GetActive
  <2>5. CASE GetStored
    <3>1. CASE stored = None
      <4>1. own = None /\ own' = own
        BY <2>5, <3>1 DEF OwnInv, GetStored
      <4> QED BY <4>1 DEF OwnInv
    <3>2. CASE stored # None
      <4>1. get' = [get EXCEPT !.pc = IF get.mem.path = stored THEN "entry" ELSE "parse", !.path = stored]
        BY <2>5, <3>2 DEF GetStored
      <4>2. get'.pc # "clear"
        BY <1>t, <4>1
      <4> QED BY <1>7, <2>5, <4>2 DEF GetStored
    <3> QED BY <3>1, <3>2
  <2>6. CASE GetEntry
    <3>1. CASE entries[get.path].known
      <4>1. get'.pc # "clear"
        BY <1>8, <2>6, <3>1 DEF GetEntry
      <4> QED BY <1>7, <2>6, <4>1 DEF GetEntry
    <3>2. CASE ~entries[get.path].known
      <4>1. get' = [get EXCEPT !.pc = "clear"]
        BY <2>6, <3>2 DEF GetEntry
      <4>2. get'.path = get.path
        BY <1>t, <4>1
      <4> QED BY <2>6, <3>2, <4>2 DEF GetEntry, OwnInv
    <3> QED BY <3>1, <3>2
  <2>7. CASE GetParse
    <3>1. CASE ~entries[get.path].known /\ get' = [get EXCEPT !.pc = "clear"]
      <4>1. get'.path = get.path
        BY <1>t, <3>1
      <4> QED BY <2>7, <3>1, <4>1 DEF GetParse, OwnInv
    <3>2. CASE get' = [get EXCEPT !.pc = "publish", !.ver = ReadCache(get.path)]
      <4>1. get'.pc # "clear"
        BY <1>t, <3>2
      <4> QED BY <1>7, <2>7, <4>1 DEF GetParse
    <3>3. CASE Answer(get.path, entries[get.path].ver, 0)
      <4>1. get'.pc # "clear"
        BY <1>8, <3>3
      <4> QED BY <1>7, <2>7, <4>1 DEF GetParse
    <3> QED BY <2>7, <3>1, <3>2, <3>3 DEF GetParse
  <2>8. CASE GetPublish
    <3>1. get'.pc # "clear" /\ UNCHANGED <<own, stored, entries>> /\ active' = Published
      BY <1>8, <2>8 DEF GetPublish
    <3>2. own # None /\ active.path = own /\ stored = own => Published.path = own
      BY DEF Published
    <3> QED BY <3>1, <3>2 DEF OwnInv
  <2>9. CASE ClearActive
    <3>1. /\ UNCHANGED <<own, stored, entries>> /\ active' = (IF active.path = get.path THEN NoActive ELSE active)
          /\ get.pc = "clear" /\ get' = [get EXCEPT !.pc = "clearCheck"]
      BY <2>9 DEF ClearActive
    <3>2. get'.pc # "clear"
      BY <1>t, <3>1
    <3> QED BY <3>1, <3>2 DEF OwnInv
  <2>10. CASE ClearCheck
    <3>1. get'.pc # "clear"
      <4>1. ASSUME get' = [get EXCEPT !.pc = "clearStore"] PROVE get'.pc # "clear"
        BY <1>t, <4>1
      <4> QED BY <1>8, <2>10, <4>1 DEF ClearCheck, Unselected
    <3> QED BY <1>7, <2>10, <3>1 DEF ClearCheck
  <2>11. CASE Reread
    <3>1. get'.pc # "clear"
      BY <2>11 DEF Reread, Window, NoGet
    <3> QED BY <1>7, <2>11, <3>1 DEF Reread
  <2> QED BY <1>5, <1>9, <2>1, <2>2, <2>3, <2>4, <2>5, <2>6, <2>7, <2>8, <2>9, <2>10, <2>11 DEF Get
<1>10. CASE RunActive \/ ProbeInterval
  BY <1>10, <1>u DEF RunActive, RunCheck, RunSend, ProbeInterval, selectVars
<1>11. CASE TaskQuery \/ TaskQueryFails \/ TaskVerify \/ TaskDone
  BY <1>11, <1>u DEF TaskQuery, TaskQueryFails, TaskVerify, TaskDone, selectVars
<1>12. CASE TaskCache
  <2>1. UNCHANGED <<own, stored, active, get>> /\ entries' \in {entries, Fetched(task.path)}
    BY <1>12 DEF TaskCache, selectVars
  <2>2. task.path \in Files
    BY <1>12 DEF TaskCache, TypeOK, ActiveTypeOK, Tasks, Paths
  <2>3. own # None => entries'[own].known = entries[own].known
    BY <1>t, <2>1, <2>2, FetchedTyped
  <2> QED BY <2>1, <2>3 DEF OwnInv
<1>13. CASE ReportStatus \/ ObserveStatus \/ RecoverNot \/ Scan \/ Recover \/ Tick
  BY <1>13, <1>u DEF ReportStatus, ObserveStatus, RecoverNot, Scan, Recover, Tick, activeVars, selectVars
<1>14. CASE \E t \in Workers : WorkerStep(t)
  BY <1>14, <1>u DEF WorkerStep, Lock, Write, WriteFails, Stamp, Record, Command, activeVars, selectVars
<1>15. CASE UNCHANGED vars
  BY <1>15, <1>u DEF vars, activeVars
<1> QED BY <1>1, <1>2, <1>3, <1>4, <1>5, <1>6, <1>9, <1>10, <1>11, <1>12, <1>13, <1>14, <1>15
        DEF Next, ActiveNext, ContextNext, WorkerStep, Catalog, Select, Task

-----------------------------------------------------------------------------
(* The theorems.                                                            *)

LEMMA InitHolds ==
    ASSUME Init
    PROVE  IInv
<1>1. scene \in Bounds
  BY ScenesAssumption DEF Init, ActiveInit
<1>2. 0 \in Versions /\ 1 \in Versions /\ None \in Paths /\ scene.stored \in Paths
  BY <1>1, ActiveAssumption DEF Versions, Paths, Bounds
<1>3. fw \in Machines /\ fw.state = "Idle" /\ fw.file = None
  BY <1>2 DEF Init, ActiveInit, Stopped, Machines, States, Directions
<1>4. entries \in [Files -> Entries] /\ onMachine \in [Files -> Versions]
  <2>1. /\ NoEntry \in Entries
        /\ [known |-> TRUE, sync |-> "remote_only", cache |-> "none", ver |-> 1] \in Entries
        /\ [known |-> TRUE, sync |-> "synced", cache |-> "validating", ver |-> 1] \in Entries
        /\ [known |-> TRUE, sync |-> "synced", cache |-> "ready", ver |-> 1] \in Entries
    BY <1>2 DEF NoEntry, Entries, CacheStates
  <2> DEFINE E == {NoEntry,
                  [known |-> TRUE, sync |-> "remote_only", cache |-> "none", ver |-> 1],
                  [known |-> TRUE, sync |-> "synced", cache |-> "validating", ver |-> 1],
                  [known |-> TRUE, sync |-> "synced", cache |-> "ready", ver |-> 1]}
  <2>2. entries \in [Files -> E]
    BY DEF Init, ActiveInit
  <2>3. \A e \in E : e \in Entries
    BY <2>1
  <2> HIDE DEF E
  <2>4. entries \in [Files -> Entries]
    BY <2>2, <2>3
  <2> QED BY <1>2, <2>4 DEF Init, ActiveInit
<1>5. /\ active \in Actives /\ select \in [pc : {"idle", "store", "publish"}, path : Paths, ver : Versions]
      /\ get \in [pc : GetPCs, window : BOOLEAN, mem : Actives, path : Paths, ver : Versions]
      /\ launch \in [pc : {"idle", "send"}, path : Paths] /\ answer \in Answers /\ task \in Tasks
      /\ select.pc = "idle" /\ get.pc = "idle" /\ launch.pc = "idle" /\ task.pc = "idle"
  BY <1>2 DEF Init, ActiveInit, NoActive, Actives, NoSelect, NoGet, GetPCs, Answers, NoTask, Tasks
<1>6. probe \in Probes /\ probe.inFlight = FALSE
  <2>1. ASSUME NEW b \in BOOLEAN
        PROVE  /\ [inFlight |-> FALSE, loaded |-> FALSE, recent |-> FALSE, unsupported |-> b] \in Probes
               /\ [inFlight |-> FALSE, loaded |-> FALSE, recent |-> FALSE, unsupported |-> b].inFlight = FALSE
    BY DEF Probes
  <2>2. (~scene.probe) \in BOOLEAN
    OBVIOUS
  <2>3. probe = [inFlight |-> FALSE, loaded |-> FALSE, recent |-> FALSE, unsupported |-> ~scene.probe]
    BY DEF Init, ActiveInit
  <2> QED BY <2>1, <2>2, <2>3
<1>7. stored \in Paths /\ own = None /\ status = None
  BY <1>2 DEF Init, ActiveInit
<1>8. ActiveTypeOK
  BY <1>1, <1>2, <1>3, <1>4, <1>5, <1>6, <1>7 DEF ActiveTypeOK, Playing
<1>9. /\ execution = NoContext /\ saved = NoContext /\ persistedAt = 0 /\ persistMu = None /\ revision = 0 /\ clock = 1
      /\ worker \in [Workers -> Records] /\ \A t \in Workers : worker[t] = IdleWorker
      /\ recovery = [path |-> None, at |-> 0]
  BY IdleShape DEF Init, RecordShape
<1>10. TypeOK
  <2>1. 0 \in 0 .. MaxClock /\ 1 \in 1 .. MaxClock
    BY ContextAssumption
  <2>2. \A t \in Workers : "recover" \notin {worker[t].pc, worker[t].then}
    BY <1>9, IdleShape
  <2>3. recovery \in [path : Paths, at : 0 .. MaxClock]
    BY <1>2, <1>9, <2>1
  <2> QED BY <1>7, <1>8, <1>9, <2>1, <2>2, <2>3, IdleShape DEF TypeOK
<1>11. CheckpointInv
  BY <1>9, IdleShape DEF CheckpointInv, NoContext
<1>12. DurableInv
  BY <1>9, IdleShape, KeepsIsOrder DEF DurableInv
<1>13. SpindleInv
  BY <1>3, <1>7, <1>9, IdleShape DEF SpindleInv, Workers
<1>14. ObserverInv
  BY <1>9, IdleShape DEF ObserverInv, Workers
<1>15. OwnInv
  BY <1>7 DEF OwnInv
<1> QED BY <1>10, <1>11, <1>12, <1>13, <1>14, <1>15 DEF IInv

LEMMA StepTyped ==
    ASSUME TypeOK, ObserverInv, [Next]_vars
    PROVE  TypeOK'
<1>1. CASE ActiveNext /\ UNCHANGED contextVars
  <2>1. ActiveTypeOK' /\ status' = status
    BY <1>1, ActiveTyped DEF TypeOK
  <2> QED BY <1>1, <2>1 DEF TypeOK, contextVars
<1>2. CASE ContextNext
  BY <1>2, ContextTyped
<1>3. CASE UNCHANGED vars
  <2>1. ActiveTypeOK' /\ status' = status
    BY <1>3, ActiveUnchanged DEF TypeOK, vars
  <2> QED BY <1>3, <2>1 DEF TypeOK, contextVars, vars
<1> QED BY <1>1, <1>2, <1>3 DEF Next

LEMMA NextKeeps == IInv /\ [Next]_vars => IInv'
<1> SUFFICES ASSUME IInv, [Next]_vars PROVE IInv'
  OBVIOUS
<1>1. TypeOK /\ CheckpointInv /\ DurableInv /\ SpindleInv /\ ObserverInv /\ OwnInv
  BY DEF IInv
<1>2. TypeOK' /\ ObserverInv'
  BY <1>1, StepTyped, ObserverKept
<1>3. CheckpointInv' /\ DurableInv'
  BY <1>1, CheckpointKept, DurableKept
<1>4. SpindleInv' /\ OwnInv'
  BY <1>1, SpindleKept, OwnKept
<1> QED BY <1>2, <1>3, <1>4 DEF IInv

LEMMA Invariance == Spec => []IInv
<1>1. Init => IInv
  BY InitHolds
<1> QED BY <1>1, NextKeeps, PTL DEF Spec

\* The state of the selection and of the execution context has its type in
\* every scene (activeGcode, activeProbe, executionContext, executionPersistMu).
THEOREM ContextTypes == Spec => []TypeOK
<1>1. IInv => TypeOK
  BY DEF IInv
<1> QED BY <1>1, Invariance, PTL

\* A selection stays loaded, an answered spindle command is on disk, and what is
\* recovered from the program is the program's spindle (activeGcodeFromStoredPath,
\* updateExecutionContext, maybeRecoverSpindleContextFromActiveGcode).
THEOREM ContextKeepsChoices == Spec => []ChoicesAreKept
<1>1. OwnInv => SelectionStaysLoaded
  BY DEF OwnInv, SelectionStaysLoaded
<1>2. DurableInv => CommandsAreDurable
  <2> SUFFICES ASSUME DurableInv, "fail" \notin scene.requests, \A t \in Workers : worker[t].pc \notin {"lock", "write"}
               PROVE  Keeps(saved, execution)
    BY DEF CommandsAreDurable, Keeps, Told
  <2>1. ~Waiting /\ ~Writing
    BY DEF Waiting, Writing
  <2> QED BY <2>1 DEF DurableInv
<1>3. SpindleInv => RecoveredIsPrograms
  BY DEF SpindleInv, RecoveredIsPrograms
<1>4. IInv => ChoicesAreKept
  BY <1>1, <1>2, <1>3 DEF IInv, ChoicesAreKept
<1> QED BY <1>4, Invariance, PTL

\* A checkpoint never goes back, and a scan of the program never replaces a
\* direction and speed that are known (updateExecutionContext under
\* executionPersistMu, maybeRecoverSpindleContextFromActiveGcode).
THEOREM ContextNewerWins == Spec => NewerCommandWins
<1> DEFINE Forward == saved'.rev >= saved.rev
<1> DEFINE Yields ==
      execution'.source = "active_gcode" /\ execution'.rev > revision
          => ~SpindleKnown(execution) \/ execution.source = "active_gcode"
<1>1. IInv /\ [Next]_vars => [Forward]_saved
  <2> SUFFICES ASSUME IInv, [Next]_vars, saved' # saved PROVE Forward
    OBVIOUS
  <2>1. TypeOK /\ CheckpointInv
    BY DEF IInv
  <2>2. \E t \in Workers : Write(t)
    BY <2>1, StepCases DEF Quiet, ObserveStatus, RecoverNot, Scan, Recover, Crash, WorkerStep, Lock, WriteFails, Stamp,
                           Record, Command
  <2>3. PICK t \in Workers : Write(t)
    BY <2>2
  <2>4. worker[t].pc = "write" /\ saved' = worker[t].snap
    BY <2>1, <2>3, WriteEffect
  <2>5. saved.rev <= worker[t].snap.rev
    BY <2>1, <2>4 DEF CheckpointInv
  <2>6. saved.rev \in Nat /\ worker[t].snap.rev \in Nat
    BY <2>1 DEF TypeOK, Contexts, Records
  <2> QED BY <2>4, <2>5, <2>6
<1>2. IInv /\ [Next]_vars => [Yields]_<<execution, revision>>
  <2> SUFFICES ASSUME IInv, [Next]_vars, execution'.source = "active_gcode", execution'.rev > revision
               PROVE  ~SpindleKnown(execution) \/ execution.source = "active_gcode"
    OBVIOUS
  <2>1. /\ TypeOK /\ ObserverInv /\ saved.rev <= execution.rev /\ execution.rev <= revision
        /\ saved.rev \in Nat /\ execution.rev \in Nat /\ revision \in Nat
    BY DEF IInv, CheckpointInv, TypeOK, Contexts
  <2>2. execution' # execution /\ execution' # saved
    BY <2>1
  <2>3. CASE ObserveStatus /\ scene.context
    <3>1. execution'.source \in {execution.source, "status"}
      BY <2>1, <2>2, <2>3, ObserveEffect
    <3> QED BY <3>1
  <2>4. CASE Recover
    BY <2>1, <2>2, <2>4, RecoverEffect
  <2>5. ASSUME NEW t \in Workers, Record(t) PROVE FALSE
    <3>1. t \in {"log", "api"}
      BY <2>1, <2>5 DEF Record, ObserverInv, Workers
    <3>2. execution'.source = t
      BY <2>1, <2>2, <2>5, <3>1, RecordEffect
    <3> QED BY <3>1, <3>2
  <2>6. \/ ObserveStatus /\ scene.context
        \/ Recover
        \/ \E t \in Workers : Record(t)
    BY <2>1, <2>2, StepCases DEF Quiet, RecoverNot, Scan, Crash, WorkerStep, Lock, Write, WriteFails, Stamp, Command
  <2> QED BY <2>3, <2>4, <2>5, <2>6
<1>3. CheckpointsMoveForward <=> [][Forward]_saved
  BY DEF CheckpointsMoveForward
<1>4. RecoveryYields <=> [][Yields]_<<execution, revision>>
  BY DEF RecoveryYields
<1> HIDE DEF Forward, Yields
<1>5. Spec => [][Forward]_saved /\ [][Yields]_<<execution, revision>>
  BY <1>1, <1>2, Invariance, PTL DEF Spec
<1> QED BY <1>3, <1>4, <1>5 DEF NewerCommandWins
===============================================================================
