------------------------- MODULE ProcessGuardProofs -------------------------
EXTENDS ProcessGuard, FiniteSetTheorems, TLAPS

\* A process that started unmarked is nobody's victim.
NoVictim(p) ==
    (proc[p].state \in Attempting \cup {"creating"} \/ proc[p].owner) /\ ~proc[p].marked =>
        \A q \in Pid : proc[q].victim # p

\* What is left in the directory behind the one who cleans it has been seen
\* together with its process.
Swept(p) ==
    LET r == proc[p]
    IN  /\ r.must \subseteq entries
        /\ r.state \notin Reading => r.may = {}
        /\ r.victim # None => r.state = "cleaning"
        /\ r.owner => r.state = "working"
        /\ r.state \in {"entering", "cleaning"} => ~r.blind
        /\ r.state \in {"entering", "cleaning", "cleaned"} => r.counted = {} /\ r.before = {}
        /\ r.state = "cleaning" => entries \subseteq r.seen \cup r.must \cup {r.victim}
        /\ r.state \in {"cleaned", "counting"} /\ ~r.blind => entries \subseteq r.seen
        /\ r.state = "counting" /\ ~r.blind => r.may \cup r.counted \subseteq r.seen
        /\ r.state = "refused" /\ ~r.blind =>
               r.counted \subseteq r.seen /\ Cardinality(r.counted) >= r.limit

\* Who worked before the count began, and still does, is counted.
Counted(p) ==
    LET r == proc[p]
    IN  /\ r.state \in {"counting", "creating"} => \A q \in r.before : Guarded(q)
        /\ r.state = "counting" => r.before \subseteq r.counted \cup r.must
        /\ r.state = "creating" /\ ~r.blind =>
               r.before \subseteq r.counted /\ Cardinality(r.counted) < r.limit

Sound(p) ==
    /\ NoVictim(p)
    /\ Guarded(p) => p \in entries
    /\ Swept(p)
    /\ Counted(p)

IInv == TypeOK /\ \A p \in Pid : Sound(p)

-----------------------------------------------------------------------------
\* The process o, which is not p or is what p becomes, behind a step of p.
Old(p, r, q) == IF q = p THEN r ELSE proc[q]

\* The record a behind the step of p to r, of the one that was o.
Became(a, o, p, r, E) ==
    /\ a.state = o.state /\ a.limit = o.limit /\ a.victim = o.victim /\ a.counted = o.counted
    /\ a.owner = o.owner /\ a.blind = o.blind /\ a.marked = o.marked
    /\ a.must = o.must \cap E
    /\ a.may = IF o.state \in Reading THEN o.may \cup (((entries \ E) \cup (E \ entries)) \ o.counted)
               ELSE {}
    /\ a.seen = IF o.state \in Attempting THEN o.seen \cup (E \cap InUse(p, r)) ELSE o.seen
    /\ a.before = IF r.state = "working" THEN o.before ELSE o.before \ {p}

\* Each field of a record behind a step, from the definition of After.
LEMMA AfterFields ==
    ASSUME TypeOK, NEW p \in Pid, NEW r \in Process, NEW E \in SUBSET Pid, NEW q \in Pid
    PROVE  /\ After(p, r, E, q) \in Process
           /\ Became(After(p, r, E, q), Old(p, r, q), p, r, E)
<1> DEFINE o == Old(p, r, q)
           n == Noticing(o, E, InUse(p, r))
<1>1. o \in Process
  BY DEF TypeOK, Old
<1>2. entries \subseteq Pid /\ InUse(p, r) \subseteq Pid
  BY DEF TypeOK, InUse
<1> HIDE DEF o
<1>3. /\ n \in Process
      /\ n.state = o.state /\ n.limit = o.limit /\ n.must = o.must \cap E
      /\ n.victim = o.victim /\ n.counted = o.counted
      /\ n.before = o.before
      /\ n.may = IF o.state \in Reading THEN o.may \cup (((entries \ E) \cup (E \ entries)) \ o.counted)
                 ELSE {}
      /\ n.seen = IF o.state \in Attempting THEN o.seen \cup (E \cap InUse(p, r)) ELSE o.seen
  BY <1>1, <1>2 DEF Noticing, Process
<1>4. n.owner = o.owner /\ n.blind = o.blind /\ n.marked = o.marked
  BY <1>1 DEF Noticing, Process
<1>5. After(p, r, E, q) = IF r.state = "working" THEN n ELSE [n EXCEPT !.before = @ \ {p}]
  BY DEF After, o, Old
<1> HIDE DEF n
<1>6. /\ After(p, r, E, q).owner = n.owner
      /\ After(p, r, E, q).blind = n.blind
      /\ After(p, r, E, q).marked = n.marked
  BY <1>3, <1>5 DEF Process
<1> QED
  BY <1>3, <1>4, <1>5, <1>6 DEF Process, o, Became

\* The same for a step: what p becomes, and what becomes of another.
LEMMA StepFields ==
    ASSUME IInv, NEW p \in Pid, NEW r \in Process, NEW E \in SUBSET Pid, Step(p, r, E)
    PROVE  /\ entries' = E
           /\ Became(proc'[p], r, p, r, E)
           /\ \A q \in Pid \ {p} : Became(proc'[q], proc[q], p, r, E)
  BY AfterFields DEF IInv, Step, Old

\* What a step of p may do to the directory and to itself, for the others'
\* part of the invariant to hold.
Courteous(p, r, E) ==
    /\ E \ entries \subseteq {p} \cap InUse(p, r)
    /\ \A q \in Pid \ {p} : q \in entries \ E => q = proc[p].victim
    /\ r.victim # None => r.victim = proc[p].victim \/ proc[r.victim].state = "none"
    /\ r.state = "working" => proc[p].state # "working"

\* The others keep their part of the invariant, by the definition of After.
LEMMA OthersKeep ==
    ASSUME IInv, NEW p \in Pid, NEW r \in Process, NEW E \in SUBSET Pid, Step(p, r, E),
           Courteous(p, r, E), NEW q \in Pid, q # p
    PROVE  Sound(q)'
<1> DEFINE o == proc[q]
           n == proc'[q]
<1>1. /\ TypeOK /\ o \in Process /\ proc[p] \in Process
      /\ NoVictim(q) /\ Swept(q) /\ Counted(q)
  BY DEF IInv, TypeOK, Sound
<1>2. Became(n, o, p, r, E) /\ entries' = E
  BY <1>1, AfterFields DEF Step, Old
<1>3. /\ n.state = o.state /\ n.limit = o.limit /\ n.must = o.must \cap E
      /\ n.victim = o.victim /\ n.counted = o.counted
      /\ n.may = IF o.state \in Reading THEN o.may \cup (((entries \ E) \cup (E \ entries)) \ o.counted)
                 ELSE {}
      /\ n.seen = IF o.state \in Attempting THEN o.seen \cup (E \cap InUse(p, r)) ELSE o.seen
      /\ n.before = IF r.state = "working" THEN o.before ELSE o.before \ {p}
  BY <1>2 DEF Became
<1>4. n.owner = o.owner /\ n.blind = o.blind /\ n.marked = o.marked
  BY <1>2 DEF Became
<1>5. /\ E \ entries \subseteq InUse(p, r)
      /\ entries \ E \subseteq {p, proc[p].victim}
  BY <1>1 DEF Courteous, TypeOK
<1>6. ASSUME (n.state \in Attempting \cup {"creating"} \/ n.owner) /\ ~n.marked, NEW x \in Pid
      PROVE  proc'[x].victim # q
  <2>1. o.state \in Attempting \cup {"creating"} \/ o.owner
    BY <1>3, <1>4, <1>6
  <2>2. \A y \in Pid : proc[y].victim # q
    BY <1>1, <1>4, <1>6, <2>1 DEF NoVictim
  <2>3. Became(proc'[x], Old(p, r, x), p, r, E)
    BY <1>1, AfterFields DEF Step
  <2>4. q # None /\ o.state # "none"
    BY <1>1, <2>1, PidAssumption DEF Attempting, Swept
  <2> QED
    BY <2>2, <2>3, <2>4 DEF Old, Courteous, Became
<1>7. ASSUME Guarded(q)' PROVE q \in entries'
  <2>1. Guarded(q) /\ o.owner /\ ~o.marked
    BY <1>3, <1>4, <1>7 DEF Guarded
  <2>2. q \in entries /\ proc[p].victim # q
    BY <1>1, <2>1 DEF IInv, Sound, NoVictim
  <2> QED
    BY <1>2, <1>5, <2>2
<1>8. Swept(q)'
  <2>1. n.must \subseteq entries' /\ (n.state \notin Reading => n.may = {})
        /\ (n.victim # None => n.state = "cleaning")
    BY <1>1, <1>2, <1>3 DEF Swept
  <2>2. n.owner => n.state = "working"
    BY <1>1, <1>3, <1>4 DEF Swept
  <2>3. ASSUME n.state \in {"entering", "cleaning"} PROVE ~n.blind
    BY <1>1, <1>3, <1>4, <2>3 DEF Swept
  <2>8. n.state \in {"entering", "cleaning", "cleaned"} => n.counted = {} /\ n.before = {}
    BY <1>1, <1>3 DEF Swept
  <2>4. ASSUME n.state = "cleaning" PROVE entries' \subseteq n.seen \cup n.must \cup {n.victim}
    BY <1>1, <1>2, <1>3, <1>5, <2>4 DEF Swept, Attempting
  <2>5. ASSUME n.state \in {"cleaned", "counting"}, ~n.blind PROVE entries' \subseteq n.seen
    <3>1. entries \subseteq o.seen
      BY <1>1, <1>3, <1>4, <2>5 DEF Swept
    <3> QED
      BY <1>2, <1>3, <1>5, <2>5, <3>1 DEF Attempting
  <2>6. ASSUME n.state = "counting", ~n.blind PROVE n.may \cup n.counted \subseteq n.seen
    <3>1. entries \cup o.may \cup o.counted \subseteq o.seen
      BY <1>1, <1>3, <1>4, <2>6 DEF Swept
    <3> QED
      BY <1>3, <1>5, <2>6, <3>1 DEF Attempting, Reading
  <2>7. ASSUME n.state = "refused", ~n.blind
        PROVE  n.counted \subseteq n.seen /\ Cardinality(n.counted) >= n.limit
    <3>1. o.counted \subseteq o.seen /\ Cardinality(o.counted) >= o.limit
      BY <1>1, <1>3, <1>4, <2>7 DEF Swept
    <3> QED
      BY <1>3, <2>7, <3>1 DEF Attempting
  <2> QED
    BY <2>1, <2>2, <2>3, <2>4, <2>5, <2>6, <2>7, <2>8 DEF Swept
<1>9. Counted(q)'
  <2>1. ASSUME n.state \in {"counting", "creating"}, NEW x \in n.before
        PROVE  x # p /\ x \in Pid /\ Guarded(x) /\ Guarded(x)'
    <3>1. x \in o.before /\ Guarded(x) /\ x \in Pid
      BY <1>1, <1>3, <2>1 DEF Counted, Process
    <3>2. x # p
      BY <1>3, <2>1, <3>1 DEF Guarded, Courteous
    <3>3. Became(proc'[x], proc[x], p, r, E)
      BY <1>1, <3>1, <3>2, AfterFields DEF Step, Old
    <3> QED
      BY <3>1, <3>2, <3>3 DEF Guarded, Became
  <2>2. ASSUME n.state = "counting" PROVE n.before \subseteq n.counted \cup n.must
    <3> SUFFICES ASSUME NEW x \in n.before PROVE x \in n.counted \cup n.must
      OBVIOUS
    <3>1. x \in o.counted \cup o.must /\ o.must \subseteq entries
      BY <1>1, <1>3, <2>2 DEF Counted, Swept
    <3>2. proc[x].owner /\ ~proc[x].marked /\ x # p /\ x \in Pid
      BY <2>1, <2>2 DEF Guarded
    <3>3. proc[p].victim # x
      BY <3>2 DEF IInv, Sound, NoVictim
    <3> QED
      BY <1>3, <1>5, <3>1, <3>2, <3>3
  <2>3. ASSUME n.state = "creating", ~n.blind
        PROVE  n.before \subseteq n.counted /\ Cardinality(n.counted) < n.limit
    <3>1. o.before \subseteq o.counted /\ Cardinality(o.counted) < o.limit
      BY <1>1, <1>3, <1>4, <2>3 DEF Counted
    <3> QED
      BY <1>3, <3>1
  <2> QED
    BY <2>1, <2>2, <2>3 DEF Counted
<1> QED
  BY <1>6, <1>7, <1>8, <1>9 DEF Sound, NoVictim

\* A step keeps the invariant if p keeps its own part of it.
LEMMA StepKeeps ==
    ASSUME IInv, NEW p \in Pid, NEW r \in Process, NEW E \in SUBSET Pid, Step(p, r, E),
           Courteous(p, r, E), Became(proc'[p], r, p, r, E) => Sound(p)'
    PROVE  IInv'
<1>1. TypeOK'
  BY AfterFields DEF IInv, TypeOK, Step
<1>2. Sound(p)'
  BY AfterFields DEF IInv, Step, Old
<1> QED
  BY <1>1, <1>2, OthersKeep DEF IInv

\* In the first state nothing is open.
LEMMA InitKeeps == Init => IInv
  BY PidAssumption, LimitAssumption DEF Init, IInv, TypeOK, Sound, NoVictim, Guarded, Swept, Counted, Nobody, Process,
     States, Attempting, Reading

\* A process that neither tries to enter nor owns a file owes nothing.
LEMMA IdleKeeps ==
    ASSUME IInv, NEW p \in Pid, NEW r \in Process, NEW E \in SUBSET Pid, Step(p, r, E),
           r.state \in {"none", "other", "leaving", "working"}, ~r.owner, r.must = {}, r.victim = None,
           r.state = "working" => proc[p].state # "working",
           E \subseteq entries, \A q \in Pid \ {p} : q \in entries => q \in E
    PROVE  IInv'
<1>1. Courteous(p, r, E)
  BY DEF Courteous
<1>2. Became(proc'[p], r, p, r, E) => Sound(p)'
  <2> HAVE Became(proc'[p], r, p, r, E)
  <2>1. /\ proc'[p].state = r.state /\ proc'[p].victim = None /\ proc'[p].must = {} /\ proc'[p].may = {}
    BY DEF Became, Reading
  <2>2. ~proc'[p].owner
    BY DEF Became
  <2> QED
    BY <2>1, <2>2 DEF Sound, NoVictim, Guarded, Swept, Counted, Attempting, Reading
<1> QED
  BY <1>1, <1>2, StepKeeps

\* The records that the actions write are processes.
LEMMA NobodyType == Nobody \in Process
  BY LimitAssumption DEF Nobody, Process, States

\* A process that starts: it is nobody's victim unless it is marked.
LEMMA StartKeeps == ASSUME IInv, NEW p \in Pid, Start(p) PROVE IInv'
<1>1. PICK l \in Limits, s \in {"entering", "working"} :
          Step(p, [Newcomer(p) EXCEPT !.state = s, !.limit = l], entries)
  BY DEF Start
<1> DEFINE m == \E q \in Pid : proc[q].victim = p
           r == [Newcomer(p) EXCEPT !.state = s, !.limit = l]
<1>2. Newcomer(p) = [Nobody EXCEPT !.marked = m] /\ m \in BOOLEAN /\ Step(p, r, entries)
  BY <1>1 DEF Newcomer
<1>3. proc[p].state = "none" /\ entries \in SUBSET Pid
  BY DEF Start, Alive, IInv, TypeOK
<1> HIDE DEF m
<1>n. Newcomer(p) \in Process /\ (Newcomer(p).marked <=> m)
  BY <1>2, NobodyType DEF Process
<1>4. r \in Process
  BY <1>n DEF Process, States
<1>f. /\ r.state = s /\ r.must = {} /\ r.may = {} /\ r.victim = None
      /\ r.counted = {} /\ r.before = {}
  BY <1>2, <1>n DEF Nobody, Process
<1>g. ~r.owner /\ ~r.blind /\ (r.marked <=> m)
  BY <1>2, <1>n DEF Nobody, Process
<1> HIDE DEF r
<1>5. CASE s = "working"
  BY <1>2, <1>3, <1>4, <1>5, <1>f, <1>g, IdleKeeps
<1>6. CASE s = "entering"
  <2>1. Courteous(p, r, entries)
    BY <1>6, <1>f DEF Courteous
  <2>2. Became(proc'[p], r, p, r, entries) => Sound(p)'
    <3> HAVE Became(proc'[p], r, p, r, entries)
    <3>1. /\ proc'[p].state = "entering" /\ proc'[p].victim = None /\ proc'[p].must = {}
          /\ proc'[p].may = {} /\ proc'[p].counted = {} /\ proc'[p].before = {}
      BY <1>6, <1>f DEF Became, Reading
    <3>2. ~proc'[p].owner /\ ~proc'[p].blind /\ (~proc'[p].marked => \A q \in Pid : proc[q].victim # p)
      BY <1>g DEF Became, m
    <3>3. ASSUME NEW q \in Pid, q # p PROVE proc'[q].victim = proc[q].victim
      <4>1. Became(proc'[q], proc[q], p, r, entries)
        BY <1>2, <1>3, <1>4, <3>3, StepFields
      <4> QED
        BY <4>1 DEF Became
    <3>4. NoVictim(p)'
      BY <3>1, <3>2, <3>3, PidAssumption DEF NoVictim
    <3> QED
      BY <3>1, <3>2, <3>4 DEF Sound, Guarded, Swept, Counted, Reading
  <2> QED
    BY <1>2, <1>3, <1>4, <2>1, <2>2, StepKeeps
<1> QED
  BY <1>5, <1>6

\* A process on its way in that takes no victim of its own number stays
\* nobody's victim.
LEMMA NoVictimKept ==
    ASSUME IInv, NEW p \in Pid, NEW r \in Process, NEW E \in SUBSET Pid, Step(p, r, E),
           proc[p].state \in Attempting \cup {"creating"}, r.marked <=> proc[p].marked, r.victim # p
    PROVE  NoVictim(p)'
<1>1. Became(proc'[p], r, p, r, E)
  BY StepFields
<1>2. ASSUME ~proc'[p].marked, NEW q \in Pid PROVE proc'[q].victim # p
  <2>1. ~proc[p].marked
    BY <1>1, <1>2 DEF Became
  <2>2. proc[q].victim # p
    BY <2>1 DEF IInv, Sound, NoVictim
  <2>3. CASE q = p
    BY <1>1, <2>3 DEF Became
  <2>4. CASE q # p
    <3>1. Became(proc'[q], proc[q], p, r, E)
      BY <2>4, StepFields
    <3> QED
      BY <2>2, <3>1 DEF Became
  <2> QED
    BY <2>3, <2>4
<1> QED
  BY <1>2 DEF NoVictim

\* cleanup_stale_guard_entries opens the directory or not.
LEMMA OpenToCleanKeeps == ASSUME IInv, NEW p \in Pid, OpenToClean(p) PROVE IInv'
<1> DEFINE o == proc[p]
<1>1. /\ o \in Process /\ o.state = "entering" /\ entries \in SUBSET Pid /\ Sound(p) /\ Swept(p)
  BY DEF IInv, TypeOK, OpenToClean, Sound
<1>2. o.victim = None /\ o.may = {} /\ o.counted = {} /\ o.before = {}
  BY <1>1 DEF Swept, Reading
<1>3. ~o.owner /\ ~o.blind
  BY <1>1 DEF Swept
<1>4. ASSUME Step(p, [o EXCEPT !.state = "cleaning", !.must = entries], entries) PROVE IInv'
  <2> DEFINE r == [o EXCEPT !.state = "cleaning", !.must = entries]
  <2>1. /\ r \in Process /\ r.state = "cleaning" /\ r.must = entries
        /\ r.victim = None /\ r.may = {} /\ r.counted = {} /\ r.before = {}
    BY <1>1, <1>2 DEF Process, States
  <2>2. ~r.owner /\ ~r.blind /\ (r.marked <=> o.marked)
    BY <1>1, <1>3 DEF Process
  <2>3. Step(p, r, entries)
    BY <1>4
  <2> HIDE DEF r
  <2>4. Courteous(p, r, entries)
    BY <2>1 DEF Courteous
  <2>5. Became(proc'[p], r, p, r, entries) => Sound(p)'
    <3> HAVE Became(proc'[p], r, p, r, entries)
    <3>1. NoVictim(p)'
      BY <1>1, <2>1, <2>2, <2>3, NoVictimKept, PidAssumption DEF Attempting
    <3>2. /\ proc'[p].state = "cleaning" /\ proc'[p].must = entries /\ proc'[p].victim = None
          /\ proc'[p].counted = {} /\ proc'[p].before = {} /\ entries' = entries
      BY <2>1, <2>3 DEF Became, Step
    <3>3. ~proc'[p].owner /\ ~proc'[p].blind
      BY <2>2 DEF Became
    <3> QED
      BY <3>1, <3>2, <3>3 DEF Sound, Guarded, Swept, Counted, Reading
  <2> QED
    BY <1>1, <2>1, <2>3, <2>4, <2>5, StepKeeps
<1>5. ASSUME Step(p, [o EXCEPT !.state = "cleaned", !.blind = TRUE], entries) PROVE IInv'
  <2> DEFINE r == [o EXCEPT !.state = "cleaned", !.blind = TRUE]
  <2>1. /\ r \in Process /\ r.state = "cleaned" /\ r.must = o.must
        /\ r.victim = None /\ r.may = {} /\ r.counted = {} /\ r.before = {}
    BY <1>1, <1>2 DEF Process, States
  <2>2. ~r.owner /\ r.blind /\ (r.marked <=> o.marked)
    BY <1>1, <1>3 DEF Process
  <2>3. Step(p, r, entries)
    BY <1>5
  <2> HIDE DEF r
  <2>4. Courteous(p, r, entries)
    BY <2>1 DEF Courteous
  <2>5. Became(proc'[p], r, p, r, entries) => Sound(p)'
    <3> HAVE Became(proc'[p], r, p, r, entries)
    <3>1. NoVictim(p)'
      BY <1>1, <2>1, <2>2, <2>3, NoVictimKept, PidAssumption DEF Attempting
    <3>2. /\ proc'[p].state = "cleaned" /\ proc'[p].must \subseteq entries /\ proc'[p].may = {}
          /\ proc'[p].victim = None
          /\ proc'[p].counted = {} /\ proc'[p].before = {} /\ entries' = entries
      BY <2>1, <2>3 DEF Became, Step, Reading
    <3>3. ~proc'[p].owner /\ proc'[p].blind
      BY <2>2 DEF Became
    <3> QED
      BY <3>1, <3>2, <3>3 DEF Sound, Guarded, Swept, Counted, Reading
  <2> QED
    BY <1>1, <2>1, <2>3, <2>4, <2>5, StepKeeps
<1> QED
  BY <1>4, <1>5 DEF OpenToClean

\* A name is examined; a victim has no process at that moment.
LEMMA ExamineKeeps == ASSUME IInv, NEW p \in Pid, NEW q \in Pid, Examine(p, q) PROVE IInv'
<1> DEFINE o == proc[p]
           v == IF Alive(q) THEN None ELSE q
           r == [o EXCEPT !.must = @ \ {q}, !.may = @ \ {q}, !.victim = v]
<1>1. /\ o \in Process /\ o.state = "cleaning" /\ entries \in SUBSET Pid /\ Swept(p)
      /\ Step(p, r, entries)
  BY DEF IInv, TypeOK, Examine, Sound
<1>2. /\ o.victim = None /\ o.counted = {} /\ o.before = {} /\ o.must \subseteq entries
      /\ entries \subseteq o.seen \cup o.must \cup {None}
  BY <1>1 DEF Swept, Examine
<1>3. ~o.owner /\ ~o.blind
  BY <1>1 DEF Swept
<1>4. v \in Pid \cup {None} /\ v # p /\ (v # None => proc[v].state = "none") /\ (v = None => Alive(q))
  BY <1>1, PidAssumption DEF Alive
<1> HIDE DEF v
<1>5. /\ r \in Process /\ r.state = "cleaning" /\ r.must = o.must \ {q} /\ r.victim = v
      /\ r.seen = o.seen /\ r.counted = {} /\ r.before = {}
  BY <1>1, <1>2, <1>4 DEF Process
<1>6. ~r.owner /\ ~r.blind /\ (r.marked <=> o.marked)
  BY <1>1, <1>3 DEF Process
<1> HIDE DEF r
<1>7. Courteous(p, r, entries)
  BY <1>4, <1>5 DEF Courteous
<1>8. Became(proc'[p], r, p, r, entries) => Sound(p)'
  <2> HAVE Became(proc'[p], r, p, r, entries)
  <2>1. NoVictim(p)'
    BY <1>1, <1>4, <1>5, <1>6, NoVictimKept DEF Attempting
  <2>2. /\ proc'[p].state = "cleaning" /\ proc'[p].must = o.must \ {q} /\ proc'[p].victim = v
        /\ proc'[p].counted = {} /\ proc'[p].before = {} /\ entries' = entries
        /\ proc'[p].seen = o.seen \cup (entries \cap InUse(p, r))
    BY <1>1, <1>2, <1>5 DEF Became, Step, Attempting
  <2>3. ~proc'[p].owner /\ ~proc'[p].blind
    BY <1>6 DEF Became
  <2>4. v = None => q \in InUse(p, r)
    BY <1>4, <1>5 DEF InUse, Alive
  <2>5. v # None => v = q
    BY DEF v
  <2>6. entries' \subseteq proc'[p].seen \cup proc'[p].must \cup {proc'[p].victim}
    BY <1>1, <1>2, <2>2, <2>4, <2>5, PidAssumption
  <2> QED
    BY <1>2, <2>1, <2>2, <2>3, <2>6 DEF Sound, Guarded, Swept, Counted, Reading
<1> QED
  BY <1>1, <1>5, <1>7, <1>8, StepKeeps

\* Only a victim loses its file, and a victim that is in use again is marked.
LEMMA UnlinkKeeps == ASSUME IInv, NEW p \in Pid, Unlink(p) PROVE IInv'
<1> DEFINE o == proc[p]
           r == [o EXCEPT !.victim = None]
           E == entries \ {o.victim}
<1>1. /\ o \in Process /\ o.state = "cleaning" /\ entries \in SUBSET Pid /\ Swept(p)
      /\ Step(p, r, E)
  BY DEF IInv, TypeOK, Unlink, Sound, Swept
<1>2. /\ o.counted = {} /\ o.before = {} /\ o.must \subseteq entries
      /\ entries \subseteq o.seen \cup o.must \cup {o.victim}
  BY <1>1 DEF Swept
<1>3. ~o.owner /\ ~o.blind
  BY <1>1 DEF Swept
<1>5. /\ r \in Process /\ r.state = "cleaning" /\ r.must = o.must /\ r.victim = None
      /\ r.seen = o.seen /\ r.counted = {} /\ r.before = {}
  BY <1>1, <1>2 DEF Process
<1>6. ~r.owner /\ ~r.blind /\ (r.marked <=> o.marked)
  BY <1>1, <1>3 DEF Process
<1> HIDE DEF r
<1>7. Courteous(p, r, E)
  BY <1>5 DEF Courteous
<1>8. Became(proc'[p], r, p, r, E) => Sound(p)'
  <2> HAVE Became(proc'[p], r, p, r, E)
  <2>1. NoVictim(p)'
    BY <1>1, <1>5, <1>6, NoVictimKept, PidAssumption DEF Attempting
  <2>2. /\ proc'[p].state = "cleaning" /\ proc'[p].must = o.must \cap E /\ proc'[p].victim = None
        /\ proc'[p].counted = {} /\ proc'[p].before = {} /\ entries' = E
        /\ o.seen \subseteq proc'[p].seen
    BY <1>1, <1>5 DEF Became, Step, Attempting
  <2>3. ~proc'[p].owner /\ ~proc'[p].blind
    BY <1>6 DEF Became
  <2>6. entries' \subseteq proc'[p].seen \cup proc'[p].must \cup {proc'[p].victim}
    BY <1>2, <2>2
  <2> QED
    BY <1>2, <2>1, <2>2, <2>3, <2>6 DEF Sound, Guarded, Swept, Counted, Reading
<1> QED
  BY <1>1, <1>5, <1>7, <1>8, StepKeeps

\* All names have been examined.
LEMMA CloseCleanedKeeps == ASSUME IInv, NEW p \in Pid, CloseCleaned(p) PROVE IInv'
<1> DEFINE o == proc[p]
           r == [o EXCEPT !.state = "cleaned"]
<1>1. /\ o \in Process /\ o.state = "cleaning" /\ o.victim = None /\ o.must = {}
      /\ entries \in SUBSET Pid /\ Swept(p) /\ Step(p, r, entries)
  BY DEF IInv, TypeOK, CloseCleaned, Sound
<1>2. o.counted = {} /\ o.before = {} /\ entries \subseteq o.seen
  BY <1>1, PidAssumption DEF Swept
<1>3. ~o.owner
  BY <1>1 DEF Swept
<1>5. /\ r \in Process /\ r.state = "cleaned" /\ r.must = {} /\ r.victim = None
      /\ r.seen = o.seen /\ r.counted = {} /\ r.before = {}
  BY <1>1, <1>2 DEF Process, States
<1>6. ~r.owner /\ (r.marked <=> o.marked)
  BY <1>1, <1>3 DEF Process
<1> HIDE DEF r
<1>7. Courteous(p, r, entries)
  BY <1>5 DEF Courteous
<1>8. Became(proc'[p], r, p, r, entries) => Sound(p)'
  <2> HAVE Became(proc'[p], r, p, r, entries)
  <2>1. NoVictim(p)'
    BY <1>1, <1>5, <1>6, NoVictimKept, PidAssumption DEF Attempting
  <2>2. /\ proc'[p].state = "cleaned" /\ proc'[p].must = {} /\ proc'[p].may = {}
        /\ proc'[p].victim = None
        /\ proc'[p].counted = {} /\ proc'[p].before = {} /\ entries' = entries
        /\ entries \subseteq proc'[p].seen
    BY <1>1, <1>2, <1>5 DEF Became, Step, Attempting, Reading
  <2>3. ~proc'[p].owner
    BY <1>6 DEF Became
  <2> QED
    BY <2>1, <2>2, <2>3 DEF Sound, Guarded, Swept, Counted, Reading
<1> QED
  BY <1>1, <1>5, <1>7, <1>8, StepKeeps

\* count_guard_entries opens the directory: every guarded process has its
\* file there and has to be counted.
LEMMA OpenToCountKeeps == ASSUME IInv, NEW p \in Pid, OpenToCount(p) PROVE IInv'
<1> DEFINE o == proc[p]
           G == {q \in Pid : Guarded(q)}
<1>1. /\ o \in Process /\ o.state = "cleaned" /\ entries \in SUBSET Pid /\ Swept(p)
  BY DEF IInv, TypeOK, OpenToCount, Sound
<1>2. /\ o.victim = None /\ o.may = {} /\ o.counted = {} /\ o.before = {}
      /\ o.must \subseteq entries
  BY <1>1 DEF Swept, Reading
<1>3. ~o.owner /\ (~o.blind => entries \subseteq o.seen)
  BY <1>1 DEF Swept
<1>4. ASSUME Step(p, [o EXCEPT !.state = "counting", !.must = entries, !.before = G], entries) PROVE IInv'
  <2> DEFINE r == [o EXCEPT !.state = "counting", !.must = entries, !.before = G]
  <2>g. G \in SUBSET Pid /\ (\A x \in G : Guarded(x) /\ x \in entries /\ x # p)
    BY <1>1 DEF IInv, Sound, Guarded
  <2> HIDE DEF G
  <2>1. /\ r \in Process /\ r.state = "counting" /\ r.must = entries /\ r.seen = o.seen
        /\ r.victim = None /\ r.may = {} /\ r.counted = {} /\ r.before = G
    BY <1>1, <1>2, <2>g DEF Process, States
  <2>2. ~r.owner /\ (r.blind <=> o.blind) /\ (r.marked <=> o.marked)
    BY <1>1, <1>3 DEF Process
  <2>3. Step(p, r, entries)
    BY <1>4
  <2> HIDE DEF r
  <2>4. Courteous(p, r, entries)
    BY <2>1 DEF Courteous
  <2>5. Became(proc'[p], r, p, r, entries) => Sound(p)'
    <3> HAVE Became(proc'[p], r, p, r, entries)
    <3>1. NoVictim(p)'
      BY <1>1, <2>1, <2>2, <2>3, NoVictimKept, PidAssumption DEF Attempting
    <3>2. /\ proc'[p].state = "counting" /\ proc'[p].must = entries /\ proc'[p].victim = None
          /\ proc'[p].counted = {} /\ proc'[p].may = {} /\ entries' = entries
          /\ proc'[p].before \subseteq G /\ o.seen \subseteq proc'[p].seen
      BY <2>1, <2>3 DEF Became, Step, Attempting, Reading
    <3>3. ~proc'[p].owner /\ (~proc'[p].blind => entries \subseteq o.seen)
      BY <1>3, <2>2 DEF Became
    <3>4. ASSUME NEW x \in G PROVE Guarded(x)'
      <4>1. Became(proc'[x], proc[x], p, r, entries)
        BY <1>1, <2>1, <2>3, <2>g, StepFields
      <4> QED
        BY <2>g, <4>1 DEF Became, Guarded
    <3>5. Counted(p)'
      BY <2>g, <3>2, <3>4 DEF Counted
    <3>6. Swept(p)'
      BY <3>2, <3>3 DEF Swept, Reading
    <3> QED
      BY <3>1, <3>2, <3>5, <3>6 DEF Sound, Guarded
  <2> QED
    BY <1>1, <2>1, <2>3, <2>4, <2>5, StepKeeps
<1>5. ASSUME Step(p, [o EXCEPT !.state = "creating", !.blind = TRUE], entries) PROVE IInv'
  <2> DEFINE r == [o EXCEPT !.state = "creating", !.blind = TRUE]
  <2>1. /\ r \in Process /\ r.state = "creating" /\ r.must = o.must
        /\ r.victim = None /\ r.may = {} /\ r.counted = {} /\ r.before = {}
    BY <1>1, <1>2 DEF Process, States
  <2>2. ~r.owner /\ r.blind /\ (r.marked <=> o.marked)
    BY <1>1, <1>3 DEF Process
  <2>3. Step(p, r, entries)
    BY <1>5
  <2> HIDE DEF r
  <2>4. Courteous(p, r, entries)
    BY <2>1 DEF Courteous
  <2>5. Became(proc'[p], r, p, r, entries) => Sound(p)'
    <3> HAVE Became(proc'[p], r, p, r, entries)
    <3>1. NoVictim(p)'
      BY <1>1, <2>1, <2>2, <2>3, NoVictimKept, PidAssumption DEF Attempting
    <3>2. /\ proc'[p].state = "creating" /\ proc'[p].must \subseteq entries /\ proc'[p].may = {}
          /\ proc'[p].victim = None /\ proc'[p].before = {} /\ entries' = entries
      BY <1>2, <2>1, <2>3 DEF Became, Step, Reading
    <3>3. ~proc'[p].owner /\ proc'[p].blind
      BY <2>2 DEF Became
    <3> QED
      BY <3>1, <3>2, <3>3 DEF Sound, Guarded, Swept, Counted, Reading
  <2> QED
    BY <1>1, <2>1, <2>3, <2>4, <2>5, StepKeeps
<1> QED
  BY <1>4, <1>5 DEF OpenToCount

\* A name is counted; it had a file and a process, or it was added since.
LEMMA CountKeeps == ASSUME IInv, NEW p \in Pid, NEW q \in Pid, Count(p, q) PROVE IInv'
<1> DEFINE o == proc[p]
           r == [o EXCEPT !.must = @ \ {q}, !.may = @ \ {q}, !.counted = @ \cup {q}]
<1>1. /\ o \in Process /\ o.state = "counting" /\ entries \in SUBSET Pid /\ Swept(p) /\ Counted(p)
      /\ q \in o.must \cup o.may /\ Step(p, r, entries)
  BY DEF IInv, TypeOK, Count, Sound
<1>2. /\ o.victim = None /\ o.must \subseteq entries /\ o.before \subseteq o.counted \cup o.must
      /\ \A x \in o.before : Guarded(x)
  BY <1>1 DEF Swept, Counted
<1>3. ~o.owner /\ (~o.blind => entries \cup o.may \cup o.counted \subseteq o.seen)
  BY <1>1 DEF Swept
<1>5. /\ r \in Process /\ r.state = "counting" /\ r.must = o.must \ {q} /\ r.may = o.may \ {q}
      /\ r.victim = None /\ r.seen = o.seen /\ r.counted = o.counted \cup {q} /\ r.before = o.before
  BY <1>1, <1>2 DEF Process
<1>6. ~r.owner /\ (r.blind <=> o.blind) /\ (r.marked <=> o.marked)
  BY <1>1, <1>3 DEF Process
<1> HIDE DEF r
<1>7. Courteous(p, r, entries)
  BY <1>5 DEF Courteous
<1>8. Became(proc'[p], r, p, r, entries) => Sound(p)'
  <2> HAVE Became(proc'[p], r, p, r, entries)
  <2>1. NoVictim(p)'
    BY <1>1, <1>5, <1>6, NoVictimKept, PidAssumption DEF Attempting
  <2>2. /\ proc'[p].state = "counting" /\ proc'[p].must = o.must \ {q} /\ proc'[p].victim = None
        /\ proc'[p].may \subseteq o.may /\ proc'[p].counted = o.counted \cup {q}
        /\ proc'[p].before \subseteq o.before /\ entries' = entries /\ o.seen \subseteq proc'[p].seen
    BY <1>1, <1>2, <1>5 DEF Became, Step, Attempting, Reading
  <2>3. ~proc'[p].owner /\ (~proc'[p].blind => entries \cup o.may \cup o.counted \subseteq o.seen)
    BY <1>3, <1>6 DEF Became
  <2>4. ASSUME NEW x \in o.before PROVE Guarded(x)'
    <3>1. x \in Pid /\ x # p
      BY <1>1, <1>2 DEF Process, Guarded
    <3>2. Became(proc'[x], proc[x], p, r, entries)
      BY <1>1, <1>5, <3>1, StepFields
    <3> QED
      BY <1>2, <3>2 DEF Became, Guarded
  <2>5. Counted(p)'
    BY <1>2, <2>2, <2>4 DEF Counted
  <2>6. Swept(p)'
    BY <1>1, <1>2, <2>2, <2>3 DEF Swept, Reading
  <2> QED
    BY <2>1, <2>2, <2>5, <2>6 DEF Sound, Guarded
<1> QED
  BY <1>1, <1>5, <1>7, <1>8, StepKeeps

\* The comparison with the limit.
LEMMA CloseCountedKeeps == ASSUME IInv, NEW p \in Pid, CloseCounted(p) PROVE IInv'
<1> DEFINE o == proc[p]
           s == IF Cardinality(o.counted) >= o.limit THEN "refused" ELSE "creating"
           r == [o EXCEPT !.state = s]
<1>1. /\ o \in Process /\ o.state = "counting" /\ o.must = {} /\ entries \in SUBSET Pid
      /\ Swept(p) /\ Counted(p) /\ Step(p, r, entries)
  BY DEF IInv, TypeOK, CloseCounted, Sound
<1>2. /\ o.victim = None /\ o.before \subseteq o.counted
      /\ \A x \in o.before : Guarded(x)
  BY <1>1 DEF Swept, Counted
<1>3. ~o.owner /\ (~o.blind => o.counted \subseteq o.seen)
  BY <1>1 DEF Swept
<1>4. /\ s \in {"refused", "creating"}
      /\ s = "refused" => Cardinality(o.counted) >= o.limit
      /\ s = "creating" => Cardinality(o.counted) < o.limit
  <2>1. o.limit \in Nat /\ o.counted \in SUBSET Pid
    BY <1>1, LimitAssumption DEF Process
  <2>2. Cardinality(o.counted) \in Nat
    BY <2>1, PidAssumption, FS_Subset, FS_CardinalityType
  <2> QED
    BY <2>1, <2>2
<1> HIDE DEF s
<1>5. /\ r \in Process /\ r.state = s /\ r.must = {} /\ r.victim = None /\ r.seen = o.seen
      /\ r.counted = o.counted /\ r.before = o.before /\ r.limit = o.limit
  BY <1>1, <1>2, <1>4 DEF Process, States
<1>6. ~r.owner /\ (r.blind <=> o.blind) /\ (r.marked <=> o.marked)
  BY <1>1, <1>3 DEF Process
<1> HIDE DEF r
<1>7. Courteous(p, r, entries)
  BY <1>4, <1>5 DEF Courteous
<1>8. Became(proc'[p], r, p, r, entries) => Sound(p)'
  <2> HAVE Became(proc'[p], r, p, r, entries)
  <2>1. NoVictim(p)'
    BY <1>1, <1>5, <1>6, NoVictimKept, PidAssumption DEF Attempting
  <2>2. /\ proc'[p].state = s /\ proc'[p].must = {} /\ proc'[p].victim = None /\ proc'[p].may = {}
        /\ proc'[p].counted = o.counted /\ proc'[p].limit = o.limit
        /\ proc'[p].before \subseteq o.before /\ entries' = entries /\ proc'[p].seen = o.seen
    BY <1>1, <1>4, <1>5 DEF Became, Step, Attempting, Reading
  <2>3. ~proc'[p].owner /\ (~proc'[p].blind => o.counted \subseteq o.seen)
    BY <1>3, <1>6 DEF Became
  <2>4. ASSUME NEW x \in o.before PROVE Guarded(x)'
    <3>1. x \in Pid /\ x # p
      BY <1>1, <1>2 DEF Process, Guarded
    <3>2. Became(proc'[x], proc[x], p, r, entries)
      BY <1>1, <1>5, <3>1, StepFields
    <3> QED
      BY <1>2, <3>2 DEF Became, Guarded
  <2>5. Counted(p)'
    BY <1>2, <1>4, <2>2, <2>4 DEF Counted
  <2>6. Swept(p)'
    BY <1>4, <2>2, <2>3 DEF Swept, Reading
  <2> QED
    BY <1>4, <2>1, <2>2, <2>5, <2>6 DEF Sound, Guarded
<1> QED
  BY <1>1, <1>5, <1>7, <1>8, StepKeeps

\* The file is created, or the process works without.
LEMMA CreateKeeps == ASSUME IInv, NEW p \in Pid, Create(p) PROVE IInv'
<1> DEFINE o == proc[p]
<1>1. o \in Process /\ o.state = "creating" /\ entries \in SUBSET Pid /\ Swept(p)
  BY DEF IInv, TypeOK, Create, Sound
<1>2. ASSUME Step(p, [Nobody EXCEPT !.state = "working", !.owner = TRUE, !.marked = o.marked],
                  entries \cup {p})
      PROVE  IInv'
  <2> DEFINE r == [Nobody EXCEPT !.state = "working", !.owner = TRUE, !.marked = o.marked]
             E == entries \cup {p}
  <2>1. r \in Process /\ r.state = "working" /\ r.must = {} /\ r.victim = None
    BY <1>1, NobodyType DEF Process, Nobody, States
  <2>2. r.owner /\ (r.marked <=> o.marked)
    BY <1>1, NobodyType DEF Process, Nobody
  <2>3. Step(p, r, E) /\ E \in SUBSET Pid
    BY <1>1, <1>2
  <2> HIDE DEF r
  <2>4. Courteous(p, r, E)
    BY <1>1, <2>1 DEF Courteous, InUse
  <2>5. Became(proc'[p], r, p, r, E) => Sound(p)'
    <3> HAVE Became(proc'[p], r, p, r, E)
    <3>1. NoVictim(p)'
      BY <1>1, <2>1, <2>2, <2>3, NoVictimKept, PidAssumption
    <3>2. /\ proc'[p].state = "working" /\ proc'[p].must = {} /\ proc'[p].may = {}
          /\ proc'[p].victim = None /\ entries' = E
      BY <2>1, <2>3 DEF Became, Step, Reading
    <3> QED
      BY <3>1, <3>2 DEF Sound, Guarded, Swept, Counted, Reading
  <2> QED
    BY <2>1, <2>3, <2>4, <2>5, StepKeeps
<1>3. ASSUME Step(p, [Nobody EXCEPT !.state = "working"], entries) PROVE IInv'
  <2> DEFINE r == [Nobody EXCEPT !.state = "working"]
  <2>1. r \in Process /\ r.state = "working" /\ r.must = {} /\ r.victim = None
    BY NobodyType DEF Process, Nobody, States
  <2>2. ~r.owner
    BY NobodyType DEF Process, Nobody
  <2>3. Step(p, r, entries)
    BY <1>3
  <2> HIDE DEF r
  <2> QED
    BY <1>1, <2>1, <2>2, <2>3, IdleKeeps
<1> QED
  BY <1>2, <1>3 DEF Create

\* Leaving, ending, crashing, and the processes of other programs.
LEMMA RestKeeps ==
    ASSUME IInv, NEW p \in Pid, Leave(p) \/ End(p) \/ Crash(p) \/ OtherStarts(p) \/ OtherEnds(p)
    PROVE  IInv'
<1>1. entries \in SUBSET Pid
  BY DEF IInv, TypeOK
<1>2. CASE End(p) \/ Crash(p) \/ OtherEnds(p)
  <2>1. Step(p, Nobody, entries)
    BY <1>2 DEF End, Crash, OtherEnds
  <2>2. Nobody.state = "none" /\ Nobody.must = {} /\ Nobody.victim = None /\ ~Nobody.owner
    BY DEF Nobody
  <2> QED
    BY <1>1, <2>1, <2>2, NobodyType, IdleKeeps
<1>3. CASE Leave(p) \/ OtherStarts(p)
  <2>1. PICK s \in {"other", "leaving"}, E \in SUBSET Pid :
            /\ Step(p, [Nobody EXCEPT !.state = s], E)
            /\ E \subseteq entries /\ \A q \in Pid \ {p} : q \in entries => q \in E
    BY <1>1, <1>3 DEF Leave, OtherStarts
  <2> DEFINE r == [Nobody EXCEPT !.state = s]
  <2>2. r \in Process /\ r.state = s /\ r.must = {} /\ r.victim = None
    BY NobodyType DEF Process, Nobody, States
  <2>3. ~r.owner
    BY NobodyType DEF Process, Nobody
  <2> HIDE DEF r
  <2> QED
    BY <2>1, <2>2, <2>3, IdleKeeps DEF r
<1> QED
  BY <1>2, <1>3

-----------------------------------------------------------------------------
\* IInv holds in every reachable state, for any set of process numbers and
\* any limits.
THEOREM Inductive == Spec => []IInv
<1>1. IInv /\ [Next]_vars => IInv'
  <2> SUFFICES ASSUME IInv, [Next]_vars PROVE IInv'
    OBVIOUS
  <2>1. CASE UNCHANGED vars
    <3>1. TypeOK'
      BY <2>1 DEF vars, IInv, TypeOK
    <3>2. ASSUME NEW p \in Pid PROVE Sound(p)'
      <4>1. Sound(p)
        BY DEF IInv
      <4>2. NoVictim(p)' <=> NoVictim(p)
        BY <2>1 DEF vars, NoVictim
      <4>3. (Guarded(p)' <=> Guarded(p)) /\ entries' = entries
        BY <2>1 DEF vars, Guarded
      <4>4. Swept(p)' <=> Swept(p)
        BY <2>1 DEF vars, Swept, Guarded
      <4>5. Counted(p)' <=> Counted(p)
        BY <2>1 DEF vars, Counted, Guarded
      <4> QED
        BY <4>1, <4>2, <4>3, <4>4, <4>5 DEF Sound
    <3> QED
      BY <3>1, <3>2 DEF IInv
  <2>2. ASSUME NEW p \in Pid, NEW q \in Pid, Examine(p, q) \/ Count(p, q) PROVE IInv'
    BY <2>2, ExamineKeeps, CountKeeps
  <2>3. ASSUME NEW p \in Pid,
               \/ Start(p) \/ OpenToClean(p) \/ Unlink(p) \/ CloseCleaned(p) \/ OpenToCount(p)
               \/ CloseCounted(p) \/ Create(p) \/ Leave(p) \/ End(p) \/ Crash(p)
               \/ OtherStarts(p) \/ OtherEnds(p)
        PROVE  IInv'
    BY <2>3, StartKeeps, OpenToCleanKeeps, UnlinkKeeps, CloseCleanedKeeps, OpenToCountKeeps,
       CloseCountedKeeps, CreateKeeps, RestKeeps
  <2> QED
    BY <2>1, <2>2, <2>3 DEF Next
<1> QED
  BY <1>1, InitKeeps, PTL DEF Spec

\* Nobody unlinks the file of a process that works behind it
\* (cleanup_stale_guard_entries), whatever starts, crashes and is recycled.
THEOREM LiveEntry == Spec => []LiveEntryKept
<1>1. IInv => LiveEntryKept
  BY DEF IInv, Sound, LiveEntryKept
<1> QED
  BY <1>1, Inductive, PTL

\* A limit is a natural number.
LEMMA LimitType == ASSUME NEW r \in Process PROVE r.limit \in Nat
<1>1. \A l \in Limits \cup {0} : l \in Nat
  BY LimitAssumption
<1>2. r.limit \in Limits \cup {0}
  BY DEF Process
<1> QED
  BY <1>1, <1>2

\* A set of counted names bounds the set it is part of.
LEMMA Fewer ==
    ASSUME NEW S \in SUBSET Pid, NEW T \in SUBSET Pid, S \subseteq T
    PROVE  Cardinality(S) \in Nat /\ Cardinality(T) \in Nat /\ Cardinality(S) <= Cardinality(T)
<1>1. IsFiniteSet(S) /\ IsFiniteSet(T)
  BY PidAssumption, FS_Subset
<1> QED
  BY <1>1, FS_Subset, FS_CardinalityType

\* The refusal of fisics_proc_guard_enter is for as many numbers as the
\* limit says, each with a file and a process.
THEOREM Refusal == Spec => []RefusalJustified
<1>1. IInv => RefusalJustified
  <2> SUFFICES ASSUME IInv, NEW p \in Pid, proc[p].state = "refused", ~proc[p].blind
               PROVE  Cardinality(proc[p].seen) >= proc[p].limit
    BY DEF RefusalJustified
  <2>1. proc[p] \in Process /\ Swept(p)
    BY DEF IInv, TypeOK, Sound
  <2>2. /\ proc[p].counted \in SUBSET Pid /\ proc[p].seen \in SUBSET Pid
    BY <2>1 DEF Process
  <2>4. proc[p].limit \in Nat
    BY <2>1, LimitType
  <2>3. proc[p].counted \subseteq proc[p].seen /\ Cardinality(proc[p].counted) >= proc[p].limit
    BY <2>1 DEF Swept
  <2> QED
    BY <2>2, <2>3, <2>4, Fewer
<1> QED
  BY <1>1, Inductive, PTL

\* What fisics_proc_guard_enter lets through, it lets through below the
\* limit.
THEOREM Admission == Spec => []AdmittedBelowLimit
<1>1. IInv => AdmittedBelowLimit
  <2> SUFFICES ASSUME IInv, NEW p \in Pid, proc[p].state = "creating", ~proc[p].blind
               PROVE  Cardinality(proc[p].before) < proc[p].limit
    BY DEF AdmittedBelowLimit
  <2>1. proc[p] \in Process /\ Counted(p)
    BY DEF IInv, TypeOK, Sound
  <2>2. /\ proc[p].counted \in SUBSET Pid /\ proc[p].before \in SUBSET Pid
    BY <2>1 DEF Process
  <2>4. proc[p].limit \in Nat
    BY <2>1, LimitType
  <2>3. proc[p].before \subseteq proc[p].counted /\ Cardinality(proc[p].counted) < proc[p].limit
    BY <2>1 DEF Counted
  <2> QED
    BY <2>2, <2>3, <2>4, Fewer
<1> QED
  BY <1>1, Inductive, PTL
=============================================================================
