---------------------------- MODULE ProcessGuard ----------------------------
(***************************************************************************)
(* How processes of the compiler keep their number small: each of them     *)
(* leaves a file pid-<n> in one directory, and counts the files it finds   *)
(* there before it starts to work (fisics_proc_guard_enter in src/main.c). *)
(* There is no lock.  Processes start, crash, are ended by their watchdog  *)
(* and leave at any time; process numbers are given out again, to the      *)
(* compiler and to other programs.                                         *)
(***************************************************************************)
EXTENDS Naturals, FiniteSets

CONSTANTS
    Pid,    \* the process numbers of the system
    Limits, \* the values of FISICS_MAX_PROCS; 0 turns the guard off
    None    \* no process

ASSUME PidAssumption == IsFiniteSet(Pid) /\ None \notin Pid
ASSUME LimitAssumption == Limits \subseteq Nat

VARIABLES
    entries, \* the n for which the directory has a file pid-<n>
    proc     \* for every number, the process that has it

vars == <<entries, proc>>

States == {"none", "other", "entering", "cleaning", "cleaned", "counting", "creating",
           "working", "leaving", "refused"}

(* must and may are the position in the directory: the names readdir has   *)
(* still to return, and those it may return or not because they were added *)
(* or removed since opendir.  seen, before and marked are not in the code: *)
(* the numbers that had both a file and a process at some moment of the    *)
(* attempt; the guarded processes that worked when it began to count and   *)
(* still do; and that the number was given out again when somebody had     *)
(* found it unused and was about to unlink its file.                       *)
Process ==
    [state   : States,
     limit   : Limits \cup {0},
     must    : SUBSET Pid,
     may     : SUBSET Pid,
     victim  : Pid \cup {None}, \* the stale name it is about to unlink
     counted : SUBSET Pid,      \* what count_guard_entries has counted
     owner   : BOOLEAN,         \* g_proc_guard_path is set
     blind   : BOOLEAN,         \* an opendir failed
     seen    : SUBSET Pid,
     before  : SUBSET Pid,
     marked  : BOOLEAN]

TypeOK == entries \subseteq Pid /\ proc \in [Pid -> Process]

Nobody ==
    [state |-> "none", limit |-> 0, must |-> {}, may |-> {}, victim |-> None, counted |-> {},
     owner |-> FALSE, blind |-> FALSE, seen |-> {}, before |-> {}, marked |-> FALSE]

Init ==
    /\ entries = {}
    /\ proc = [p \in Pid |-> Nobody]

\* kill(q, 0) finds a process.
Alive(q) == proc[q].state # "none"

\* A process that works behind a file of its own, which nobody was about to
\* unlink when it started.
Guarded(q) == proc[q].state = "working" /\ proc[q].owner /\ ~proc[q].marked

Reading == {"cleaning", "counting"}
Attempting == {"entering", "cleaning", "cleaned", "counting"}

\* What the process r notices when the directory becomes E, with L the
\* numbers in use: names that come and go under an open directory are
\* returned or not.
Noticing(r, E, L) ==
    LET changed == (entries \ E) \cup (E \ entries)
    IN  [r EXCEPT !.must = @ \cap E,
                  !.may  = IF r.state \in Reading THEN @ \cup (changed \ r.counted) ELSE {},
                  !.seen = IF r.state \in Attempting THEN @ \cup (E \cap L) ELSE @]

\* The numbers in use when the process p becomes r.
InUse(p, r) == {q \in Pid : IF q = p THEN r.state # "none" ELSE Alive(q)}

\* The process q when p becomes r, and the directory E.
After(p, r, E, q) ==
    LET n == Noticing(IF q = p THEN r ELSE proc[q], E, InUse(p, r))
    IN  IF r.state = "working" THEN n ELSE [n EXCEPT !.before = @ \ {p}]

Step(p, r, E) ==
    /\ entries' = E
    /\ proc' = [q \in Pid |-> After(p, r, E, q)]

-----------------------------------------------------------------------------
\* A process that has been given the number p.
Newcomer(p) == [Nobody EXCEPT !.marked = \E q \in Pid : proc[q].victim = p]

\* With FISICS_MAX_PROCS=0, or without the directory, it works unguarded.
Start(p) ==
    /\ ~Alive(p)
    /\ \E l \in Limits, s \in {"entering", "working"} :
         /\ l = 0 => s = "working"
         /\ Step(p, [Newcomer(p) EXCEPT !.state = s, !.limit = l], entries)

\* cleanup_stale_guard_entries: opendir, then readdir and kill for every
\* name, and unlink where there is no process; without the directory it
\* does nothing.
OpenToClean(p) ==
    /\ proc[p].state = "entering"
    /\ \/ Step(p, [proc[p] EXCEPT !.state = "cleaning", !.must = entries], entries)
       \/ Step(p, [proc[p] EXCEPT !.state = "cleaned", !.blind = TRUE], entries)

\* Faulty variant: a name is taken for stale without asking for its process.
Examine_unasked(p, q) ==
    /\ proc[p].state = "cleaning"
    /\ proc[p].victim = None
    /\ q \in proc[p].must \cup proc[p].may
    /\ Step(p, [proc[p] EXCEPT !.must = @ \ {q}, !.may = @ \ {q}, !.victim = q], entries)

Examine(p, q) ==
    /\ proc[p].state = "cleaning"
    /\ proc[p].victim = None
    /\ q \in proc[p].must \cup proc[p].may
    /\ Step(p, [proc[p] EXCEPT !.must = @ \ {q}, !.may = @ \ {q},
                               !.victim = IF Alive(q) THEN None ELSE q], entries)

\* Faulty variant: the stale file stays.
Unlink_nothing(p) ==
    /\ proc[p].victim # None
    /\ Step(p, [proc[p] EXCEPT !.victim = None], entries)

Unlink(p) ==
    /\ proc[p].victim # None
    /\ Step(p, [proc[p] EXCEPT !.victim = None], entries \ {proc[p].victim})

CloseCleaned(p) ==
    /\ proc[p].state = "cleaning"
    /\ proc[p].victim = None
    /\ proc[p].must = {}
    /\ Step(p, [proc[p] EXCEPT !.state = "cleaned"], entries)

\* count_guard_entries: 0 without the directory.
OpenToCount(p) ==
    /\ proc[p].state = "cleaned"
    /\ \/ Step(p, [proc[p] EXCEPT !.state = "counting", !.must = entries,
                                  !.before = {q \in Pid : Guarded(q)}], entries)
       \/ Step(p, [proc[p] EXCEPT !.state = "creating", !.blind = TRUE], entries)

Count(p, q) ==
    /\ proc[p].state = "counting"
    /\ q \in proc[p].must \cup proc[p].may
    /\ Step(p, [proc[p] EXCEPT !.must = @ \ {q}, !.may = @ \ {q}, !.counted = @ \cup {q}], entries)

\* The refusal, with the number of names as "currently active".
CloseCounted(p) ==
    /\ proc[p].state = "counting"
    /\ proc[p].must = {}
    /\ Step(p, [proc[p] EXCEPT !.state = IF Cardinality(proc[p].counted) >= proc[p].limit
                                         THEN "refused" ELSE "creating"], entries)

\* open with O_EXCL; when it fails the process works without a file.
Create(p) ==
    /\ proc[p].state = "creating"
    /\ \/ /\ p \notin entries
          /\ Step(p, [Nobody EXCEPT !.state = "working", !.owner = TRUE, !.marked = proc[p].marked], entries \cup {p})
       \/ Step(p, [Nobody EXCEPT !.state = "working"], entries)

\* fisics_proc_guard_cleanup, on the way out and in the handler of the
\* watchdog.
Leave(p) ==
    /\ proc[p].state = "working"
    /\ Step(p, [Nobody EXCEPT !.state = "leaving"],
            IF proc[p].owner THEN entries \ {p} ELSE entries)

End(p) == proc[p].state \in {"leaving", "refused"} /\ Step(p, Nobody, entries)

\* A signal, or the handler of fatal errors of LLVM: the file stays.
Crash(p) == proc[p].state \notin {"none", "other"} /\ Step(p, Nobody, entries)

\* A process of another program.
OtherStarts(p) == ~Alive(p) /\ Step(p, [Nobody EXCEPT !.state = "other"], entries)
OtherEnds(p) == proc[p].state = "other" /\ Step(p, Nobody, entries)

Next ==
    \E p \in Pid :
       \/ Start(p) \/ OpenToClean(p) \/ (\E q \in Pid : Examine(p, q)) \/ Unlink(p)
       \/ CloseCleaned(p) \/ OpenToCount(p) \/ (\E q \in Pid : Count(p, q)) \/ CloseCounted(p)
       \/ Create(p) \/ Leave(p) \/ End(p) \/ Crash(p) \/ OtherStarts(p) \/ OtherEnds(p)

Spec == Init /\ [][Next]_vars

-----------------------------------------------------------------------------
\* As long as a process works behind its file, the file is there: the others
\* clean up only what no process stands behind (cleanup_stale_guard_entries).
LiveEntryKept == \A p \in Pid : Guarded(p) => p \in entries

\* A refusal is never for the files of dead processes alone: as many numbers
\* as the limit had a file and a process while it cleaned up and counted
\* ("currently active", fisics_proc_guard_enter).  A number counts even if
\* its process is not the one that left the file.
RefusalJustified ==
    \A p \in Pid : proc[p].state = "refused" /\ ~proc[p].blind =>
                       Cardinality(proc[p].seen) >= proc[p].limit

\* What the limit means without a lock: of the processes that worked behind
\* a file when an attempt began to count, fewer than the limit still work
\* when it is let through.
AdmittedBelowLimit ==
    \A p \in Pid : proc[p].state = "creating" /\ ~proc[p].blind =>
                       Cardinality(proc[p].before) < proc[p].limit
=============================================================================
