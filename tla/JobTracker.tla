----------------------------- MODULE JobTracker -----------------------------
(***************************************************************************)
(* Long operations on model servers: internal/jobs/jobs.go, the goroutines *)
(* that drive it (admin/ollama.go, mcp/tools.go, app.resumePulls) and the  *)
(* table ollama_jobs.                                                      *)
(*                                                                         *)
(* Begin admits one job per server and starts a worker; a pull streams     *)
(* progress lines into applyLine, a load only returns.  Every change is    *)
(* made under Tracker.mu; a copy is written to the table after the unlock. *)
(* After a restart the table is read back and running pulls start again.   *)
(*                                                                         *)
(* Progress (percent, message, log) is abstracted away: a line either      *)
(* carries an error or not.  Time is not modelled, so a save that is       *)
(* throttled to one in 400 ms may or may not take place.                   *)
(***************************************************************************)
EXTENDS Integers, Sequences, FiniteSets

CONSTANTS
  Jobs,        \* jobs that are ever begun
  Pulls,       \* those of kind pull; the others are loads
  Backends,    \* model servers
  Backend,     \* job |-> its server
  Keep,        \* 12: jobs kept in memory, and the LIMIT of ListJobs
  MaxCrashes,  \* bound on restarts
  MaxFaults    \* bound on failing database statements per process life

ASSUME JobsAssumption  == IsFiniteSet(Jobs) /\ Pulls \subseteq Jobs
ASSUME ServerAssumption == Backend \in [Jobs -> Backends]
ASSUME BoundsAssumption ==
  Keep \in Nat \ {0} /\ MaxCrashes \in Nat /\ MaxFaults \in Nat

VARIABLES
  list,     \* Tracker.jobs, the newest first
  status,   \* Job.Status in memory
  row,      \* table ollama_jobs: the status stored, or none
  copy,     \* the status in the copy a goroutine is about to save
  pc,       \* where the job's goroutine is
  missed,   \* history: a restart met more running rows than ListJobs returns
  crashes, faults

life == <<missed, crashes>>
vars == <<list, status, row, copy, pc, life, faults>>

Statuses == {"none", "running", "error", "done"}
Ended    == {"error", "done"}
PCs == {"new", "begin", "message", "msgsave", "work", "line", "close",
        "return", "last", "resume", "failed", "end"}
\* The job's goroutine has still to call Done or Fail.
Live == PCs \ {"new", "last", "failed", "end"}
-----------------------------------------------------------------------------
Tracked    == {list[n] : n \in DOMAIN list}           \* what find finds
Running(x) == x \in Tracked /\ status[x] = "running"
Booting    == \E x \in Jobs : pc[x] \in {"resume", "failed"}

Goto(j, l) == pc' = [pc EXCEPT ![j] = l]
Set(j, s)  == /\ status' = [status EXCEPT ![j] = s]
              /\ copy' = [copy EXCEPT ![j] = s]
Works      == UNCHANGED faults
Fails      == faults < MaxFaults /\ faults' = faults + 1

\* The increasing enumeration of a set of positions.
Order(D) == {f \in [1 .. Cardinality(D) -> D] :
               /\ \A a, b \in DOMAIN f : a < b => f[a] < f[b]
               /\ \A d \in D : \E a \in DOMAIN f : f[a] = d}

(***************************************************************************)
(* Faulty variants, one plausible mistake each; not part of the            *)
(* specification.                                                          *)
(***************************************************************************)
StaysNewest(n)     == n < Keep
BusyNever(j)       == FALSE
ResumeForgets(j)   == Goto(j, "end") /\ UNCHANGED <<status, copy>>
ConcludeUnsaved(j) == (Set(j, "done") \/ Set(j, "error")) /\ Goto(j, "end")
ListingUnsorted(l) ==
  /\ \A a, b \in DOMAIN l : a # b => l[a] # l[b]
  /\ Len(l) = Keep \/ \A x \in Jobs : row[x] = "none" \/ \E a \in DOMAIN l : l[a] = x

\* Begin's loop over the jobs, and its trim: the newest Keep and all running.
Busy(j)  == \E x \in Tracked : status[x] = "running" /\ Backend[x] = Backend[j]
Stays(n) == n < Keep \/ status[list[n]] = "running"
-----------------------------------------------------------------------------
Init ==
  /\ list = << >>
  /\ status = [j \in Jobs |-> "none"]
  /\ row = [j \in Jobs |-> "none"]
  /\ copy = [j \in Jobs |-> "none"]
  /\ pc = [j \in Jobs |-> "new"]
  /\ missed = FALSE /\ crashes = 0 /\ faults = 0

\* Begin.  A busy server refuses the job, which changes nothing; the jobs a
\* new process has read are resumed before it serves requests.
Begin(j) ==
  /\ pc[j] = "new" /\ ~Booting /\ ~Busy(j)
  /\ \E f \in Order({n \in DOMAIN list : Stays(n)}) :
       list' = <<j>> \o [a \in DOMAIN f |-> list[f[a]]]
  /\ Set(j, "running")
  /\ Goto(j, "begin")
  /\ UNCHANGED <<row, life, faults>>

\* Where a goroutine goes on after Store.UpsertJob, whose error save ignores.
After(p, j) == CASE p = "begin"   -> IF j \in Pulls THEN "work" ELSE "message"
                 [] p = "msgsave" -> "work"
                 [] p = "line"    -> "work"
                 [] p = "close"   -> "return"
                 [] OTHER         -> "end"
Save(j) ==
  /\ pc[j] \in {"begin", "msgsave", "line", "close", "last", "failed"}
  /\ \/ Works /\ row' = [row EXCEPT ![j] = copy[j]]
     \/ Fails /\ UNCHANGED row
  /\ Goto(j, After(pc[j], j))
  /\ UNCHANGED <<list, status, copy, life>>

\* SetMessage, before a load; the save may be throttled.
SetMessage(j) ==
  /\ pc[j] = "message"
  /\ \/ /\ j \in Tracked
        /\ copy' = [copy EXCEPT ![j] = status[j]]
        /\ Goto(j, "msgsave")
     \/ Goto(j, "work") /\ UNCHANGED copy
  /\ UNCHANGED <<list, status, row, life, faults>>

\* applyLine: a line of the stream that is saved.  An error line is always
\* saved; one that is throttled, or finds no job, changes nothing here.
ApplyLine(j) ==
  /\ pc[j] = "work" /\ j \in Pulls /\ j \in Tracked
  /\ Set(j, "error") \/ Set(j, status[j])
  /\ Goto(j, "line")
  /\ UNCHANGED <<list, row, life, faults>>

\* Pull has returned: Writer.Close saves the job once more.
Close(j) ==
  /\ pc[j] = "work" /\ j \in Pulls
  /\ \/ /\ j \in Tracked
        /\ copy' = [copy EXCEPT ![j] = status[j]]
        /\ Goto(j, "close")
     \/ /\ j \notin Tracked
        /\ Goto(j, "return") /\ UNCHANGED copy
  /\ UNCHANGED <<list, status, row, life, faults>>

\* Load has returned.
LoadReturns(j) ==
  /\ pc[j] = "work" /\ j \notin Pulls
  /\ Goto(j, "return")
  /\ UNCHANGED <<list, status, row, copy, life, faults>>

\* Done or Fail, by what Pull or Load returned.
Conclude(j) == (Set(j, "done") \/ Set(j, "error")) /\ Goto(j, "last")
DoneOrFail(j) ==
  /\ pc[j] = "return"
  /\ \/ j \in Tracked /\ Conclude(j)
     \/ j \notin Tracked /\ Goto(j, "end") /\ UNCHANGED <<status, copy>>
  /\ UNCHANGED <<list, row, life, faults>>

\* resumePulls, one job of List at a time: a load, or a pull whose server is
\* gone or disabled, fails; any other pull gets a new worker.
ResumeOne(j) ==
  \/ Set(j, "error") /\ Goto(j, "failed")
  \/ j \in Pulls /\ Goto(j, "work") /\ UNCHANGED <<status, copy>>
Resume(j) ==
  /\ pc[j] = "resume" /\ \A x \in Jobs : pc[x] # "failed"
  /\ ResumeOne(j)
  /\ UNCHANGED <<list, row, life, faults>>

\* Store.ListJobs: the running rows first, then the others, Keep in all.  Text
\* timestamps of one second do not sort by time, so any order within a rank.
Stored == {x \in Jobs : row[x] # "none"}
IsListing(l) ==
  /\ \A a, b \in DOMAIN l : a # b => l[a] # l[b]
  /\ \A a, b \in DOMAIN l : a < b /\ row[l[b]] = "running" => row[l[a]] = "running"
  /\ Len(l) = Keep \/ \A x \in Stored : \E a \in DOMAIN l : l[a] = x
  /\ \A x \in Stored : row[x] = "running" =>
       \/ \E a \in DOMAIN l : l[a] = x
       \/ \A a \in DOMAIN l : row[l[a]] = "running"
Listings == {l \in UNION {[1 .. k -> Stored] : k \in 0 .. Keep} : IsListing(l)}

\* The process dies and starts again: New, with the jobs resumePulls will see.
Restart ==
  /\ crashes < MaxCrashes
  /\ crashes' = crashes + 1
  /\ \/ list' \in Listings /\ faults' = 0
     \/ list' = << >> /\ MaxFaults > 0 /\ faults' = 1
  /\ missed' = (missed \/ Cardinality({x \in Jobs : row[x] = "running"}) > Keep)
  /\ status' = row
  /\ pc' = [x \in Jobs |-> IF pc[x] = "new" THEN "new"
                           ELSE IF x \in Tracked' /\ row[x] = "running" THEN "resume"
                           ELSE "end"]
  /\ UNCHANGED <<row, copy>>

Worker(j) == \/ Save(j) \/ SetMessage(j) \/ ApplyLine(j) \/ Close(j)
             \/ LoadReturns(j) \/ DoneOrFail(j) \/ Resume(j)
Next == Restart \/ \E j \in Jobs : Begin(j) \/ Worker(j)

Spec == Init /\ [][Next]_vars
-----------------------------------------------------------------------------
\* Every variable keeps its type, and no job is listed twice.
TypeOK ==
  /\ list \in Seq(Jobs)
  /\ \A a, b \in DOMAIN list : a # b => list[a] # list[b]
  /\ status \in [Jobs -> Statuses] /\ row \in [Jobs -> Statuses]
  /\ copy \in [Jobs -> Statuses] /\ pc \in [Jobs -> PCs]
  /\ missed \in BOOLEAN /\ crashes \in Nat /\ faults \in Nat

\* A job that says running is worked on: whatever happened to its saves and
\* however often the process died, its server is not busy for ever.
RunningIsWorked == \A j \in Jobs : Running(j) => pc[j] \in Live

\* A running job is never trimmed from the list, so its worker's Done and Fail
\* find it and its server stays reserved.
RunningIsTracked ==
  \A j \in Jobs : pc[j] \in Live /\ status[j] = "running" => j \in Tracked

\* A server is reserved by one job at a time.  A restart can break this: the
\* rows it reads may be older than what memory had decided.
OneJobPerServer ==
  crashes = 0 => \A x, y \in Jobs :
    Running(x) /\ Running(y) /\ Backend[x] = Backend[y] => x = y

\* Unless a statement failed in this life, or a restart met more running rows
\* than ListJobs returns, a row that says running is a job that is worked on:
\* after a restart every running pull resumes and every load is closed.
RunningRowIsWorked ==
  faults = 0 /\ ~missed =>
    \A j \in Jobs : row[j] = "running" => pc[j] \in Live \cup {"last", "failed"}

\* Unless a statement failed in this life, the table tells what memory says of
\* a job nobody works on: the saves after the unlock end in the right order.
TableAgrees ==
  faults = 0 => \A j \in Tracked : pc[j] = "end" => row[j] = status[j]
=============================================================================
