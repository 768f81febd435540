-------------------------- MODULE JobTrackerProofs --------------------------
(***************************************************************************)
(* Proofs about JobTracker, for any jobs, servers, limit and bounds.       *)
(*                                                                         *)
(* The properties are not inductive by themselves.  What ties them         *)
(* together: a copy that waits to be saved is what memory says, so the row *)
(* equals the memory's status whenever no save is pending (RowFollows); a  *)
(* job that was trimmed has ended; and nobody is past its end while it     *)
(* says running, unless a restart could not list it (EndedJobs).           *)
(***************************************************************************)
EXTENDS JobTracker, FiniteSetTheorems, TLAPS

Saving == {"begin", "msgsave", "line", "close", "last", "failed"}

\* A job that was not begun has left no trace.
NewUntouched ==
  \A j \in Jobs : pc[j] = "new"
    => j \notin Tracked /\ row[j] = "none" /\ status[j] = "none"
CopyFresh ==
  \A j \in Jobs : /\ pc[j] \in Saving => copy[j] = status[j]
                  /\ pc[j] \in {"last", "failed"} => status[j] \in Ended
RowFollows ==
  faults = 0 => \A j \in Jobs : pc[j] \notin Saving => row[j] = status[j]
EndedJobs ==
  faults = 0 /\ ~missed =>
    \A j \in Jobs : pc[j] = "end" => status[j] # "running"

IInv == /\ TypeOK /\ RunningIsWorked /\ RunningIsTracked /\ OneJobPerServer
        /\ NewUntouched /\ CopyFresh /\ RowFollows /\ EndedJobs

(***************************************************************************)
(* A step of one job's goroutine: the list stays, the other jobs stay.     *)
(***************************************************************************)
Others(j) ==
  /\ UNCHANGED <<list, life>>
  /\ faults' \in Nat /\ (faults' = 0 => faults = 0)
  /\ {status', row', copy'} \subseteq [Jobs -> Statuses] /\ pc' \in [Jobs -> PCs]
  /\ \A x \in Jobs \ {j} : /\ status'[x] = status[x] /\ row'[x] = row[x]
                           /\ copy'[x] = copy[x] /\ pc'[x] = pc[x]
Own(j) ==
  /\ pc'[j] # "new"
  /\ status'[j] = "running" => status[j] = "running"
  /\ j \in Tracked /\ status'[j] = "running" => pc'[j] \in Live
  /\ pc'[j] \in Live /\ status'[j] = "running" => j \in Tracked
  /\ pc'[j] \in Saving => copy'[j] = status'[j]
  /\ pc'[j] \in {"last", "failed"} => status'[j] \in Ended
  /\ faults' = 0 /\ pc'[j] \notin Saving => row'[j] = status'[j]
  /\ faults' = 0 /\ ~missed /\ pc'[j] = "end" => status'[j] # "running"

\* A step of a goroutine keeps the invariant if it keeps its own job's part.
LEMMA OwnStep ==
  ASSUME IInv, NEW j \in Jobs, Others(j), Own(j)
  PROVE  IInv'
<1>1. Tracked' = Tracked /\ Tracked \subseteq Jobs
  BY DEF Others, Tracked, IInv, TypeOK
<1>2. TypeOK'
  BY DEF Others, life, IInv, TypeOK
<1>3. RunningIsWorked'
  BY <1>1 DEF IInv, RunningIsWorked, Running, Others, Own
<1>4. RunningIsTracked'
  BY <1>1 DEF IInv, RunningIsTracked, Others, Own
<1>5. \A x \in Jobs : Running(x)' => Running(x)
  BY <1>1 DEF Running, Others, Own
<1>6. OneJobPerServer'
  BY <1>5 DEF IInv, OneJobPerServer, Others, life
<1>7. NewUntouched'
  BY <1>1 DEF IInv, NewUntouched, Others, Own
<1>8. CopyFresh'
  BY DEF IInv, CopyFresh, Others, Own
<1>9. RowFollows'
  BY DEF IInv, RowFollows, Others, Own
<1>10. EndedJobs'
  BY DEF IInv, EndedJobs, Others, Own, life
<1> QED BY <1>2, <1>3, <1>4, <1>6, <1>7, <1>8, <1>9, <1>10 DEF IInv

LEMMA WorkerStep ==
  ASSUME IInv, NEW j \in Jobs, Worker(j)
  PROVE  IInv'
<1> USE DEF PCs, Live, Saving, Statuses, Ended
<1>t. /\ status \in [Jobs -> Statuses] /\ row \in [Jobs -> Statuses]
      /\ copy \in [Jobs -> Statuses] /\ pc \in [Jobs -> PCs]
      /\ faults \in Nat
  BY DEF IInv, TypeOK
<1>j. /\ j \in Tracked /\ status[j] = "running" => pc[j] \in Live
      /\ pc[j] \in Live /\ status[j] = "running" => j \in Tracked
      /\ pc[j] \in Saving => copy[j] = status[j]
      /\ pc[j] \in {"last", "failed"} => status[j] \in Ended
      /\ faults = 0 /\ pc[j] \notin Saving => row[j] = status[j]
      /\ faults = 0 /\ ~missed /\ pc[j] = "end" => status[j] # "running"
  BY DEF IInv, RunningIsWorked, Running, RunningIsTracked, CopyFresh, RowFollows, EndedJobs
<1>1. CASE Save(j)
  <2>1. faults' \in Nat /\ (faults' = 0 => faults = 0 /\ row'[j] = copy[j])
    BY <1>1, <1>t DEF Save, Works, Fails
  <2>2. /\ pc' = [pc EXCEPT ![j] = After(pc[j], j)]
        /\ pc[j] \in Saving /\ UNCHANGED <<list, status, copy, life>>
    BY <1>1 DEF Save, Goto
  <2>3. After(pc[j], j) \in {"work", "message", "return", "end"}
        /\ (pc[j] \notin {"last", "failed"} => After(pc[j], j) # "end")
    BY <2>2 DEF After
  <2>4. row' \in [Jobs -> Statuses] /\ \A x \in Jobs \ {j} : row'[x] = row[x]
    BY <1>1, <1>t DEF Save
  <2>5. Others(j)
    BY <1>t, <2>1, <2>2, <2>3, <2>4 DEF Others
  <2>6. Own(j)
    BY <1>t, <1>j, <2>1, <2>2, <2>3 DEF Own
  <2> QED BY <2>5, <2>6, OwnStep
<1>2. CASE SetMessage(j)
  <2>1. Others(j)
    BY <1>2, <1>t DEF SetMessage, Goto, Others
  <2>2. Own(j)
    BY <1>2, <1>t, <1>j DEF SetMessage, Goto, Own
  <2> QED BY <2>1, <2>2, OwnStep
<1>3. CASE ApplyLine(j)
  <2>1. Others(j)
    BY <1>3, <1>t DEF ApplyLine, Set, Goto, Others
  <2>2. Own(j)
    BY <1>3, <1>t, <1>j DEF ApplyLine, Set, Goto, Own
  <2> QED BY <2>1, <2>2, OwnStep
<1>4. CASE Close(j)
  <2>1. Others(j)
    BY <1>4, <1>t DEF Close, Goto, Others
  <2>2. Own(j)
    BY <1>4, <1>t, <1>j DEF Close, Goto, Own
  <2> QED BY <2>1, <2>2, OwnStep
<1>5. CASE LoadReturns(j)
  <2>1. Others(j)
    BY <1>5, <1>t DEF LoadReturns, Goto, Others
  <2>2. Own(j)
    BY <1>5, <1>t, <1>j DEF LoadReturns, Goto, Own
  <2> QED BY <2>1, <2>2, OwnStep
<1>6. CASE DoneOrFail(j)
  <2>1. Others(j)
    BY <1>6, <1>t DEF DoneOrFail, Conclude, Set, Goto, Others
  <2>2. Own(j)
    BY <1>6, <1>t, <1>j DEF DoneOrFail, Conclude, Set, Goto, Own
  <2> QED BY <2>1, <2>2, OwnStep
<1>7. CASE Resume(j)
  <2>1. Others(j)
    BY <1>7, <1>t DEF Resume, ResumeOne, Set, Goto, Others
  <2>2. Own(j)
    BY <1>7, <1>t, <1>j DEF Resume, ResumeOne, Set, Goto, Own
  <2> QED BY <2>1, <2>2, OwnStep
<1> QED BY <1>1, <1>2, <1>3, <1>4, <1>5, <1>6, <1>7 DEF Worker

(***************************************************************************)
(* Begin: the new job goes to the front, and the trim keeps what runs.     *)
(***************************************************************************)
LEMMA BeginStep ==
  ASSUME IInv, NEW j \in Jobs, Begin(j)
  PROVE  IInv'
<1> DEFINE D == {n \in DOMAIN list : Stays(n)}
<1>t. /\ list \in Seq(Jobs) /\ Len(list) \in Nat /\ DOMAIN list = 1 .. Len(list)
      /\ status \in [Jobs -> Statuses] /\ row \in [Jobs -> Statuses]
      /\ copy \in [Jobs -> Statuses] /\ pc \in [Jobs -> PCs]
  BY DEF IInv, TypeOK
<1>n. /\ pc[j] = "new" /\ j \notin Tracked /\ row[j] = "none"
  BY DEF Begin, IInv, NewUntouched
<1>s. /\ status' = [status EXCEPT ![j] = "running"]
      /\ copy' = [copy EXCEPT ![j] = "running"]
      /\ pc' = [pc EXCEPT ![j] = "begin"]
      /\ row' = row /\ missed' = missed /\ crashes' = crashes /\ faults' = faults
  BY DEF Begin, Set, Goto, life
<1>f. PICK f \in Order(D) : list' = <<j>> \o [a \in DOMAIN f |-> list[f[a]]]
  BY DEF Begin
<1> DEFINE k == Cardinality(D)
           g == [a \in DOMAIN f |-> list[f[a]]]
<1>1. IsFiniteSet(D) /\ k \in Nat
  <2>1. IsFiniteSet(1 .. Len(list))
    BY <1>t, FS_Interval
  <2>2. D \subseteq 1 .. Len(list)
    BY <1>t
  <2> QED BY <2>1, <2>2, FS_Subset, FS_CardinalityType
<1>2. /\ f \in [1 .. k -> D]
      /\ \A a, b \in 1 .. k : a < b => f[a] < f[b]
      /\ \A d \in D : \E a \in 1 .. k : f[a] = d
  BY <1>f DEF Order
<1>3. g \in Seq(Jobs) /\ Len(g) = k
  <2>1. g \in [1 .. k -> Jobs]
    BY <1>t, <1>2
  <2>2. k \in Nat
    BY <1>1
  <2> HIDE DEF g, k
  <2> QED BY <2>1, <2>2
<1>4. /\ list' \in Seq(Jobs) /\ Len(list') = k + 1 /\ DOMAIN list' = 1 .. k + 1
      /\ list'[1] = j
      /\ \A n \in 1 .. k + 1 : n # 1 => n - 1 \in 1 .. k /\ list'[n] = list[f[n - 1]]
  <2> HIDE DEF k
  <2>1. list' = <<j>> \o g
    BY <1>f
  <2>2. <<j>> \in Seq(Jobs) /\ Len(<<j>>) = 1 /\ <<j>>[1] = j
    OBVIOUS
  <2>3. list' \in Seq(Jobs) /\ Len(list') = k + 1
    BY <1>1, <1>3, <2>1, <2>2
  <2>4. \A n \in 1 .. k + 1 : list'[n] = IF n <= 1 THEN <<j>>[n] ELSE g[n - 1]
    BY <1>1, <1>3, <2>1, <2>2
  <2>5. \A n \in 1 .. k : g[n] = list[f[n]]
    BY <1>2
  <2> HIDE DEF g
  <2>6. list'[1] = j
    BY <1>1, <2>2, <2>4
  <2>7. ASSUME NEW n \in 1 .. k + 1, n # 1
        PROVE  n - 1 \in 1 .. k /\ list'[n] = list[f[n - 1]]
    <3>1. n - 1 \in 1 .. k /\ ~(n <= 1)
      BY <1>1, <2>7
    <3> QED BY <2>4, <2>5, <3>1
  <2> QED BY <1>1, <2>3, <2>6, <2>7
<1> HIDE DEF k, g
\* Tracked' is j, and what was tracked and stays.
<1>5. \A x \in Tracked' : x = j \/ x \in Tracked
  <2>1. ASSUME NEW n \in 1 .. k + 1 PROVE list'[n] = j \/ list'[n] \in Tracked
    <3>1. CASE n = 1
      BY <1>4, <3>1
    <3>2. CASE n # 1
      <4>1. f[n - 1] \in DOMAIN list /\ list'[n] = list[f[n - 1]]
        BY <1>2, <1>4, <3>2
      <4> QED BY <4>1 DEF Tracked
    <3> QED BY <3>1, <3>2
  <2> QED BY <1>4, <2>1 DEF Tracked
<1>6. j \in Tracked'
  <2>1. 1 \in DOMAIN list'
    BY <1>1, <1>4
  <2> QED BY <1>4, <2>1 DEF Tracked
<1>7. \A x \in Tracked : status[x] = "running" => x \in Tracked'
  <2> SUFFICES ASSUME NEW x \in Tracked, status[x] = "running" PROVE x \in Tracked'
    OBVIOUS
  <2>1. PICK d \in DOMAIN list : list[d] = x
    BY DEF Tracked
  <2>2. d \in D
    BY <2>1 DEF Stays
  <2>3. PICK a \in 1 .. k : f[a] = d
    BY <1>2, <2>2
  <2>4. a + 1 \in 1 .. k + 1 /\ a + 1 # 1 /\ (a + 1) - 1 = a
    BY <1>1, <2>3
  <2>5. list'[a + 1] = x
    BY <1>4, <2>1, <2>3, <2>4
  <2> QED BY <1>4, <2>4, <2>5 DEF Tracked
<1>8. \A a, b \in DOMAIN list' : a # b => list'[a] # list'[b]
  <2>1. \A a, b \in 1 .. k : a # b => f[a] # f[b] /\ list[f[a]] # list[f[b]]
    <3>1. ASSUME NEW a \in 1 .. k, NEW b \in 1 .. k, a < b
          PROVE  f[a] # f[b] /\ list[f[a]] # list[f[b]]
      <4>1. f[a] < f[b] /\ f[a] \in DOMAIN list /\ f[b] \in DOMAIN list
        BY <1>2, <3>1
      <4>2. f[a] # f[b]
        BY <1>t, <4>1
      <4> QED BY <4>1, <4>2 DEF IInv, TypeOK
    <3> QED BY <1>1, <3>1
  <2>2. \A n \in 1 .. k + 1 : n # 1 => list'[n] # j
    <3>1. ASSUME NEW n \in 1 .. k + 1, n # 1 PROVE list'[n] # j
      <4>1. f[n - 1] \in DOMAIN list /\ list'[n] = list[f[n - 1]]
        BY <1>2, <1>4, <3>1
      <4>2. list'[n] \in Tracked
        BY <4>1 DEF Tracked
      <4> QED BY <1>n, <4>2
    <3> QED BY <3>1
  <2> SUFFICES ASSUME NEW a \in 1 .. k + 1, NEW b \in 1 .. k + 1, a # b
               PROVE  list'[a] # list'[b]
    BY <1>4
  <2>3. CASE a = 1
    BY <1>4, <2>2, <2>3
  <2>4. CASE b = 1
    BY <1>4, <2>2, <2>4
  <2>5. CASE a # 1 /\ b # 1
    <3>1. a - 1 \in 1 .. k /\ b - 1 \in 1 .. k /\ a - 1 # b - 1
      BY <1>1, <2>5
    <3> QED BY <1>4, <2>1, <2>5, <3>1
  <2> QED BY <2>3, <2>4, <2>5
<1>9. TypeOK'
  BY <1>t, <1>s, <1>4, <1>8 DEF IInv, TypeOK, Statuses, PCs
<1>10. RunningIsWorked'
  BY <1>t, <1>s, <1>5 DEF IInv, RunningIsWorked, Running, Live, PCs
<1>11. RunningIsTracked'
  BY <1>t, <1>s, <1>6, <1>7 DEF IInv, RunningIsTracked
<1>12. OneJobPerServer'
  <2>1. \A x \in Jobs : Running(x)' => x = j \/ (Running(x) /\ Backend[x] # Backend[j])
    BY <1>t, <1>s, <1>5 DEF Running, Begin, Busy
  <2> QED BY <1>s, <2>1 DEF IInv, OneJobPerServer
<1>13. NewUntouched'
  BY <1>t, <1>s, <1>5 DEF IInv, NewUntouched
<1>14. CopyFresh'
  BY <1>t, <1>s DEF IInv, CopyFresh, Saving
<1>15. RowFollows'
  BY <1>t, <1>s DEF IInv, RowFollows, Saving
<1>16. EndedJobs'
  BY <1>t, <1>s DEF IInv, EndedJobs
<1> QED BY <1>9, <1>10, <1>11, <1>12, <1>13, <1>14, <1>15, <1>16 DEF IInv

(***************************************************************************)
(* Restart.  A listing that leaves out a running row is full of running    *)
(* rows, so there are more of them than Keep.                              *)
(***************************************************************************)
LEMMA ListingIsFull ==
  ASSUME IInv, NEW l \in Listings, NEW x \in Jobs, row[x] = "running",
         \A a \in DOMAIN l : l[a] # x
  PROVE  Cardinality({y \in Jobs : row[y] = "running"}) > Keep
<1> DEFINE R == {y \in Jobs : row[y] = "running"}
<1>1. PICK n \in 0 .. Keep : l \in [1 .. n -> Stored]
  BY DEF Listings
<1>2. x \in Stored
  BY DEF Stored
<1>k. Keep \in Nat
  BY BoundsAssumption
<1>3. DOMAIN l = 1 .. n /\ Len(l) = n
  BY <1>1, <1>k
<1>4. n = Keep /\ \A a \in 1 .. n : row[l[a]] = "running"
  BY <1>2, <1>3 DEF Listings, IsListing
<1>5. l \in Injection(1 .. Keep, R \ {x})
  <2>1. l \in [1 .. Keep -> R \ {x}]
    BY <1>1, <1>3, <1>4 DEF Stored
  <2>2. \A a, b \in 1 .. Keep : l[a] = l[b] => a = b
    BY <1>3, <1>4 DEF Listings, IsListing
  <2> QED BY <2>1, <2>2 DEF Injection, IsInjective
<1>6. IsFiniteSet(R) /\ IsFiniteSet(R \ {x})
  <2>1. R \subseteq Jobs /\ R \ {x} \subseteq Jobs
    OBVIOUS
  <2> QED BY <2>1, JobsAssumption, FS_Subset
<1>7. Cardinality(1 .. Keep) = Keep
  BY <1>k, FS_Interval
<1>8. Cardinality(1 .. Keep) <= Cardinality(R \ {x})
  BY <1>5, <1>6, FS_Injection
<1>9. Cardinality(R \ {x}) = Cardinality(R) - 1
  <2>1. x \in R
    OBVIOUS
  <2> QED BY <1>6, <2>1, FS_RemoveElement
<1>10. Cardinality(R) \in Nat
  BY <1>6, FS_CardinalityType
<1> QED BY <1>k, <1>7, <1>8, <1>9, <1>10

LEMMA RestartStep ==
  ASSUME IInv, Restart
  PROVE  IInv'
<1> USE DEF PCs, Live, Saving
<1>t. /\ status \in [Jobs -> Statuses] /\ row \in [Jobs -> Statuses]
      /\ copy \in [Jobs -> Statuses] /\ pc \in [Jobs -> PCs] /\ crashes \in Nat
  BY DEF IInv, TypeOK
<1>s. /\ status' = row /\ row' = row /\ copy' = copy /\ crashes' = crashes + 1
      /\ missed' = (missed \/ Cardinality({x \in Jobs : row[x] = "running"}) > Keep)
      /\ pc' = [x \in Jobs |-> IF pc[x] = "new" THEN "new"
                               ELSE IF x \in Tracked' /\ row[x] = "running" THEN "resume"
                               ELSE "end"]
  BY DEF Restart
<1>l. \/ list' \in Listings /\ faults' = 0
      \/ list' = << >> /\ faults' = 1
  BY DEF Restart
<1>1. /\ list' \in Seq(Jobs)
      /\ \A a, b \in DOMAIN list' : a # b => list'[a] # list'[b]
      /\ \A x \in Tracked' : x \in Jobs /\ row[x] # "none"
  <2>1. CASE list' \in Listings
    <3>1. PICK n \in 0 .. Keep : list' \in [1 .. n -> Stored]
      BY <2>1 DEF Listings
    <3>2. n \in Nat
      BY BoundsAssumption, <3>1
    <3>3. list' \in Seq(Stored) /\ DOMAIN list' = 1 .. n
      BY <3>1, <3>2
    <3>4. list' \in Seq(Jobs)
      <4>1. list' \in [1 .. n -> Jobs]
        BY <3>1 DEF Stored
      <4> QED BY <3>2, <4>1
    <3>5. \A a, b \in DOMAIN list' : a # b => list'[a] # list'[b]
      BY <2>1 DEF Listings, IsListing
    <3>6. \A x \in Tracked' : x \in Stored
      BY <3>1, <3>3 DEF Tracked
    <3> QED BY <3>4, <3>5, <3>6 DEF Stored
  <2>2. CASE list' = << >>
    BY <2>2 DEF Tracked
  <2> QED BY <1>l, <2>1, <2>2
<1>2. TypeOK'
  <2>1. pc' \in [Jobs -> PCs]
    BY <1>s
  <2>2. missed' \in BOOLEAN
    BY <1>s DEF IInv, TypeOK
  <2>3. crashes' \in Nat /\ faults' \in Nat
    BY <1>t, <1>s, <1>l
  <2> QED BY <1>t, <1>s, <1>1, <2>1, <2>2, <2>3 DEF TypeOK
<1>3. \A x \in Jobs : pc[x] = "new" => row[x] = "none"
  BY DEF IInv, NewUntouched
<1>4. RunningIsWorked'
  BY <1>s, <1>3 DEF RunningIsWorked, Running
<1>5. RunningIsTracked'
  BY <1>s, <1>3 DEF RunningIsTracked
<1>6. OneJobPerServer'
  BY <1>t, <1>s DEF OneJobPerServer
<1>7. NewUntouched'
  BY <1>s, <1>1, <1>3 DEF NewUntouched
<1>8. CopyFresh'
  BY <1>s DEF CopyFresh
<1>9. RowFollows'
  BY <1>s DEF RowFollows
<1>10. EndedJobs'
  <2> SUFFICES ASSUME faults' = 0, ~missed', NEW x \in Jobs, pc'[x] = "end",
                      row[x] = "running"
               PROVE  FALSE
    BY <1>s DEF EndedJobs
  <2>1. list' \in Listings
    BY <1>l
  <2>2. x \notin Tracked'
    BY <1>s, <1>3
  <2>3. \A a \in DOMAIN list' : list'[a] # x
    BY <2>2 DEF Tracked
  <2>4. Cardinality({y \in Jobs : row[y] = "running"}) > Keep
    BY <2>1, <2>3, ListingIsFull
  <2> QED BY <1>s, <2>4
<1> QED BY <1>2, <1>4, <1>5, <1>6, <1>7, <1>8, <1>9, <1>10 DEF IInv

LEMMA InitIInv == Init => IInv
<1> SUFFICES ASSUME Init PROVE IInv
  OBVIOUS
<1>1. Tracked = {}
  BY DEF Init, Tracked
<1>2. TypeOK
  <2>1. /\ list \in Seq(Jobs)
        /\ \A a, b \in DOMAIN list : a # b => list[a] # list[b]
    BY DEF Init
  <2>2. /\ status \in [Jobs -> Statuses] /\ row \in [Jobs -> Statuses]
        /\ copy \in [Jobs -> Statuses] /\ pc \in [Jobs -> PCs]
    BY DEF Init, Statuses, PCs
  <2>3. missed \in BOOLEAN
    BY DEF Init
  <2>4. crashes \in Nat /\ faults \in Nat
    BY DEF Init
  <2> QED BY <2>1, <2>2, <2>3, <2>4 DEF TypeOK
<1> QED BY <1>1, <1>2 DEF Init, IInv, RunningIsWorked, Running, RunningIsTracked,
        OneJobPerServer, NewUntouched, CopyFresh, RowFollows, EndedJobs, Saving, Live, PCs

LEMMA NextIInv == IInv /\ [Next]_vars => IInv'
<1> SUFFICES ASSUME IInv, [Next]_vars PROVE IInv'
  OBVIOUS
<1>1. CASE Restart
  BY <1>1, RestartStep
<1>2. ASSUME NEW j \in Jobs, Begin(j) \/ Worker(j) PROVE IInv'
  BY <1>2, BeginStep, WorkerStep
<1>3. CASE UNCHANGED vars
  BY <1>3 DEF vars, life, IInv, TypeOK, RunningIsWorked, Running, RunningIsTracked,
     OneJobPerServer, NewUntouched, CopyFresh, RowFollows, EndedJobs, Tracked
<1> QED BY <1>1, <1>2, <1>3 DEF Next

\* The inductive invariant holds in every reachable state.
THEOREM JobInvariant == Spec => []IInv
BY InitIInv, NextIInv, PTL DEF Spec

\* Type correctness of the tracker, and no job is listed twice.
THEOREM JobsTypeCorrect == Spec => []TypeOK
<1>1. IInv => TypeOK
  BY DEF IInv
<1> QED BY <1>1, JobInvariant, PTL

\* A job that says running is worked on, so its server is not blocked for ever.
THEOREM RunningJobsAreWorked == Spec => []RunningIsWorked
<1>1. IInv => RunningIsWorked
  BY DEF IInv
<1> QED BY <1>1, JobInvariant, PTL

\* Begin's trim never loses a running job.
THEOREM RunningJobsAreTracked == Spec => []RunningIsTracked
<1>1. IInv => RunningIsTracked
  BY DEF IInv
<1> QED BY <1>1, JobInvariant, PTL

\* Until the first restart a server is reserved by one job at a time.
THEOREM ServerReservedOnce == Spec => []OneJobPerServer
<1>1. IInv => OneJobPerServer
  BY DEF IInv
<1> QED BY <1>1, JobInvariant, PTL

\* A row that says running is a job that is worked on.
THEOREM RunningRowsAreWorked == Spec => []RunningRowIsWorked
<1>1. IInv => RunningRowIsWorked
  BY DEF IInv, TypeOK, RunningRowIsWorked, RowFollows, EndedJobs, NewUntouched,
     Saving, Live, PCs
<1> QED BY <1>1, JobInvariant, PTL

\* The table tells what memory says of a job nobody works on.
THEOREM TableTellsTheEnd == Spec => []TableAgrees
<1>1. ASSUME IInv PROVE TableAgrees
  <2>1. Tracked \subseteq Jobs
    BY <1>1 DEF IInv, TypeOK, Tracked
  <2> QED BY <1>1, <2>1 DEF IInv, TableAgrees, RowFollows, Saving
<1> QED BY <1>1, JobInvariant, PTL
=============================================================================
