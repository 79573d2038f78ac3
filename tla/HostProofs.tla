----------------------------- MODULE HostProofs -----------------------------
(***************************************************************************)
(* The parts that share no state with the transfers, each for itself: the  *)
(* publication of received files, the life of the sender's server, the     *)
(* selection of regions, the sender's diagnostic log and the receiver's.   *)
(***************************************************************************)
EXTENDS FilePublication, ServerLifecycle, RegionSelect, SenderLog, AuditLog, TLAPS, FiniteSetTheorems, SequenceTheorems

-----------------------------------------------------------------------------
(* Publication.  What SavedIsThere says of the end of a save follows from   *)
(* where each writer is: a temporary file that is about to be published is  *)
(* whole (TempOK), and a published file stays until the user touches it     *)
(* (FilesOK).                                                               *)

Content == Writer \union {Part, None}
Place == {"idle", "probe", "create", "write", "publish", "published", "remove", "open", "fill",
          "done", "failed", "dead"}

PubTypeOK ==
  /\ file \in [Name -> Content] /\ temp \in [Writer -> Content]
  /\ pc \in [Writer -> Place] /\ path \in [Writer -> Name]
  /\ saved \in [Saver -> Name \union {None}] /\ touched \subseteq Name
  /\ pc[User] \notin {"probe", "published"}

\* A temporary file belongs to a writer at work, or to a dead one, and is whole
\* before it is published.
TempOK ==
  \A w \in Writer :
    /\ temp[w] # None => pc[w] \in {"write", "publish", "published", "remove", "dead"}
    /\ pc[w] = "write" => temp[w] = Part
    /\ pc[w] = "publish" => temp[w] = w

\* What a receiver has published is there, before and after it says so.
FilesOK ==
  /\ \A n \in Name \ touched : file[n] \in Saver \union {None}
  /\ \A s \in Saver :
       /\ saved[s] # None /\ saved[s] \notin touched => file[saved[s]] = s
       /\ pc[s] = "published" /\ path[s] \notin touched => file[path[s]] = s

PubInv == PubTypeOK /\ TempOK /\ FilesOK

(* The constants are apart.                                                *)
LEMMA Apart ==
  /\ User \in Writer /\ Saver \subseteq Writer /\ User \notin Saver /\ 1 \in Name /\ Names \in Name
  /\ None \notin Writer /\ Part \notin Writer /\ Part # None
BY PublicationAssumption DEF Writer, Name, Part

(* At the beginning there is neither a file nor anybody at work.           *)
LEMMA PubInitInv == PubInit => PubInv
BY Apart DEF PubInit, PubInv, PubTypeOK, TempOK, FilesOK, Content, Place, Name, Writer

(* What a saver does before it has a temporary file.                       *)
LEMMA SaverLooks ==
  ASSUME PubInv, NEW s \in Saver, BeginSave(s) \/ Probe(s)
  PROVE  PubInv'
<1> USE Apart DEF PubInv, To
<1>1. PubTypeOK'
  <2>1. CASE BeginSave(s)
    BY <2>1 DEF PubTypeOK, BeginSave, Place
  <2>2. CASE Probe(s)
    <3>1. path[s] # Names => path[s] + 1 \in Name
      BY PublicationAssumption DEF PubTypeOK, Name
    <3>2. path' \in [Writer -> Name]
      BY <2>2, <3>1 DEF PubTypeOK, Probe
    <3>3. pc' \in [Writer -> Place] /\ pc'[User] \notin {"probe", "published"}
      BY <2>2 DEF PubTypeOK, Probe, Place
    <3> QED
      BY <2>2, <3>2, <3>3 DEF PubTypeOK, Probe
  <2> QED
    BY <2>1, <2>2
<1>2. TempOK'
  BY DEF PubTypeOK, TempOK, BeginSave, Probe
<1>3. FilesOK'
  BY DEF PubTypeOK, FilesOK, BeginSave, Probe
<1> QED
  BY <1>1, <1>2, <1>3

(* Making, filling and removing a temporary file changes no file.          *)
LEMMA TempWritten ==
  ASSUME PubInv, NEW w \in Writer, Create(w) \/ WriteTemp(w)
  PROVE  PubInv'
<1> USE Apart DEF PubInv, To
<1>1. PubTypeOK'
  BY DEF PubTypeOK, Create, WriteTemp, Synced, Content, Place
<1>2. TempOK'
  BY DEF PubTypeOK, TempOK, Create, WriteTemp, Synced
<1>3. FilesOK'
  BY DEF PubTypeOK, FilesOK, Create, WriteTemp, Synced
<1> QED
  BY <1>1, <1>2, <1>3

(* The end of a save: what it reports was published.                       *)
LEMMA SaveReturns ==
  ASSUME PubInv, NEW w \in Writer, Return(w)
  PROVE  PubInv'
<1> USE Apart DEF PubInv, To
<1>1. PubTypeOK'
  BY DEF PubTypeOK, Return, Removed, Content, Place, Writer
<1>2. TempOK'
  BY DEF PubTypeOK, TempOK, Return, Removed
<1>3. FilesOK'
  BY DEF PubTypeOK, FilesOK, Return, Removed, Writer
<1> QED
  BY <1>1, <1>2, <1>3

(* A receiver publishes a whole file, under a name that was free.          *)
LEMMA Published ==
  ASSUME PubInv, NEW s \in Saver, PublishExclusive(s)
  PROVE  PubInv' /\ (\A n \in Name : file[n] # None => file'[n] = file[n])
<1> USE Apart DEF PubInv, To
<1>1. CASE UNCHANGED file
  <2>1. PubTypeOK'
    BY <1>1 DEF PubTypeOK, PublishExclusive, Moved, TryAgain, TakesName, Content, Place
  <2>2. TempOK'
    BY <1>1 DEF PubTypeOK, TempOK, PublishExclusive, Moved, TryAgain, TakesName
  <2>3. FilesOK'
    BY <1>1 DEF PubTypeOK, FilesOK, TempOK, PublishExclusive, Moved, TryAgain, TakesName
  <2> QED
    BY <1>1, <2>1, <2>2, <2>3
<1>2. CASE /\ pc[s] = "publish" /\ file[path[s]] = None
           /\ file' = [file EXCEPT ![path[s]] = s] /\ Moved(s)
           /\ To(s, "published") /\ UNCHANGED <<path, saved, touched>>
  <2>1. PubTypeOK'
    BY <1>2 DEF PubTypeOK, Moved, Content, Place
  <2>2. TempOK'
    BY <1>2 DEF PubTypeOK, TempOK, Moved
  <2>3. FilesOK'
    BY <1>2 DEF PubTypeOK, FilesOK
  <2> QED
    BY <1>2, <2>1, <2>2, <2>3 DEF PubTypeOK
<1> QED
  BY <1>1, <1>2 DEF PublishExclusive, TakesName, TempOK, PubTypeOK

(* The user saves over a file, in one step or in place, or deletes one.    *)
LEMMA UserChanges ==
  ASSUME PubInv, BeginSaveAs \/ PublishOver \/ WriteInPlace \/ Delete
  PROVE  PubInv' /\ (\A n \in Name : file'[n] \in Saver => file'[n] = file[n])
<1> USE Apart DEF PubInv, To
<1>1. PubTypeOK'
  BY DEF PubTypeOK, BeginSaveAs, PublishOver, WriteInPlace, Delete, Content, Place
<1>2. TempOK'
  BY DEF PubTypeOK, TempOK, BeginSaveAs, PublishOver, WriteInPlace, Delete
<1>3. FilesOK'
  BY DEF PubTypeOK, FilesOK, BeginSaveAs, PublishOver, WriteInPlace, Delete
<1>4. \A n \in Name : file'[n] \in Saver => file'[n] = file[n]
  BY DEF PubTypeOK, TempOK, BeginSaveAs, PublishOver, WriteInPlace, Delete, Writer
<1> QED
  BY <1>1, <1>2, <1>3, <1>4

(* A receiver that dies leaves its temporary file, and no other trace.     *)
LEMMA Dies ==
  ASSUME PubInv, NEW s \in Saver, Die(s)
  PROVE  PubInv'
BY Apart DEF PubInv, To, PubTypeOK, TempOK, FilesOK, Die, Place

(* Each step keeps the invariant, and no receiver replaces a file.         *)
LEMMA PubStep ==
  ASSUME PubInv, [PubNext]_pubVars
  PROVE  /\ PubInv'
         /\ \A n \in Name : file[n] # None /\ file'[n] \in Saver => file'[n] = file[n]
<1>1. ASSUME NEW s \in Saver, Save(s) \/ Die(s)
      PROVE  PubInv' /\ (\A n \in Name : file[n] # None => file'[n] = file[n])
  <2>1. CASE BeginSave(s) \/ Probe(s)
    BY <2>1, SaverLooks DEF BeginSave, Probe
  <2>2. CASE WriteAtomic(s)
    BY <2>2, TempWritten, SaveReturns, Apart DEF WriteAtomic, Create, WriteTemp, Return
  <2>3. CASE PublishExclusive(s)
    BY <2>3, Published
  <2>4. CASE Die(s)
    BY <2>4, Dies DEF Die
  <2> QED
    BY <1>1, <2>1, <2>2, <2>3, <2>4 DEF Save
<1>2. CASE WriteAtomic(User)
  BY <1>2, TempWritten, SaveReturns, Apart DEF WriteAtomic, Create, WriteTemp, Return
<1>3. CASE BeginSaveAs \/ PublishOver \/ WriteInPlace \/ Delete
  BY <1>3, UserChanges
<1>4. CASE UNCHANGED pubVars
  BY <1>4 DEF PubInv, PubTypeOK, TempOK, FilesOK, pubVars
<1> QED
  BY <1>1, <1>2, <1>3, <1>4 DEF PubNext, SaveAs

(* PubInv is an inductive invariant of the publication of files.           *)
THEOREM PublicationInvariant == PubSpec => []PubInv
<1>1. PubInv /\ [PubNext]_pubVars => PubInv'
  BY PubStep
<1> QED
  BY <1>1, PubInitInv, PTL DEF PubSpec

(* A file that was reported is there, whole, until the user changes it; no *)
(* other receiver, no failure and no death puts part of a file under a     *)
(* name; and nobody who has ended leaves a temporary file (writeAtomic).   *)
THEOREM ReportedIsThere == PubSpec => []SavedIsThere
<1>1. PubInv => SavedIsThere
  BY DEF PubInv, PubTypeOK, TempOK, FilesOK, SavedIsThere, Ended
<1> QED
  BY <1>1, PublicationInvariant, PTL

(* No receiver ever replaces a file (publishExclusive), however many look  *)
(* for the same name.                                                      *)
THEOREM NothingReplaced == PubSpec => NeverReplaces
<1>1. PubInv /\ [PubNext]_pubVars
        => [\A n \in Name : file[n] # None /\ file'[n] \in Saver => file'[n] = file[n]]_file
  BY PubStep
<1> QED
  BY <1>1, PublicationInvariant, PTL DEF PubSpec, NeverReplaces

-----------------------------------------------------------------------------
(* The server.  Server.lifecycle makes Start and Close one after the other, *)
(* and between them a run is the listener's, is being shut, or has no port. *)

Inside == {"listen9000", "listen0", "take", "shut", "wait", "waitError"}
Outside == {"idle", "start9000", "start0", "close", "started", "closed", "error"}

ServerTypeOK ==
  /\ listener \in Run \union {0} /\ failed \subseteq Run
  /\ serve \in [Run -> {"none", "serving", "returned"}]
  /\ port \in [Run -> {"9000", "other", Nobody}]
  /\ at \in [Opener -> Inside \union Outside] /\ closing \in [Opener -> Run \union {0}]

\* Runs are numbered as they begin; one that has not begun has nothing.
RunsOK ==
  \E k \in 0 .. MaxRuns :
    /\ \A r \in Run : serve[r] # "none" <=> r <= k
    /\ \A r \in Run : r > k => port[r] = Nobody
    /\ listener <= k

\* Who is in Start or Close has the lock; a run that is shut is the listener's no
\* more, and whoever shuts one finds no other begun.
LockOK ==
  /\ \A t \in Opener : at[t] \in Inside <=> lifecycle = t
  /\ \A t \in Opener : at[t] \in {"shut", "wait", "waitError"} => listener = 0
  /\ \A t \in Opener : at[t] = "shut" => closing[t] \in Run

\* A run with a port is the listener's or is being shut.
PortOK ==
  /\ \A r \in Run : port[r] # Nobody => r = listener \/ \E t \in Opener : at[t] = "shut" /\ closing[t] = r
  /\ listener # 0 => port[listener] # Nobody \/ listener \in failed

\* While the window is open, only the button's goroutine starts and stops.
ButtonOK ==
  /\ busy <=> at["toggle"] # "idle"
  /\ at["exit"] = "idle" =>
       /\ at["toggle"] = "started" => listener # 0
       /\ ~busy => (status = "closed" => listener = 0) /\ (status = "started" => listener # 0)

ServerInv == ServerTypeOK /\ RunsOK /\ LockOK /\ PortOK /\ ButtonOK

(* The constants are apart.                                                *)
LEMMA Openers ==
  /\ "toggle" \in Opener /\ "exit" \in Opener /\ Nobody \notin Opener /\ Inside \intersect Outside = {}
  /\ Nobody # "9000" /\ Nobody # "other" /\ MaxRuns \in Nat /\ 0 \notin Run /\ Run \subseteq Nat
BY RunsAssumption DEF Opener, Inside, Outside, Run

(* Nothing has begun at the beginning.                                     *)
LEMMA ServerInitInv == ServerInit => ServerInv
<1> SUFFICES ASSUME ServerInit PROVE ServerInv
  OBVIOUS
<1>1. ServerTypeOK
  BY Openers DEF ServerInit, ServerTypeOK, Outside
<1>2. RunsOK
  <2>1. 0 \in 0 .. MaxRuns
    BY Openers
  <2>2. \A r \in Run : serve[r] = "none" /\ port[r] = Nobody /\ r > 0 /\ ~(r <= 0)
    BY Openers DEF ServerInit, Run
  <2> QED
    BY <2>1, <2>2 DEF RunsOK, ServerInit
<1>3. LockOK /\ PortOK
  BY Openers DEF ServerInit, LockOK, PortOK, Inside, Outside
<1>4. ButtonOK
  BY Openers DEF ServerInit, ButtonOK
<1> QED
  BY <1>1, <1>2, <1>3, <1>4 DEF ServerInv

(* The next run to begin is one that has not begun.                        *)
LEMMA NextRun ==
  ASSUME ServerInv, NEW n, n = Cardinality({r \in Run : serve[r] # "none"}) + 1, n \in Run
  PROVE  /\ serve[n] = "none" /\ port[n] = Nobody /\ listener # n
         /\ \A r \in Run : r # n => (serve[r] # "none" <=> r < n)
         /\ \A r \in Run : r > n => port[r] = Nobody
<1>1. PICK k \in 0 .. MaxRuns : /\ \A r \in Run : serve[r] # "none" <=> r <= k
                                /\ \A r \in Run : r > k => port[r] = Nobody
                                /\ listener <= k
  BY DEF ServerInv, RunsOK
<1>2. {r \in Run : serve[r] # "none"} = 1 .. k
  BY <1>1, Openers DEF Run
<1>3. Cardinality(1 .. k) = k
  <2>1. k \in Int /\ 1 \in Int
    BY Openers
  <2>2. Cardinality(1 .. k) = IF 1 > k THEN 0 ELSE k - 1 + 1
    BY <2>1, FS_Interval
  <2> QED
    BY <1>1, <2>2
<1>4. n = k + 1 /\ k \in Nat
  <2>1. k \in Nat
    BY Openers
  <2>2. Cardinality({r \in Run : serve[r] # "none"}) = k
    BY <1>2, <1>3, Zenon
  <2> QED
    BY <2>1, <2>2
<1>5. \A r \in Run : r \in Nat /\ (r # n => (r <= k <=> r < n)) /\ (r > n => r > k)
  BY <1>4, Openers
<1>6. n > k /\ ~(n <= k) /\ listener # n
  BY <1>1, <1>4, Openers DEF ServerInv, ServerTypeOK
<1>7. serve \in [Run -> {"none", "serving", "returned"}]
  BY DEF ServerInv, ServerTypeOK
<1> QED
  BY <1>1, <1>5, <1>6, <1>7

(* Start, holding the lock.                                                *)
LEMMA Listening ==
  ASSUME ServerInv, NEW t \in Opener, Listen(t)
  PROVE  ServerInv'
<1> USE Openers
<1> DEFINE p == IF at[t] = "listen0" THEN "other" ELSE "9000"
           n == Cardinality({r \in Run : serve[r] # "none"}) + 1
<1>1. at[t] \in {"listen9000", "listen0"} /\ lifecycle = t /\ lifecycle' = Nobody
      /\ UNCHANGED <<failed, closing, busy, status>>
  BY DEF Listen, Unlocked, ServerInv, LockOK, Inside
<1>2. \A u \in Opener : u # t => at[u] \notin Inside
  BY <1>1 DEF ServerInv, LockOK
<1>3. \A u \in Opener : at[u] \notin {"shut", "wait", "waitError"}
  BY <1>1, <1>2 DEF Inside
<1>4. CASE UNCHANGED <<listener, serve, port>> /\ \E w \in {"started", "start0", "error"} :
              Go(t, w) /\ (w = "started" => listener # 0)
  <2>1. PICK w \in {"started", "start0", "error"} : Go(t, w) /\ (w = "started" => listener # 0)
    BY <1>4
  <2>2. at' = [at EXCEPT ![t] = w] /\ w \in Outside /\ w \notin Inside
    BY <2>1 DEF Go, Outside, Inside
  <2>3. ServerTypeOK'
    BY <1>1, <1>4, <2>2 DEF ServerInv, ServerTypeOK
  <2>4. RunsOK'
    BY <1>4 DEF ServerInv, RunsOK
  <2>5. \A u \in Opener : at'[u] = (IF u = t THEN w ELSE at[u]) /\ at'[u] \notin Inside
    BY <1>2, <2>2 DEF ServerInv, ServerTypeOK
  <2>6. LockOK'
    BY <1>1, <2>5 DEF LockOK, Inside
  <2>7. PortOK'
    BY <1>1, <1>3, <1>4 DEF ServerInv, PortOK
  <2>8. ButtonOK'
    BY <1>1, <1>4, <2>1, <2>5 DEF ServerInv, ButtonOK, Inside
  <2> QED
    BY <2>3, <2>4, <2>6, <2>7, <2>8 DEF ServerInv
<1>5. CASE /\ listener = 0 /\ n \in Run /\ Go(t, "started")
           /\ listener' = n /\ port' = [port EXCEPT ![n] = p]
           /\ serve' = [serve EXCEPT ![n] = "serving"]
  <2> HIDE DEF p
  <2>1. /\ serve[n] = "none" /\ port[n] = Nobody
        /\ \A r \in Run : r # n => (serve[r] # "none" <=> r < n)
        /\ \A r \in Run : r > n => port[r] = Nobody
    BY <1>5, NextRun
  <2> HIDE DEF n
  <2>2. p \in {"9000", "other"}
    BY DEF p
  <2>3. at' = [at EXCEPT ![t] = "started"] /\ "started" \in Outside \ Inside
    BY <1>5 DEF Go, Outside, Inside
  <2>4. ServerTypeOK'
    BY <1>1, <1>5, <2>2, <2>3 DEF ServerInv, ServerTypeOK
  <2>5. RunsOK'
    <3>1. n \in 0 .. MaxRuns
      BY <1>5 DEF Run
    <3>2. \A r \in Run : r \in Nat /\ n \in Nat /\ serve'[r] = (IF r = n THEN "serving" ELSE serve[r])
                         /\ port'[r] = (IF r = n THEN p ELSE port[r])
      BY <1>5 DEF ServerInv, ServerTypeOK
    <3>3. \A r \in Run : serve'[r] # "none" <=> r <= n
      BY <2>1, <3>2
    <3>4. \A r \in Run : r > n => port'[r] = Nobody
      BY <2>1, <3>2
    <3> QED
      BY <1>5, <3>1, <3>3, <3>4 DEF RunsOK
  <2>6. \A u \in Opener : at'[u] = (IF u = t THEN "started" ELSE at[u]) /\ at'[u] \notin Inside
    BY <1>2, <2>3 DEF ServerInv, ServerTypeOK
  <2>7. LockOK'
    BY <1>1, <2>6 DEF LockOK, Inside
  <2>8. PortOK'
    <3>1. \A r \in Run : r # n => port[r] = Nobody
      BY <1>3, <1>5 DEF ServerInv, PortOK
    <3>2. \A r \in Run : port'[r] = (IF r = n THEN p ELSE port[r])
      BY <1>5 DEF ServerInv, ServerTypeOK
    <3> QED
      BY <1>5, <2>2, <3>1, <3>2 DEF PortOK
  <2>9. ButtonOK'
    <3>1. listener' # 0 /\ at[t] # "idle" /\ at[t] \in Inside
      BY <1>1, <1>5 DEF Inside
    <3>2. at'["toggle"] = "idle" <=> at["toggle"] = "idle"
      BY <2>6, <3>1
    <3>3. at'["exit"] = "idle" => at["exit"] = "idle" /\ t = "toggle"
      BY <2>6, <3>1 DEF Opener
    <3> QED
      BY <1>1, <3>1, <3>2, <3>3 DEF ServerInv, ButtonOK
  <2> QED
    BY <2>4, <2>5, <2>7, <2>8, <2>9 DEF ServerInv
<1> QED
  BY <1>4, <1>5 DEF Listen

(* Waiting for the lock, and getting it.                                   *)
LEMMA Locking ==
  ASSUME ServerInv, NEW t \in Opener, Lock(t)
  PROVE  ServerInv'
<1> USE Openers
<1>1. PICK w \in {"listen9000", "listen0", "take"} : Go(t, w)
  BY DEF Lock
<1>2. /\ at[t] \in {"start9000", "start0", "close"} /\ lifecycle = Nobody /\ lifecycle' = t
      /\ UNCHANGED <<listener, serve, port, failed, closing, busy, status>>
  BY DEF Lock
<1>3. at' = [at EXCEPT ![t] = w] /\ w \in Inside
  BY <1>1 DEF Go, Inside
<1>4. \A u \in Opener : at'[u] = (IF u = t THEN w ELSE at[u]) /\ at[u] \notin Inside
  BY <1>2, <1>3 DEF ServerInv, ServerTypeOK, LockOK
<1>5. ServerTypeOK'
  BY <1>2, <1>3 DEF ServerInv, ServerTypeOK
<1>6. RunsOK'
  BY <1>2 DEF ServerInv, RunsOK
<1>7. LockOK'
  BY <1>1, <1>2, <1>3, <1>4 DEF LockOK, Inside
<1>8. PortOK'
  BY <1>2, <1>4 DEF ServerInv, PortOK, Inside
<1>9. ButtonOK'
  BY <1>1, <1>2, <1>4 DEF ServerInv, ButtonOK
<1> QED
  BY <1>5, <1>6, <1>7, <1>8, <1>9 DEF ServerInv

(* Close takes the run, closes it, and waits.                              *)
LEMMA Closing ==
  ASSUME ServerInv, NEW t \in Opener, TakeRun(t) \/ CloseRun(t) \/ WaitDone(t)
  PROVE  ServerInv'
<1> USE Openers
<1>1. /\ at[t] \in {"take", "shut", "wait", "waitError"} /\ lifecycle = t
      /\ UNCHANGED <<serve, failed, busy, status>>
  BY DEF TakeRun, CloseRun, WaitDone, ServerInv, LockOK, Inside
<1>2. \A u \in Opener : u # t => at[u] \notin Inside
  BY <1>1 DEF ServerInv, LockOK
<1>3. PICK w \in {"shut", "wait", "waitError", "closed", "error"} :
         /\ Go(t, w)
         /\ w \in {"closed", "error"} <=> lifecycle' = Nobody
         /\ w \in {"shut", "wait", "waitError"} <=> lifecycle' = t
  BY <1>1 DEF TakeRun, CloseRun, WaitDone, Unlocked
<1>4. at' = [at EXCEPT ![t] = w] /\ w \in Inside \union Outside /\ (w \in Inside <=> lifecycle' = t)
      /\ (w \notin Inside => lifecycle' = Nobody)
  BY <1>3 DEF Go, Inside, Outside
<1>5. \A u \in Opener : at'[u] = (IF u = t THEN w ELSE at[u])
  BY <1>4 DEF ServerInv, ServerTypeOK
<1>6. listener' = 0
  BY DEF TakeRun, CloseRun, WaitDone, ListenerGone, ServerInv, LockOK
<1>7. ButtonOK'
  <2>1. at[t] # "idle" /\ w \notin {"idle", "started"}
    BY <1>1, <1>3
  <2>2. at'["exit"] = "idle" => at["exit"] = "idle" /\ t = "toggle" /\ busy
    BY <1>5, <2>1 DEF Opener, ServerInv, ButtonOK
  <2>3. at'["toggle"] = "idle" <=> at["toggle"] = "idle"
    BY <1>5, <2>1
  <2>4. at'["exit"] = "idle" => at'["toggle"] # "started"
    BY <1>5, <2>1, <2>2
  <2> QED
    BY <1>1, <2>2, <2>3, <2>4 DEF ServerInv, ButtonOK
<1>8. CASE TakeRun(t)
  <2>1. /\ UNCHANGED port /\ closing' = [closing EXCEPT ![t] = listener]
        /\ at[t] = "take" /\ (IF listener = 0 THEN w = "closed" ELSE w = "shut")
    <3>1. at'[t] = w
      BY <1>5
    <3>2. at'[t] = IF listener = 0 THEN "closed" ELSE "shut"
      BY <1>8 DEF TakeRun, Go, ServerInv, ServerTypeOK
    <3> QED
      BY <1>8, <3>1, <3>2 DEF TakeRun
  <2>2. \A u \in Opener : closing'[u] = (IF u = t THEN listener ELSE closing[u])
    BY <2>1 DEF ServerInv, ServerTypeOK
  <2>3. \A u \in Opener : at[u] # "shut"
    BY <1>2, <2>1 DEF Inside
  <2>4. PortOK'
    <3>1. \A r \in Run : port[r] # Nobody => r = listener /\ listener # 0
      BY <2>3 DEF ServerInv, PortOK
    <3>2. listener # 0 => at'[t] = "shut" /\ closing'[t] = listener
      BY <1>5, <2>1, <2>2
    <3> QED
      BY <1>6, <2>1, <3>1, <3>2 DEF PortOK
  <2>5. LockOK'
    <3>1. \A u \in Opener : at'[u] = "shut" => closing'[u] \in Run
      BY <1>5, <2>1, <2>2, <2>3 DEF ServerInv, ServerTypeOK
    <3>2. \A u \in Opener : at'[u] \in Inside <=> lifecycle' = u
      BY <1>2, <1>4, <1>5
    <3> QED
      BY <1>6, <3>1, <3>2 DEF LockOK
  <2>6. ServerTypeOK'
    BY <1>1, <1>4, <1>6, <2>1 DEF ServerInv, ServerTypeOK
  <2>7. RunsOK'
    <3>1. PICK k \in 0 .. MaxRuns :
             (\A r \in Run : serve[r] # "none" <=> r <= k) /\ (\A r \in Run : r > k => port[r] = Nobody)
      BY DEF ServerInv, RunsOK
    <3>2. /\ \A r \in Run : serve'[r] # "none" <=> r <= k
          /\ \A r \in Run : r > k => port'[r] = Nobody
          /\ listener' <= k
      BY <1>1, <1>6, <2>1, <3>1
    <3> QED
      BY <3>1, <3>2, Zenon DEF RunsOK
  <2> QED
    BY <1>7, <2>4, <2>5, <2>6, <2>7 DEF ServerInv
<1>9. CASE CloseRun(t) \/ WaitDone(t)
  <2>1. UNCHANGED closing /\ at[t] \in {"shut", "wait", "waitError"} /\ w # "shut" /\ listener = 0
    <3>1. at'[t] = w /\ at'[t] # "shut"
      BY <1>5, <1>9 DEF CloseRun, WaitDone, Go, ServerInv, ServerTypeOK
    <3> QED
      BY <1>9, <3>1 DEF CloseRun, WaitDone, ServerInv, LockOK
  <2>2. \A u \in Opener : at'[u] # "shut"
    BY <1>2, <1>5, <2>1 DEF Inside
  <2>3. port' \in [Run -> {"9000", "other", Nobody}] /\ \A r \in Run : port[r] = Nobody => port'[r] = Nobody
    BY <1>9 DEF CloseRun, WaitDone, ServerInv, ServerTypeOK
  <2>4. \A r \in Run : port'[r] = Nobody
    <3>1. CASE CloseRun(t)
      <4>1. at[t] = "shut" /\ port' = [port EXCEPT ![closing[t]] = Nobody]
        BY <3>1 DEF CloseRun
      <4>2. \A r \in Run : port[r] # Nobody => r = closing[t]
        BY <1>2, <2>1 DEF ServerInv, PortOK, Inside
      <4> QED
        BY <4>1, <4>2 DEF ServerInv, ServerTypeOK
    <3>2. CASE WaitDone(t)
      <4>1. \A u \in Opener : at[u] # "shut"
        BY <1>2, <3>2 DEF WaitDone, Inside
      <4> QED
        BY <2>1, <2>3, <4>1 DEF ServerInv, PortOK
    <3> QED
      BY <1>9, <3>1, <3>2
  <2>5. PortOK'
    BY <1>6, <2>4 DEF PortOK
  <2>6. LockOK'
    <3>1. \A u \in Opener : at'[u] \in Inside <=> lifecycle' = u
      BY <1>2, <1>4, <1>5
    <3> QED
      BY <1>6, <2>2, <3>1 DEF LockOK
  <2>7. ServerTypeOK'
    BY <1>1, <1>4, <1>6, <2>1, <2>3 DEF ServerInv, ServerTypeOK
  <2>8. RunsOK'
    <3>1. PICK k \in 0 .. MaxRuns :
             (\A r \in Run : serve[r] # "none" <=> r <= k) /\ (\A r \in Run : r > k => port[r] = Nobody)
      BY DEF ServerInv, RunsOK
    <3>2. /\ \A r \in Run : serve'[r] # "none" <=> r <= k
          /\ \A r \in Run : r > k => port'[r] = Nobody
          /\ listener' <= k
      BY <1>1, <1>6, <2>3, <3>1
    <3> QED
      BY <3>1, <3>2 DEF RunsOK
  <2> QED
    BY <1>7, <2>5, <2>6, <2>7, <2>8 DEF ServerInv
<1> QED
  BY <1>8, <1>9

(* Serve and cleanup goroutines, and other programs.                       *)
LEMMA Alone ==
  ASSUME ServerInv, ForeignProgram \/ \E r \in Run : Goroutine(r) \/ ServeFails(r)
  PROVE  ServerInv'
<1> USE Openers
<1>1. CASE ForeignProgram \/ \E r \in Run : CleanupEnds(r)
  <2>1. UNCHANGED <<listener, serve, port, failed, lifecycle, at, closing, busy, status>>
    BY <1>1 DEF ForeignProgram, CleanupEnds
  <2>2. ServerTypeOK' /\ RunsOK' /\ LockOK'
    BY <2>1 DEF ServerInv, ServerTypeOK, RunsOK, LockOK
  <2>3. PortOK' /\ ButtonOK'
    BY <2>1 DEF ServerInv, PortOK, ButtonOK
  <2> QED
    BY <2>2, <2>3 DEF ServerInv
<1>2. ASSUME NEW r \in Run, ServeReturns(r) \/ ServeFails(r) PROVE ServerInv'
  <2>1. /\ serve[r] = "serving" /\ serve' = [serve EXCEPT ![r] = "returned"]
        /\ UNCHANGED <<listener, lifecycle, at, closing, busy, status>>
    BY <1>2 DEF ServeReturns, ServeFails
  <2>2. \/ UNCHANGED <<port, failed>>
        \/ port' = [port EXCEPT ![r] = Nobody] /\ failed' = failed \union {r}
    BY <1>2 DEF ServeReturns, ServeFails
  <2>3. ServerTypeOK'
    BY <2>1, <2>2 DEF ServerInv, ServerTypeOK
  <2>4. \A q \in Run : port'[q] = port[q] \/ (q = r /\ port'[q] = Nobody /\ q \in failed')
    BY <2>2 DEF ServerInv, ServerTypeOK
  <2>5. \A q \in Run : serve'[q] # "none" <=> serve[q] # "none"
    BY <2>1 DEF ServerInv, ServerTypeOK
  <2>6. RunsOK'
    BY <2>1, <2>4, <2>5 DEF ServerInv, RunsOK
  <2>7. PortOK'
    <3>1. failed \subseteq failed'
      BY <2>2
    <3> QED
      BY <2>1, <2>4, <3>1 DEF ServerInv, PortOK, ServerTypeOK
  <2>8. LockOK' /\ ButtonOK'
    BY <2>1 DEF ServerInv, LockOK, ButtonOK
  <2> QED
    BY <2>3, <2>6, <2>7, <2>8 DEF ServerInv
<1> QED
  BY <1>1, <1>2 DEF Goroutine

(* The button and the end of the window.                                   *)
LEMMA Clicked ==
  ASSUME ServerInv, Toggle \/ Report \/ Exit
  PROVE  ServerInv'
<1> USE Openers
<1>1. UNCHANGED <<listener, serve, port, failed, lifecycle, closing>>
  BY DEF Toggle, Report, Exit
<1>2. PICK t \in Opener, w \in {"start9000", "close", "idle"} : Go(t, w) /\ at[t] \notin Inside
  BY DEF Toggle, Report, Exit, NotBusy, ServerInv, ButtonOK, Inside
<1>3. at' = [at EXCEPT ![t] = w] /\ w \in Outside /\ w \notin Inside
  BY <1>2 DEF Go, Inside, Outside
<1>4. \A u \in Opener : at'[u] = (IF u = t THEN w ELSE at[u])
  BY <1>3 DEF ServerInv, ServerTypeOK
<1>5. ServerTypeOK' /\ RunsOK'
  BY <1>1, <1>3 DEF ServerInv, ServerTypeOK, RunsOK
<1>6. LockOK' /\ PortOK'
  BY <1>1, <1>2, <1>3, <1>4 DEF ServerInv, LockOK, PortOK, Inside
<1>7. ButtonOK'
  <2>1. CASE Toggle
    <3>1. at'["toggle"] \in {"start9000", "close"} /\ busy' /\ at["exit"] = at'["exit"]
      BY <2>1 DEF Toggle, Go, ServerInv, ServerTypeOK
    <3> QED
      BY <3>1 DEF ButtonOK
  <2>2. CASE Report
    <3>1. at'["toggle"] = "idle" /\ ~busy' /\ at'["exit"] = at["exit"]
      BY <2>2 DEF Report, Go, ServerInv, ServerTypeOK
    <3>2. /\ at["toggle"] \in {"started", "closed", "error"}
          /\ status' = IF at["toggle"] = "closed" /\ listener # 0 THEN "error" ELSE at["toggle"]
      BY <2>2 DEF Report
    <3> QED
      BY <1>1, <3>1, <3>2 DEF ServerInv, ButtonOK
  <2>3. CASE Exit
    <3>1. at'["toggle"] = at["toggle"] /\ at'["exit"] # "idle" /\ UNCHANGED busy
      BY <2>3 DEF Exit, Go, ServerInv, ServerTypeOK
    <3> QED
      BY <3>1 DEF ServerInv, ButtonOK
  <2> QED
    BY <2>1, <2>2, <2>3
<1> QED
  BY <1>5, <1>6, <1>7 DEF ServerInv

(* ServerInv is an inductive invariant of the server's life.               *)
THEOREM ServerInvariant == ServerSpec => []ServerInv
<1>1. ServerInv /\ [ServerNext]_serverVars => ServerInv'
  <2>1. ServerInv /\ UNCHANGED serverVars => ServerInv'
    BY DEF serverVars, ServerInv, ServerTypeOK, RunsOK, LockOK, PortOK, ButtonOK
  <2> QED
    BY <2>1, Listening, Locking, Closing, Alone, Clicked DEF ServerNext, Call
<1> QED
  BY <1>1, ServerInitInv, PTL DEF ServerSpec

(* The window never reports a stop while the port is bound, nor a start    *)
(* without a server (toggleSender, Start, Close).                          *)
THEOREM WindowIsRight == ServerSpec => []ServerHonest
<1>1. ServerInv => ServerHonest
  BY DEF ServerInv, LockOK, PortOK, ButtonOK, ServerHonest, Inside
<1> QED
  BY <1>1, ServerInvariant, PTL

-----------------------------------------------------------------------------
(* Drawing a region.                                                        *)

RegionIs == {"none", "idle", "scanning", "failing", "done"}

SelectTypeOK ==
  /\ region \in [Area -> RegionIs] /\ before \in [Area -> RegionIs]
  /\ overlay \in {"closed", "listed", "open"} /\ resumeAfter \subseteq Area

\* While a selection is under way the regions that scanned at its beginning are those
\* to resume, and the others are as they were.
SelectInv ==
  /\ SelectTypeOK
  /\ overlay # "closed" =>
       /\ resumeAfter = {a \in Area : before[a] \in {"scanning", "failing"}}
       /\ \A a \in Area : before[a] \in {"none", "idle", "done"} => region[a] = before[a]
  /\ overlay = "open" => Scanning = {}

Untouched ==
  overlay # "closed" /\ overlay' = "closed" =>
    \A a \in Area :
      /\ before[a] \in {"scanning", "failing"} => region'[a] = "scanning"
      /\ before[a] \in {"idle", "done"} => region'[a] = before[a]

(* Each step of the window, and of the regions, keeps the invariant.        *)
LEMMA SelectStep == SelectInv /\ [SelectNext]_selectVars => SelectInv' /\ Untouched
<1> SUFFICES ASSUME SelectInv, [SelectNext]_selectVars PROVE SelectInv' /\ Untouched
  OBVIOUS
<1>1. CASE BeginSelect
  BY <1>1 DEF SelectInv, SelectTypeOK, BeginSelect, Listed, Scanning, RegionIs, Untouched
<1>2. CASE PauseAll
  <2> DEFINE paused == [a \in Area |-> IF a \in Scanning THEN "idle" ELSE region[a]]
  <2>1. /\ overlay = "listed" /\ before' = before
        /\ \/ overlay' = "open" /\ region' = paused /\ resumeAfter' = resumeAfter
           \/ /\ overlay' = "closed" /\ resumeAfter' = {}
              /\ region' = [a \in Area |-> IF a \in resumeAfter THEN "scanning" ELSE paused[a]]
    BY <1>2 DEF PauseAll
  <2>2. paused \in [Area -> RegionIs] /\ region' \in [Area -> RegionIs]
    BY <2>1 DEF SelectInv, SelectTypeOK, RegionIs
  <2>3. \A a \in Area : /\ paused[a] \notin {"scanning", "failing"}
                        /\ before[a] \in {"none", "idle", "done"} => paused[a] = before[a]
    BY <2>1 DEF SelectInv, Scanning
  <2>4. resumeAfter = {a \in Area : before[a] \in {"scanning", "failing"}}
    BY <2>1 DEF SelectInv
  <2>5. CASE overlay' = "open"
    <3>1. region' = paused /\ resumeAfter' = resumeAfter
      BY <2>1, <2>5
    <3> HIDE DEF paused
    <3>2. Scanning' = {}
      BY <2>3, <3>1 DEF Scanning
    <3> QED
      BY <2>1, <2>2, <2>3, <2>4, <2>5, <3>1, <3>2 DEF SelectInv, SelectTypeOK, Untouched
  <2>6. CASE overlay' = "closed"
    <3> HIDE DEF paused
    <3>1. /\ resumeAfter' = {}
          /\ region' = [a \in Area |-> IF a \in resumeAfter THEN "scanning" ELSE paused[a]]
      BY <2>1, <2>6
    <3> QED
      BY <2>1, <2>2, <2>3, <2>4, <2>6, <3>1 DEF SelectInv, SelectTypeOK, Untouched
  <2> QED
    BY <2>1, <2>5, <2>6
<1>3. CASE EndSelect
  <2>1. PICK added \in {{}} \union {{a} : a \in {b \in Area : region[b] = "none"}} :
          region' = Resumed(resumeAfter, added)
    BY <1>3 DEF EndSelect
  <2>2. \A a \in added : a \in Area /\ region[a] = "none"
    BY <2>1
  <2>3. region' = [a \in Area |-> IF a \in resumeAfter \union added THEN "scanning" ELSE region[a]]
    BY <2>1 DEF Resumed
  <2> QED
    BY <1>3, <2>2, <2>3 DEF EndSelect, SelectInv, SelectTypeOK, RegionIs, Untouched
<1>4. ASSUME NEW a \in Area, Click(a) PROVE SelectInv' /\ Untouched
  BY <1>4 DEF SelectInv, SelectTypeOK, RegionIs, Untouched, Click, Started
<1>5. ASSUME NEW a \in Area, Receives(a) PROVE SelectInv' /\ Untouched
  <2>1. overlay # "open"
    BY <1>5 DEF SelectInv, Scanning, Receives
  <2> QED
    BY <1>5, <2>1 DEF SelectInv, SelectTypeOK, RegionIs, Untouched, Receives
<1>6. CASE UNCHANGED selectVars
  BY <1>6 DEF SelectInv, SelectTypeOK, Untouched, Scanning, selectVars
<1> QED
  BY <1>1, <1>2, <1>3, <1>4, <1>5, <1>6 DEF SelectNext

(* A selection, finished or not, leaves the regions as it found them, and    *)
(* nothing scans the overlay.                                                *)
THEOREM SelectionLeavesRegions == SelectSpec => RegionsResumed
<1>1. SelectInit => SelectInv
  BY DEF SelectInit, SelectInv, SelectTypeOK, RegionIs
<1>2. SelectInv => (overlay = "open" => Scanning = {})
  BY DEF SelectInv
<1>3. SelectSpec => []SelectInv
  BY <1>1, SelectStep, PTL DEF SelectSpec
<1>4. SelectSpec => [](overlay = "open" => Scanning = {})
  BY <1>2, <1>3, PTL
<1>5. SelectSpec => [][Untouched]_selectVars
  BY <1>3, SelectStep, PTL DEF SelectSpec
<1> QED
  BY <1>4, <1>5 DEF RegionsResumed, Untouched

-----------------------------------------------------------------------------
(* The sender's log.                                                        *)

Steps == {"idle", "remove", "backup", "rotate", "append"}
File(i) == Lines(logs[i])
Appending == {p \in Sender : step[p] = "append"}
Limit == LogMax + Cardinality(Sender) - 1

LogTypeOK ==
  /\ logs \in [0 .. 2 -> Seq(Nat) \union {NoFile}] /\ step \in [Sender -> Steps]
  /\ lines \in Nat /\ raced \in BOOLEAN

\* Every sender that is about to write has looked: the first file has room for all
\* of them, but for one line of each other.
RoomOK ==
  /\ Len(File(0)) + Cardinality(Appending) <= Limit
  /\ Len(File(1)) <= Limit /\ Len(File(2)) <= Limit

\* A file that ends at line n, without gaps.
EndsAt(f, n) == Len(f) <= n /\ \A i \in 1 .. Len(f) : f[i] + Len(f) = n + i

\* Unless senders raced: the first file ends with the newest line; it is full when it
\* is about to be renamed; and while it is not full, all that was written is in it,
\* or the file before it is full and ends where it begins.
NewestOK ==
  /\ EndsAt(File(0), lines)
  /\ \A p \in Sender : step[p] \in {"remove", "backup", "rotate"} => Len(File(0)) >= LogMax
  /\ \/ Len(File(0)) >= LogMax
     \/ Len(File(0)) = lines
     \/ Len(File(1)) >= LogMax /\ EndsAt(File(1), lines - Len(File(0)))

LogInv == LogTypeOK /\ RoomOK /\ (~raced => NewestOK)

(* What is in the files.                                                    *)
LEMMA FilesTyped ==
  ASSUME LogTypeOK, NEW i \in 0 .. 2
  PROVE  File(i) \in Seq(Nat) /\ Len(File(i)) \in Nat
<1>1. << >> \in Seq(Nat)
  BY EmptySeq
<1>2. File(i) \in Seq(Nat)
  BY <1>1 DEF LogTypeOK, File, Lines
<1> QED
  BY <1>2, LenProperties

(* How many senders write at a time.                                        *)
LEMMA Appenders ==
  ASSUME NEW A \in SUBSET Sender
  PROVE  /\ IsFiniteSet(A) /\ Cardinality(A) \in Nat /\ Cardinality(Sender) \in Nat
         /\ Cardinality(A) <= Cardinality(Sender)
         /\ \A p \in Sender : Cardinality(Sender) >= 1
         /\ \A p \in A : Cardinality(A \ {p}) = Cardinality(A) - 1
<1>1. IsFiniteSet(Sender)
  BY SenderLogAssumption
<1>2. /\ IsFiniteSet(A) /\ Cardinality(A) \in Nat /\ Cardinality(Sender) \in Nat
      /\ Cardinality(A) <= Cardinality(Sender)
  BY <1>1, FS_Subset, FS_CardinalityType
<1>3. \A p \in Sender : Cardinality(Sender) >= 1
  <2>1. Cardinality(Sender) = 0 <=> Sender = {}
    BY <1>1, FS_EmptySet
  <2> QED
    BY <1>2, <2>1
<1>4. \A p \in A : Cardinality(A \ {p}) = Cardinality(A) - 1
  BY <1>2, FS_RemoveElement
<1> QED
  BY <1>2, <1>3, <1>4

(* A step that moves one sender, not to "append", and leaves the first file *)
(* alone.                                                                   *)
LEMMA RoomKept ==
  ASSUME LogTypeOK, RoomOK, NEW p \in Sender, NEW t \in Steps, LogTo(p, t), t # "append",
         LogTypeOK', File(0)' = File(0), Len(File(1))' <= Limit, Len(File(2))' <= Limit
  PROVE  RoomOK'
<1>1. Appending' = Appending \ {p}
  BY DEF Appending, LogTo, LogTypeOK
<1>2. Appending \in SUBSET Sender /\ Limit \in Int
  BY Appenders, SenderLogAssumption DEF Appending, Limit
<1>3. Cardinality(Appending') <= Cardinality(Appending) /\ Cardinality(Appending') \in Nat
  <2>1. CASE p \in Appending
    BY <1>1, <1>2, <2>1, Appenders
  <2>2. CASE p \notin Appending
    <3>1. Appending' = Appending
      BY <1>1, <2>2
    <3> QED
      BY <1>2, <3>1, Appenders
  <2> QED
    BY <2>1, <2>2
<1>4. Len(File(0)) \in Nat /\ Cardinality(Appending) \in Nat
  BY <1>2, FilesTyped, Appenders
<1>5. Len(File(0))' = Len(File(0)) /\ Limit' = Limit
  BY DEF Limit
<1> QED
  BY <1>2, <1>3, <1>4, <1>5 DEF RoomOK

(* record looks at the file, and goes on to write only while there is room. *)
LEMMA RecordKeeps == ASSUME LogInv, NEW p \in Sender, Record(p) PROVE LogInv'
<1>1. LogTypeOK /\ RoomOK /\ step[p] = "idle" /\ UNCHANGED <<logs, lines, raced>>
  BY DEF LogInv, Record
<1>2. PICK t \in {"remove", "append", "idle"} :
        /\ LogTo(p, t)
        /\ t = "remove" => TooLong
        /\ t = "append" => ~TooLong
  BY DEF Record, Returns
<1>3. LogTypeOK'
  BY <1>1, <1>2 DEF LogTypeOK, LogTo, Steps
<1>4. \A i \in 0 .. 2 : File(i)' = File(i)
  BY <1>1 DEF File
<1>5. /\ Len(File(0)) \in Nat /\ LogMax \in Nat
      /\ TooLong <=> Len(File(0)) + 1 > LogMax
  BY <1>1, FilesTyped, SenderLogAssumption DEF TooLong, File
<1>6. RoomOK'
  <2>1. CASE t = "append"
    <3>1. Len(File(0)) + 1 <= LogMax
      BY <1>2, <1>5, <2>1
    <3>2. Appending' \in SUBSET Sender
      BY DEF Appending
    <3>3. Cardinality(Appending') <= Cardinality(Sender) /\ Cardinality(Appending') \in Nat
          /\ Cardinality(Sender) \in Nat
      BY <3>2, Appenders
    <3>4. Len(File(0))' = Len(File(0)) /\ Len(File(1))' = Len(File(1)) /\ Len(File(2))' = Len(File(2))
      BY <1>4
    <3> QED
      BY <1>1, <1>5, <3>1, <3>3, <3>4 DEF RoomOK, Limit
  <2>2. CASE t # "append"
    <3>1. Len(File(1))' <= Limit /\ Len(File(2))' <= Limit /\ File(0)' = File(0)
      BY <1>1, <1>4 DEF RoomOK
    <3>2. t \in Steps
      BY DEF Steps
    <3> QED
      BY <1>1, <1>2, <1>3, <2>2, <3>1, <3>2, RoomKept
  <2> QED
    BY <2>1, <2>2
<1>7. ASSUME ~raced' PROVE NewestOK'
  <2>1. NewestOK
    BY <1>1, <1>7 DEF LogInv
  <2>2. \A q \in Sender : step'[q] = step[q] \/ (q = p /\ step'[q] = t)
    BY <1>1, <1>2 DEF LogTo, LogTypeOK
  <2>3. t = "remove" => Len(File(0)) >= LogMax
    BY <1>2, <1>5
  <2>4. File(0)' = File(0) /\ File(1)' = File(1) /\ lines' = lines
    BY <1>1, <1>4
  <2> QED
    BY <2>1, <2>2, <2>3, <2>4 DEF NewestOK, EndsAt
<1> QED
  BY <1>3, <1>6, <1>7 DEF LogInv

(* The renames before the file's own: the first file stays.                 *)
LEMMA BackupsKept ==
  ASSUME LogInv, NEW p \in Sender, RemoveSecond(p) \/ RenameFirst(p)
  PROVE  LogInv'
<1>1. LogTypeOK /\ RoomOK /\ step[p] \in {"remove", "backup"} /\ lines' = lines /\ Rotating(p)
  BY DEF LogInv, RemoveSecond, RenameFirst
<1>2. PICK t \in {"backup", "rotate"} : LogTo(p, t)
  BY DEF RemoveSecond, RenameFirst
<1>3. \/ logs' = logs \/ logs' = [logs EXCEPT ![2] = NoFile]
      \/ logs' = [logs EXCEPT ![2] = logs[1], ![1] = NoFile]
  BY DEF RemoveSecond, RenameFirst
<1>4. LogTypeOK'
  BY <1>1, <1>2, <1>3 DEF LogTypeOK, LogTo, Steps, Rotating
<1>5. File(0)' = File(0)
  BY <1>1, <1>3 DEF LogTypeOK, File
<1>6. /\ Len(File(1)) \in Nat /\ Len(File(2)) \in Nat /\ LogMax \in Nat \ {0} /\ Cardinality(Sender) \in Nat
      /\ Len(<< >>) = 0
  BY <1>1, FilesTyped, Appenders, SenderLogAssumption, EmptySeq
<1>7. Len(File(1))' <= Limit /\ Len(File(2))' <= Limit
  <2>1. File(1)' = File(1) \/ File(1)' = << >>
    BY <1>1, <1>3 DEF LogTypeOK, File, Lines
  <2>2. File(2)' = File(2) \/ File(2)' = << >> \/ File(2)' = File(1)
    BY <1>1, <1>3 DEF LogTypeOK, File, Lines
  <2> QED
    BY <1>1, <1>6, <2>1, <2>2 DEF RoomOK, Limit
<1>8. RoomOK'
  BY <1>1, <1>2, <1>4, <1>5, <1>7, RoomKept DEF Steps
<1>9. ASSUME ~raced' PROVE NewestOK'
  <2>1. NewestOK
    BY <1>1, <1>9 DEF LogInv, Rotating
  <2>2. Len(File(0)) >= LogMax
    BY <1>1, <2>1 DEF NewestOK
  <2> QED
    BY <1>1, <1>5, <2>1, <2>2 DEF NewestOK, EndsAt
<1> QED
  BY <1>4, <1>8, <1>9 DEF LogInv

(* The full file becomes the first backup.                                  *)
LEMMA RenameKeeps == ASSUME LogInv, NEW p \in Sender, RenameFile(p) PROVE LogInv'
<1>1. LogTypeOK /\ RoomOK /\ step[p] = "rotate" /\ lines' = lines /\ Rotating(p)
  BY DEF LogInv, RenameFile
<1>2. /\ Len(File(0)) \in Nat /\ Len(File(1)) \in Nat /\ Len(File(2)) \in Nat /\ LogMax \in Nat \ {0}
      /\ File(0) \in Seq(Nat) /\ Cardinality(Sender) \in Nat /\ Len(<< >>) = 0 /\ Limit \in Int
      /\ lines \in Nat
  BY <1>1, FilesTyped, Appenders, SenderLogAssumption, EmptySeq DEF Limit, LogTypeOK
<1>3. CASE Returns(p, TRUE) /\ UNCHANGED logs
  <2>1. LogTypeOK'
    BY <1>1, <1>3 DEF LogTypeOK, Returns, LogTo, Steps, Rotating
  <2>2. \A i \in 0 .. 2 : File(i)' = File(i)
    BY <1>3 DEF File
  <2>3. RoomOK'
    BY <1>1, <1>3, <2>1, <2>2, RoomKept DEF Returns, Steps, RoomOK
  <2>4. ASSUME ~raced' PROVE NewestOK'
    <3>1. NewestOK
      BY <1>1, <2>4 DEF LogInv, Rotating
    <3>2. \A q \in Sender : step'[q] = step[q] \/ step'[q] = "idle"
      BY <1>1, <1>3 DEF Returns, LogTo, LogTypeOK
    <3> QED
      BY <1>1, <2>2, <3>1, <3>2 DEF NewestOK, EndsAt
  <2> QED
    BY <2>1, <2>3, <2>4 DEF LogInv
<1>4. CASE logs[0] # NoFile /\ LogTo(p, "append") /\ logs' = Kept
  <2>1. LogTypeOK'
    BY <1>1, <1>4 DEF LogTypeOK, LogTo, Steps, Rotating, Kept
  <2>2. File(0)' = << >> /\ File(1)' = File(0) /\ File(2)' = File(2)
    BY <1>1, <1>4 DEF LogTypeOK, Kept, File, Lines
  <2>3. RoomOK'
    <3>1. Appending \in SUBSET Sender /\ Appending' \in SUBSET Sender
      BY DEF Appending
    <3>2. /\ Cardinality(Appending') <= Cardinality(Sender) /\ Cardinality(Appending') \in Nat
          /\ Cardinality(Appending) \in Nat
      BY <3>1, Appenders
    <3>3. Len(File(0))' = 0 /\ Len(File(1))' = Len(File(0)) /\ Len(File(2))' = Len(File(2))
      BY <1>2, <2>2
    <3> QED
      BY <1>1, <1>2, <3>2, <3>3 DEF RoomOK, Limit
  <2>4. ASSUME ~raced' PROVE NewestOK'
    <3>1. NewestOK
      BY <1>1, <2>4 DEF LogInv, Rotating
    <3>2. \A q \in Sender : step'[q] \in {"idle", "append"}
      BY <1>1, <1>4, <2>4 DEF Rotating, LogTo, LogTypeOK
    <3>3. Len(File(0)) >= LogMax /\ EndsAt(File(0), lines)
      BY <1>1, <3>1 DEF NewestOK
    <3>4. Len(File(0))' = 0 /\ Len(File(1))' = Len(File(0))
      BY <1>2, <2>2
    <3>5. EndsAt(File(0), lines)'
      BY <1>1, <1>2, <2>2 DEF EndsAt
    <3>6. Len(File(1))' >= LogMax /\ EndsAt(File(1)', lines' - Len(File(0))')
      <4>1. lines' - Len(File(0))' = lines
        BY <1>1, <1>2, <3>4
      <4> QED
        BY <2>2, <3>3, <3>4, <4>1
    <3> QED
      BY <3>2, <3>5, <3>6 DEF NewestOK
  <2> QED
    BY <2>1, <2>3, <2>4 DEF LogInv
<1> QED
  BY <1>3, <1>4 DEF RenameFile

(* A line is written.                                                       *)
LEMMA AppendKeeps == ASSUME LogInv, NEW p \in Sender, AppendLine(p) PROVE LogInv'
<1>1. LogTypeOK /\ RoomOK /\ step[p] = "append" /\ raced' = raced /\ LogTo(p, "idle")
  BY DEF LogInv, AppendLine, Returns
<1>2. /\ Len(File(0)) \in Nat /\ Len(File(1)) \in Nat /\ Len(File(2)) \in Nat /\ LogMax \in Nat \ {0}
      /\ File(0) \in Seq(Nat) /\ Limit \in Int /\ lines \in Nat
  BY <1>1, FilesTyped, Appenders, SenderLogAssumption DEF Limit, LogTypeOK
<1>3. \A q \in Sender : step'[q] = step[q] \/ step'[q] = "idle"
  BY <1>1 DEF LogTo, LogTypeOK
<1>4. CASE UNCHANGED <<logs, lines>>
  <2>1. LogTypeOK'
    BY <1>1, <1>4 DEF LogTypeOK, LogTo, Steps
  <2>2. \A i \in 0 .. 2 : File(i)' = File(i)
    BY <1>4 DEF File
  <2>3. RoomOK'
    BY <1>1, <2>1, <2>2, RoomKept DEF Steps, RoomOK
  <2>4. ASSUME ~raced' PROVE NewestOK'
    <3>1. NewestOK
      BY <1>1, <2>4 DEF LogInv
    <3> QED
      BY <1>3, <1>4, <2>2, <3>1 DEF NewestOK, EndsAt
  <2> QED
    BY <2>1, <2>3, <2>4 DEF LogInv
<1>5. CASE lines' = lines + 1 /\ logs' = [logs EXCEPT ![0] = Append(Lines(@), lines')]
  <2> DEFINE n == lines + 1
             q == Append(File(0), n)
  <2>1. logs' = [logs EXCEPT ![0] = q]
    BY <1>5 DEF File
  <2>2. /\ q \in Seq(Nat) /\ Len(q) = Len(File(0)) + 1 /\ q[Len(File(0)) + 1] = n
        /\ \A i \in 1 .. Len(File(0)) : q[i] = File(0)[i]
    BY <1>2, AppendProperties
  <2>3. q # NoFile
    BY <2>2, SenderLogAssumption
  <2> HIDE DEF q
  <2>4. LogTypeOK'
    <3>1. logs' \in [0 .. 2 -> Seq(Nat) \union {NoFile}]
      BY <1>1, <2>1, <2>2 DEF LogTypeOK
    <3>2. lines' \in Nat
      BY <1>2, <1>5
    <3>3. step' \in [Sender -> Steps] /\ raced' \in BOOLEAN
      BY <1>1 DEF LogTypeOK, LogTo, Steps
    <3> QED
      BY <3>1, <3>2, <3>3 DEF LogTypeOK
  <2>5. File(0)' = q /\ File(1)' = File(1) /\ File(2)' = File(2)
    BY <1>1, <2>1, <2>3 DEF LogTypeOK, File, Lines
  <2>6. RoomOK'
    <3>1. Appending' = Appending \ {p} /\ p \in Appending /\ Appending \in SUBSET Sender
      BY <1>1 DEF Appending, LogTo, LogTypeOK
    <3>2. Cardinality(Appending') = Cardinality(Appending) - 1 /\ Cardinality(Appending) \in Nat
      BY <3>1, Appenders
    <3>3. Len(File(0))' = Len(File(0)) + 1 /\ Len(File(1))' = Len(File(1)) /\ Len(File(2))' = Len(File(2))
          /\ Limit' = Limit
      BY <2>2, <2>5 DEF Limit
    <3> QED
      BY <1>1, <1>2, <3>2, <3>3 DEF RoomOK
  <2>7. ASSUME ~raced' PROVE NewestOK'
    <3>1. NewestOK
      BY <1>1, <2>7 DEF LogInv
    <3>2. Len(File(0))' = Len(File(0)) + 1 /\ Len(File(1))' = Len(File(1))
      BY <2>2, <2>5
    <3>3. EndsAt(File(0)', lines')
      <4>1. Len(q) <= n
        BY <1>2, <2>2, <3>1 DEF NewestOK, EndsAt
      <4>2. ASSUME NEW i \in 1 .. Len(q) PROVE q[i] + Len(q) = n + i
        <5>1. CASE i \in 1 .. Len(File(0))
          <6>1. q[i] = File(0)[i] /\ File(0)[i] + Len(File(0)) = lines + i
            BY <2>2, <3>1, <5>1 DEF NewestOK, EndsAt
          <6> DEFINE x == q[i]
                     l == Len(File(0))
          <6>2. x \in Nat /\ l \in Nat /\ i \in Nat /\ x + l = lines + i
            BY <1>2, <5>1, <6>1, ElementOfSeq
          <6>3. Len(q) = l + 1
            BY <2>2
          <6> HIDE DEF x, l
          <6>4. x + (l + 1) = (lines + 1) + i
            BY <1>2, <6>2
          <6> QED
            BY <6>3, <6>4 DEF x
        <5>2. CASE i = Len(File(0)) + 1
          BY <1>2, <2>2, <5>2
        <5> QED
          BY <1>2, <2>2, <5>1, <5>2
      <4> QED
        BY <1>5, <2>5, <4>1, <4>2 DEF EndsAt
    <3>4. Len(File(1)) >= LogMax /\ EndsAt(File(1), lines - Len(File(0)))
            => Len(File(1))' >= LogMax /\ EndsAt(File(1)', lines' - Len(File(0))')
      <4>1. lines' - Len(File(0))' = lines - Len(File(0))
        BY <1>2, <1>5, <3>2, SMTT(60)
      <4> QED
        BY <2>5, <4>1
    <3>5. \A x \in Sender : step'[x] \in {"remove", "backup", "rotate"} => Len(File(0))' >= LogMax
      BY <1>2, <1>3, <3>1, <3>2, SMTT(60) DEF NewestOK
    <3>6. \/ Len(File(0))' >= LogMax
          \/ Len(File(0))' = lines'
          \/ Len(File(1))' >= LogMax /\ EndsAt(File(1)', lines' - Len(File(0))')
      BY <1>2, <1>5, <3>1, <3>2, <3>4 DEF NewestOK
    <3> QED
      BY <3>3, <3>5, <3>6 DEF NewestOK
  <2> QED
    BY <2>4, <2>6, <2>7 DEF LogInv
<1> QED
  BY <1>4, <1>5 DEF AppendLine

(* Every system call, and every interleaving of them, keeps the invariant.  *)
THEOREM LogInvariant == LogSpec => []LogInv
<1>1. LogInit => LogInv
  <2> SUFFICES ASSUME LogInit PROVE LogInv
    OBVIOUS
  <2>1. /\ Len(<< >>) = 0 /\ LogMax \in Nat \ {0} /\ Cardinality({}) = 0 /\ Cardinality(Sender) \in Nat
    BY EmptySeq, SenderLogAssumption, FS_EmptySet, Appenders
  <2>2. \A i \in 0 .. 2 : File(i) = << >>
    BY DEF LogInit, File, Lines
  <2>3. Appending = {} /\ LogTypeOK
    BY DEF LogInit, Appending, LogTypeOK, Steps
  <2>4. RoomOK
    BY <2>1, <2>2, <2>3 DEF RoomOK, Limit
  <2>5. NewestOK
    BY <2>1, <2>2 DEF LogInit, NewestOK, EndsAt
  <2> QED
    BY <2>3, <2>4, <2>5 DEF LogInv
<1>2. LogInv /\ [LogNext]_logVars => LogInv'
  <2> SUFFICES ASSUME LogInv, [LogNext]_logVars PROVE LogInv'
    OBVIOUS
  <2>1. CASE UNCHANGED logVars
    BY <2>1 DEF LogInv, LogTypeOK, RoomOK, NewestOK, EndsAt, File, Appending, Limit, logVars
  <2> QED
    BY <2>1, RecordKeeps, BackupsKept, RenameKeeps, AppendKeeps DEF LogNext
<1> QED
  BY <1>1, <1>2, PTL DEF LogSpec

(* A place in three files one after the other.                              *)
LEMMA Joined ==
  ASSUME NEW a \in Seq(Nat), NEW b \in Seq(Nat), NEW c \in Seq(Nat)
  PROVE  /\ \A i \in 1 .. Len(b) : Contains(a \o b \o c, b[i])
         /\ \A i \in 1 .. Len(c) : Contains(a \o b \o c, c[i])
<1> DEFINE d == a \o b
           e == d \o c
<1>1. /\ d \in Seq(Nat) /\ Len(d) = Len(a) + Len(b) /\ Len(a) \in Nat /\ Len(b) \in Nat /\ Len(c) \in Nat
      /\ \A i \in 1 .. Len(a) + Len(b) : d[i] = IF i <= Len(a) THEN a[i] ELSE b[i - Len(a)]
  BY ConcatProperties, LenProperties
<1>2. /\ Len(e) = Len(d) + Len(c)
      /\ \A i \in 1 .. Len(d) + Len(c) : e[i] = IF i <= Len(d) THEN d[i] ELSE c[i - Len(d)]
  BY <1>1, ConcatProperties, LenProperties
<1> HIDE DEF e, d
<1>3. ASSUME NEW i \in 1 .. Len(b) PROVE Contains(e, b[i])
  <2> DEFINE j == Len(a) + i
  <2>1. /\ j \in 1 .. Len(d) /\ j \in 1 .. Len(a) + Len(b) /\ j \in 1 .. Len(e) /\ j \in 1 .. Len(d) + Len(c)
        /\ ~(j <= Len(a)) /\ j <= Len(d) /\ j - Len(a) = i
    <3> DEFINE x == Len(a)
               y == Len(b)
               z == Len(c)
    <3>1. x \in Nat /\ y \in Nat /\ z \in Nat /\ i \in 1 .. y /\ j = x + i
      BY <1>1
    <3>2. Len(d) = x + y /\ Len(e) = (x + y) + z
      BY <1>1, <1>2
    <3> HIDE DEF x, y, z, j
    <3>3. /\ j \in 1 .. x + y /\ j \in 1 .. (x + y) + z /\ ~(j <= x) /\ j <= x + y /\ j - x = i
      BY <3>1
    <3> QED
      BY <3>2, <3>3 DEF x, y, z
  <2> HIDE DEF j
  <2>2. d[j] = b[i]
    BY <1>1, <2>1
  <2>3. e[j] = b[i]
    BY <1>2, <2>1, <2>2
  <2> QED
    BY <2>1, <2>3 DEF Contains
<1>4. ASSUME NEW i \in 1 .. Len(c) PROVE Contains(e, c[i])
  <2> DEFINE j == Len(d) + i
  <2>1. j \in 1 .. Len(e) /\ j \in 1 .. Len(d) + Len(c) /\ ~(j <= Len(d)) /\ j - Len(d) = i
    BY <1>1, <1>2
  <2> HIDE DEF j
  <2>2. e[j] = c[i]
    BY <1>2, <2>1
  <2> QED
    BY <2>1, <2>2 DEF Contains
<1> QED
  BY <1>3, <1>4 DEF d, e

(* Whatever fails, and however senders interleave, the files keep their      *)
(* limit; and while no sender renames under another, the newest lines are on *)
(* disk.                                                                     *)
THEOREM LogIsKept == LogSpec => []SenderLogKept
<1>1. LogInv => SenderLogKept
  <2> SUFFICES ASSUME LogInv PROVE SenderLogKept
    OBVIOUS
  <2>1. /\ \A i \in 0 .. 2 : File(i) \in Seq(Nat) /\ Len(File(i)) \in Nat
        /\ RoomOK /\ lines \in Nat /\ LogMax \in Nat
    BY FilesTyped, SenderLogAssumption DEF LogInv, LogTypeOK
  <2>2. Cardinality(Appending) \in Nat /\ Limit \in Int
    BY <2>1, Appenders, SenderLogAssumption DEF Appending, Limit
  <2>3. \A i \in 0 .. 2 : Len(Lines(logs[i])) <= LogMax + Cardinality(Sender) - 1
    BY <2>1, <2>2 DEF RoomOK, File, Limit
  <2>4. ASSUME ~raced, NEW n \in 0 .. LogMax - 1, n < lines PROVE Contains(Logged, lines - n)
    <3>1. NewestOK /\ Logged = File(2) \o File(1) \o File(0)
      BY <2>4 DEF LogInv, Logged, File
    <3> DEFINE l0 == Len(File(0))
               l1 == Len(File(1))
    <3>2. l0 \in Nat /\ l1 \in Nat /\ n \in Nat /\ n < LogMax /\ lines \in Nat /\ LogMax \in Nat
      BY <2>1, <2>4
    <3>3. CASE n < l0
      <4> DEFINE i == l0 - n
                 x == File(0)[i]
      <4>1. i \in 1 .. l0 /\ i \in Int
        BY <3>2, <3>3
      <4>2. x + l0 = lines + i
        BY <3>1, <4>1 DEF NewestOK, EndsAt
      <4>3. x \in Nat
        BY <2>1, <4>1, ElementOfSeq
      <4>4. x = lines - n
        <5> HIDE DEF x, l0
        <5> QED
          BY <3>2, <4>2, <4>3
      <4>5. Contains(Logged, x)
        BY <2>1, <3>1, <4>1, Joined
      <4> QED
        BY <4>4, <4>5
    <3>4. CASE n >= l0
      <4> DEFINE m == lines - l0
                 i == l1 - (n - l0)
                 x == File(1)[i]
      <4>1. l1 >= LogMax /\ EndsAt(File(1), m)
        BY <2>1, <2>4, <3>1, <3>4 DEF NewestOK
      <4>2. i \in 1 .. l1
        BY <3>2, <3>4, <4>1
      <4>3. x + l1 = m + i
        BY <4>1, <4>2 DEF EndsAt
      <4>4. x \in Nat
        BY <2>1, <4>2, ElementOfSeq
      <4>5. x = lines - n
        <5> HIDE DEF x, l0, l1
        <5> QED
          BY <3>2, <4>3, <4>4
      <4>6. Contains(Logged, x)
        BY <2>1, <3>1, <4>2, Joined
      <4> QED
        BY <4>5, <4>6
    <3> QED
      BY <3>2, <3>3, <3>4
  <2> QED
    BY <2>3, <2>4 DEF SenderLogKept
<1> QED
  BY <1>1, LogInvariant, PTL

-----------------------------------------------------------------------------
(* The receiver's log.                                                      *)

Entry == [key : AuditKey, at : Nat \ {0}, repeat : Nat, force : BOOLEAN]
LogFile == [open : BOOLEAN, size : Nat, cur : Seq(Nat), old : Seq(Nat), line : Nat]

AuditTypeOK ==
  /\ now \in Nat \ {0} /\ seen \in [AuditKey -> [count : Nat, last : Nat]]
  /\ entries \in Seq(Entry) /\ events \in [AuditKey -> Nat]
  /\ logFile \in LogFile /\ renames \in BOOLEAN

\* What a key has told, and what it holds back, is what occurred.
CountsOK ==
  \A k \in AuditKey : /\ IsFiniteSet(ToldOf(entries, k))
                      /\ Cardinality(ToldOf(entries, k)) + seen[k].count = events[k]

\* A key remembers the time of its last line.
TimesOK ==
  /\ \A k \in AuditKey : seen[k].last <= now
  /\ \A i \in 1 .. Len(entries) : entries[i].at <= seen[entries[i].key].last

Spaced(q) ==
  \A i, j \in 1 .. Len(q) :
    i < j /\ q[i].key = q[j].key /\ ~q[j].force => q[j].at - q[i].at >= Flush

\* The file ends with the newest line, and the one before it where the file begins; all
\* that was written is in them, or the older one was full.
FilesKept(f) ==
  /\ EndsAt(f.cur, f.line) /\ EndsAt(f.old, f.line - Len(f.cur))
  /\ Len(f.old) >= MaxBytes \/ Len(f.cur) + Len(f.old) = f.line

SizeOK(f) == f.open => f.size = Len(f.cur) /\ f.size <= MaxBytes

AuditInv ==
  /\ AuditTypeOK /\ CountsOK /\ TimesOK /\ Spaced(entries) /\ ring = Newest(entries)
  /\ SizeOK(logFile) /\ (renames => FilesKept(logFile))

(* One more at the end.                                                     *)
LEMMA OneMore ==
  ASSUME NEW S, NEW q \in Seq(S), NEW e \in S
  PROVE  /\ Append(q, e) \in Seq(S) /\ Len(Append(q, e)) = Len(q) + 1 /\ Len(q) \in Nat
         /\ \A i \in 1 .. Len(q) : Append(q, e)[i] = q[i] /\ q[i] \in S
         /\ Append(q, e)[Len(q) + 1] = e
         /\ DOMAIN q = 1 .. Len(q) /\ DOMAIN Append(q, e) = (1 .. Len(q)) \union {Len(q) + 1}
<1>1. /\ Append(q, e) \in Seq(S) /\ Len(Append(q, e)) = Len(q) + 1 /\ Len(q) \in Nat
      /\ \A i \in 1 .. Len(q) : Append(q, e)[i] = q[i]
      /\ Append(q, e)[Len(q) + 1] = e
  BY AppendProperties, LenProperties
<1>2. DOMAIN q = 1 .. Len(q) /\ DOMAIN Append(q, e) = 1 .. Len(q) + 1
  BY <1>1, LenProperties
<1>3. 1 .. Len(q) + 1 = (1 .. Len(q)) \union {Len(q) + 1}
  BY <1>1
<1>4. \A i \in 1 .. Len(q) : q[i] \in S
  BY ElementOfSeq
<1> QED
  BY <1>1, <1>2, <1>3, <1>4

(* A line of k tells of its repeats.                                        *)
LEMMA TellsMore ==
  ASSUME NEW q \in Seq(Entry), NEW e \in Entry, NEW k, IsFiniteSet(ToldOf(q, k))
  PROVE  /\ IsFiniteSet(ToldOf(Append(q, e), k))
         /\ Cardinality(ToldOf(Append(q, e), k))
              = Cardinality(ToldOf(q, k)) + (IF e.key = k THEN e.repeat ELSE 0)
         /\ Cardinality(ToldOf(q, k)) \in Nat
<1> DEFINE p == Append(q, e)
           n == Len(q)
           A == ToldOf(q, k)
           B == {n + 1} \X (1 .. e.repeat)
<1>1. /\ n \in Nat /\ \A i \in 1 .. n : p[i] = q[i]
      /\ p[n + 1] = e /\ DOMAIN q = 1 .. n /\ DOMAIN p = (1 .. n) \union {n + 1}
  BY OneMore
<1>2. Cardinality(A) \in Nat
  BY FS_CardinalityType
<1> HIDE DEF p, n
<1>3. {j \in DOMAIN p : p[j].key = k} = {j \in DOMAIN q : q[j].key = k} \union (IF e.key = k THEN {n + 1} ELSE {})
  BY <1>1
<1>4. \A j \in DOMAIN q : p[j] = q[j]
  BY <1>1
<1>5. ToldOf(p, k) = A \union (IF e.key = k THEN B ELSE {})
  <2>1. CASE e.key = k
    BY <1>1, <1>3, <1>4, <2>1 DEF ToldOf
  <2>2. CASE e.key # k
    BY <1>1, <1>3, <1>4, <2>2 DEF ToldOf
  <2> QED
    BY <2>1, <2>2
<1>6. CASE e.key # k
  <2>1. ToldOf(p, k) = A
    BY <1>5, <1>6
  <2> QED
    BY <1>2, <1>6, <2>1 DEF p
<1>7. CASE e.key = k
  <2>1. e.repeat \in Nat
    BY DEF Entry
  <2>2. IsFiniteSet(B) /\ Cardinality(B) = e.repeat
    <3>1. IsFiniteSet({n + 1}) /\ Cardinality({n + 1}) = 1
      BY FS_Singleton
    <3>2. IsFiniteSet(1 .. e.repeat) /\ Cardinality(1 .. e.repeat) = e.repeat
      <4> DEFINE m == e.repeat
      <4>1. m \in Nat
        BY <2>1
      <4> HIDE DEF m
      <4>2. IsFiniteSet(1 .. m) /\ Cardinality(1 .. m) = IF 1 > m THEN 0 ELSE m - 1 + 1
        BY <4>1, FS_Interval
      <4>3. Cardinality(1 .. m) = m
        BY <4>1, <4>2
      <4> QED
        BY <4>2, <4>3 DEF m
    <3>3. IsFiniteSet(B) /\ Cardinality(B) = Cardinality({n + 1}) * Cardinality(1 .. e.repeat)
      BY <3>1, <3>2, FS_Product, Zenon
    <3>4. 1 * e.repeat = e.repeat
      BY <2>1
    <3> QED
      BY <3>1, <3>2, <3>3, <3>4, Zenon
  <2>3. A \intersect B = {}
    BY <1>1 DEF ToldOf
  <2>4. Cardinality(A \intersect B) = 0
    BY <2>3, FS_EmptySet
  <2> HIDE DEF A, B
  <2>5. ToldOf(p, k) = A \union B
    BY <1>5, <1>7
  <2>6. IsFiniteSet(A \union B) /\ Cardinality(A \union B) = Cardinality(A) + Cardinality(B) - Cardinality(A \intersect B)
    BY <2>2, FS_Union, Zenon DEF A
  <2>7. Cardinality(A \union B) = Cardinality(A) + e.repeat
    BY <1>2, <2>1, <2>2, <2>4, <2>6
  <2> QED
    BY <1>2, <1>7, <2>5, <2>6, <2>7 DEF A, p
<1> QED
  BY <1>6, <1>7

(* The ring: the newest of the newest, and of what comes, are the newest.   *)
LEMMA NewestIs ==
  ASSUME NEW S, NEW q \in Seq(S)
  PROVE  LET m == IF Len(q) > RingMax THEN RingMax ELSE Len(q)
         IN  /\ Newest(q) \in Seq(S) /\ Len(Newest(q)) = m /\ m \in Nat
             /\ \A i \in 1 .. m : Newest(q)[i] = q[Len(q) - m + i]
<1> DEFINE n == Len(q)
           m == IF n > RingMax THEN RingMax ELSE n
           b == IF n > RingMax THEN n - RingMax + 1 ELSE 1
<1>1. n \in Nat /\ RingMax \in Nat \ {0} /\ \A i \in 1 .. n : q[i] \in S
  BY LenProperties, ElementOfSeq, AuditAssumption
<1>2. b \in Nat /\ b >= 1 /\ b = n - m + 1 /\ m \in Nat /\ m <= n
  BY <1>1
<1>3. Newest(q) = SubSeq(q, b, n)
  BY DEF Newest
<1> HIDE DEF b, m, n
<1>4. \A i \in b .. n : q[i] \in S
  BY <1>1, <1>2
<1>5. /\ SubSeq(q, b, n) \in Seq(S)
      /\ Len(SubSeq(q, b, n)) = IF b <= n THEN n - b + 1 ELSE 0
      /\ \A i \in 1 .. n - b + 1 : SubSeq(q, b, n)[i] = q[b + i - 1]
  BY <1>1, <1>2, <1>4, SubSeqProperties
<1>6. n - b + 1 = m /\ (b <= n \/ m = 0)
  BY <1>1, <1>2
<1>7. \A i \in 1 .. m : b + i - 1 = n - m + i
  BY <1>1, <1>2
<1> QED
  BY <1>2, <1>3, <1>5, <1>6, <1>7 DEF m, n

LEMMA NewestKept ==
  ASSUME NEW S, NEW q \in Seq(S), NEW e \in S
  PROVE  Newest(Append(Newest(q), e)) = Newest(Append(q, e))
<1> DEFINE r == Newest(q)
           p == Append(q, e)
           u == Append(r, e)
           M(n) == IF n > RingMax THEN RingMax ELSE n
<1>1. /\ r \in Seq(S) /\ Len(r) = M(Len(q)) /\ \A i \in 1 .. M(Len(q)) : r[i] = q[Len(q) - M(Len(q)) + i]
  BY NewestIs
<1>2. /\ p \in Seq(S) /\ Len(p) = Len(q) + 1 /\ Len(q) \in Nat /\ \A i \in 1 .. Len(q) : p[i] = q[i]
      /\ p[Len(q) + 1] = e
  BY OneMore
<1>3. /\ u \in Seq(S) /\ Len(u) = Len(r) + 1 /\ \A i \in 1 .. Len(r) : u[i] = r[i]
      /\ u[Len(r) + 1] = e
  BY <1>1, OneMore
<1>4. /\ Newest(p) \in Seq(S) /\ Len(Newest(p)) = M(Len(p)) /\ \A i \in 1 .. M(Len(p)) : Newest(p)[i] = p[Len(p) - M(Len(p)) + i]
  BY <1>2, NewestIs
<1>5. /\ Newest(u) \in Seq(S) /\ Len(Newest(u)) = M(Len(u)) /\ \A i \in 1 .. M(Len(u)) : Newest(u)[i] = u[Len(u) - M(Len(u)) + i]
  BY <1>3, NewestIs
<1>6. RingMax \in Nat \ {0}
  BY AuditAssumption
<1> DEFINE l == Len(q)
<1> HIDE DEF r, p, u
<1>7. M(Len(u)) = M(Len(p)) /\ M(Len(p)) \in Nat
  BY <1>1, <1>2, <1>3, <1>6
<1>8. ASSUME NEW i \in 1 .. M(Len(p)) PROVE Newest(p)[i] = Newest(u)[i]
  <2> DEFINE j == Len(p) - M(Len(p)) + i
             h == Len(u) - M(Len(u)) + i
  <2>1. j \in 1 .. l + 1 /\ h \in 1 .. Len(r) + 1 /\ j - l = h - Len(r) /\ Len(r) \in Nat /\ l \in Nat
        /\ Len(r) <= l
    <3> DEFINE a == Len(r)
               k == RingMax
    <3>1. l \in Nat /\ k \in Nat \ {0} /\ a = (IF l > k THEN k ELSE l) /\ Len(p) = l + 1 /\ Len(u) = a + 1
      BY <1>1, <1>2, <1>3, <1>6
    <3>2. i \in 1 .. (IF l + 1 > k THEN k ELSE l + 1)
      BY <1>8, <3>1
    <3>3. j = l + 1 - (IF l + 1 > k THEN k ELSE l + 1) + i /\ h = a + 1 - (IF a + 1 > k THEN k ELSE a + 1) + i
      BY <3>1
    <3> HIDE DEF a, k, l, j, h
    <3>4. CASE l >= k
      <4>1. a = k /\ i \in 1 .. k /\ j = l + 1 - k + i /\ h = 1 + i
        BY <3>1, <3>2, <3>3, <3>4
      <4> QED
        BY <3>1, <3>4, <4>1 DEF a
    <3>5. CASE l < k
      <4>1. a = l /\ i \in 1 .. l + 1 /\ j = i /\ h = i
        BY <3>1, <3>2, <3>3, <3>5
      <4> QED
        BY <3>1, <4>1 DEF a
    <3> QED
      BY <3>1, <3>4, <3>5
  <2>2. Newest(p)[i] = p[j] /\ Newest(u)[i] = u[h]
    BY <1>4, <1>5, <1>7, <1>8
  <2> HIDE DEF j, h
  <2>3. CASE j = l + 1
    BY <1>2, <1>3, <2>1, <2>2, <2>3
  <2>4. CASE j # l + 1
    <3>1. j \in 1 .. l /\ h \in 1 .. Len(r) /\ l - Len(r) + h = j
      BY <2>1, <2>4
    <3>2. r[h] = q[j]
      BY <1>1, <3>1
    <3> QED
      BY <1>2, <1>3, <2>2, <3>1, <3>2
  <2> QED
    BY <2>3, <2>4
<1> QED
  BY <1>4, <1>5, <1>7, <1>8, SeqEqual DEF p, u, r

(* A file gets the next line.                                               *)
LEMMA EndsOneLater ==
  ASSUME NEW n \in Nat, NEW q \in Seq(Nat), EndsAt(q, n)
  PROVE  EndsAt(Append(q, n + 1), n + 1)
<1> DEFINE p == Append(q, n + 1)
           l == Len(q)
<1>1. /\ Len(p) = l + 1 /\ l \in Nat /\ \A i \in 1 .. l : p[i] = q[i] /\ q[i] \in Nat
      /\ p[l + 1] = n + 1
  BY OneMore
<1>2. l <= n /\ \A i \in 1 .. l : q[i] + l = n + i
  BY DEF EndsAt
<1> HIDE DEF p, l
<1>3. ASSUME NEW i \in 1 .. Len(p) PROVE p[i] + Len(p) = (n + 1) + i
  <2>1. CASE i = l + 1
    BY <1>1, <2>1
  <2>2. CASE i # l + 1
    <3> DEFINE x == q[i]
    <3>1. i \in 1 .. l /\ p[i] = x /\ x \in Nat /\ x + l = n + i
      BY <1>1, <1>2, <2>2
    <3> HIDE DEF x
    <3> QED
      BY <1>1, <3>1
  <2> QED
    BY <2>1, <2>2
<1>4. Len(p) <= n + 1
  BY <1>1, <1>2
<1> QED
  BY <1>3, <1>4 DEF EndsAt, p

(* emitLocked: whatever fails, the files stay within their size, and while  *)
(* renames succeed the newest lines stay on disk.                           *)
LEMMA LineWritten ==
  ASSUME NEW f \in LogFile, f.open => f.size = Len(f.cur), renames \in BOOLEAN, renames => FilesKept(f),
         WriteLine(f)
  PROVE  /\ logFile' \in LogFile /\ SizeOK(logFile') /\ renames' \in BOOLEAN
         /\ renames' => FilesKept(logFile')
<1> DEFINE w == [f EXCEPT !.line = @ + 1, !.cur = Append(@, f.line + 1), !.size = @ + 1]
           n == f.line + 1
           q == Append(f.cur, n)
<1>1. /\ f.open \in BOOLEAN /\ f.size \in Nat /\ f.cur \in Seq(Nat) /\ f.old \in Seq(Nat) /\ f.line \in Nat
      /\ Len(f.cur) \in Nat /\ Len(f.old) \in Nat
  BY LenProperties DEF LogFile
<1>2. n \in Nat /\ f.size + 1 \in Nat /\ q \in Seq(Nat) /\ Len(q) = Len(f.cur) + 1
  <2>1. n \in Nat /\ f.size + 1 \in Nat
    BY <1>1
  <2> HIDE DEF n
  <2> QED
    BY <1>1, <2>1, OneMore
<1>3. EndsAt(f.cur, f.line) => EndsAt(q, n)
  BY <1>1, EndsOneLater
<1> HIDE DEF n, q
<1>4. /\ w \in LogFile /\ w.open = f.open /\ w.size = f.size + 1 /\ w.cur = q /\ w.old = f.old /\ w.line = n
  <2>1. w = [f EXCEPT !.line = n, !.cur = q, !.size = f.size + 1]
    BY DEF n, q
  <2> HIDE DEF w
  <2> DEFINE m == f.size + 1
  <2>2. m \in Nat /\ w = [f EXCEPT !.line = n, !.cur = q, !.size = m]
    BY <1>2, <2>1
  <2> HIDE DEF m
  <2>3. w \in LogFile /\ w.open = f.open /\ w.size = m /\ w.cur = q /\ w.old = f.old /\ w.line = n
    BY <1>2, <2>2 DEF LogFile
  <2> QED
    BY <2>3 DEF m
<1>5. FilesKept(f) => FilesKept(w)
  <2> DEFINE a == Len(f.cur)
             b == Len(f.old)
             g == f.line
             l == Len(q)
  <2>0. a \in Nat /\ b \in Nat /\ g \in Nat /\ l = a + 1 /\ n = g + 1
    BY <1>1, <1>2 DEF n
  <2> HIDE DEF a, b, g, l
  <2>1. n - l = g - a
    BY <2>0
  <2>2. a + b = g => l + b = n
    BY <2>0
  <2> QED
    BY <1>3, <1>4, <2>1, <2>2 DEF FilesKept, a, b, g, l
<1>6. f.open => w.size = Len(w.cur)
  BY <1>1, <1>2, <1>4
<1>7. WriteLine(f) =>
         \/ logFile' = [f EXCEPT !.open = FALSE] /\ UNCHANGED renames
         \/ f.open /\ w.size <= MaxBytes /\ logFile' = w /\ UNCHANGED renames
         \/ f.open /\ w.size > MaxBytes /\ Rotate(w)
  BY DEF WriteLine
<1> HIDE DEF w
<1>8. CASE logFile' = [f EXCEPT !.open = FALSE] /\ UNCHANGED renames
  <2>1. /\ logFile' \in LogFile /\ logFile'.open = FALSE /\ logFile'.cur = f.cur /\ logFile'.old = f.old
        /\ logFile'.line = f.line
    BY <1>8 DEF LogFile
  <2> QED
    BY <1>8, <2>1 DEF SizeOK, FilesKept
<1>9. CASE f.open /\ w.size <= MaxBytes /\ logFile' = w /\ UNCHANGED renames
  BY <1>4, <1>5, <1>6, <1>9 DEF SizeOK
<1>10. CASE f.open /\ w.size > MaxBytes /\ Rotate(w)
  <2>1. PICK renamed \in BOOLEAN, opened \in BOOLEAN :
          /\ logFile' = [w EXCEPT !.open = opened,
                                  !.size = IF opened THEN 0 ELSE @,
                                  !.cur = IF opened \/ renamed THEN << >> ELSE @,
                                  !.old = IF renamed THEN TakesOver(w) ELSE @]
          /\ renames' = (renames /\ renamed)
    BY <1>10 DEF Rotate
  <2>2. << >> \in Seq(Nat) /\ Len(<< >>) = 0 /\ MaxBytes \in Nat
    BY EmptySeq, AuditAssumption
  <2>3. /\ logFile' \in LogFile /\ logFile'.open = opened /\ logFile'.line = n
        /\ opened => logFile'.size = 0
        /\ logFile'.cur = IF opened \/ renamed THEN << >> ELSE q
        /\ renamed => logFile'.old = q
    BY <1>2, <1>4, <2>1, <2>2 DEF LogFile, TakesOver
  <2>4. SizeOK(logFile')
    BY <2>2, <2>3 DEF SizeOK
  <2>5. renames' \in BOOLEAN /\ (renames' => renames /\ renamed)
    BY <2>1
  <2>6. ASSUME renames' PROVE FilesKept(logFile')
    <3>1. EndsAt(q, n) /\ n \in Nat
      BY <1>2, <1>4, <1>5, <2>5, <2>6 DEF FilesKept
    <3>2. logFile'.cur = << >> /\ logFile'.old = q /\ logFile'.line = n
      BY <2>3, <2>5, <2>6
    <3>3. EndsAt(<< >>, n)
      BY <2>2, <3>1 DEF EndsAt
    <3>4. n - Len(<< >>) = n
      BY <2>2, <3>1
    <3>5. Len(q) >= MaxBytes
      BY <1>1, <1>2, <1>4, <1>6, <1>10, <2>2
    <3> QED
      BY <3>1, <3>2, <3>3, <3>4, <3>5 DEF FilesKept
  <2> QED
    BY <2>3, <2>4, <2>5, <2>6
<1> QED
  BY <1>7, <1>8, <1>9, <1>10

(* What Note and OpenAudit have in common: a line of k.                     *)
LEMMA Emitted ==
  ASSUME NEW f \in LogFile, f.open => f.size = Len(f.cur), renames \in BOOLEAN, renames => FilesKept(f),
         NEW q \in Seq(Entry), NEW k \in AuditKey, NEW n \in Nat, NEW force \in BOOLEAN, now \in Nat \ {0},
         Emit(f, k, n, force, Newest(q), q)
  PROVE  LET e == [key |-> k, at |-> now, repeat |-> n, force |-> force]
         IN  /\ e \in Entry /\ entries' = Append(q, e) /\ entries' \in Seq(Entry) /\ ring' = Newest(entries')
             /\ logFile' \in LogFile /\ SizeOK(logFile') /\ renames' \in BOOLEAN
             /\ renames' => FilesKept(logFile')
<1> DEFINE e == [key |-> k, at |-> now, repeat |-> n, force |-> force]
<1>1. e \in Entry
  BY DEF Entry
<1>2. ring' = Newest(Append(Newest(q), e)) /\ entries' = Append(q, e) /\ WriteLine(f)
  BY DEF Emit
<1> HIDE DEF e
<1>3. ring' = Newest(entries') /\ entries' \in Seq(Entry)
  BY <1>1, <1>2, NewestKept, OneMore
<1>4. /\ logFile' \in LogFile /\ SizeOK(logFile') /\ renames' \in BOOLEAN
      /\ renames' => FilesKept(logFile')
  BY <1>2, LineWritten
<1> QED
  BY <1>1, <1>2, <1>3, <1>4 DEF e

(* A line comes Flush after the one before it of its key, or is forced.     *)
LEMMA StaysSpaced ==
  ASSUME NEW q \in Seq(Entry), Spaced(q), NEW e \in Entry,
         ~e.force => \A i \in 1 .. Len(q) : q[i].key = e.key => e.at - q[i].at >= Flush
  PROVE  Spaced(Append(q, e))
<1> DEFINE p == Append(q, e)
           l == Len(q)
<1>1. /\ Len(p) = l + 1 /\ l \in Nat /\ \A i \in 1 .. l : p[i] = q[i]
      /\ p[l + 1] = e
  BY OneMore
<1> HIDE DEF p
<1>2. ASSUME NEW i \in 1 .. Len(p), NEW j \in 1 .. Len(p), i < j, p[i].key = p[j].key, ~p[j].force
      PROVE  p[j].at - p[i].at >= Flush
  <2>1. i \in 1 .. l /\ (j \in 1 .. l \/ j = l + 1)
    BY <1>1, <1>2
  <2> HIDE DEF l
  <2>2. CASE j \in 1 .. l
    <3>1. p[i] = q[i] /\ p[j] = q[j]
      BY <1>1, <2>1, <2>2
    <3> QED
      BY <1>2, <2>1, <2>2, <3>1 DEF Spaced, l
  <2>3. CASE j = l + 1
    <3>1. p[i] = q[i] /\ p[j] = e
      BY <1>1, <2>1, <2>3
    <3> QED
      BY <1>2, <2>1, <3>1 DEF l
  <2> QED
    BY <2>1, <2>2, <2>3
<1> QED
  BY <1>2 DEF Spaced, p

(* note.                                                                    *)
LEMMA NoteKeeps ==
  ASSUME AuditInv, NEW k \in AuditKey, NEW force \in BOOLEAN, Note(k, force)
  PROVE  AuditInv'
<1> DEFINE c == seen[k].count + 1
           last == seen[k].last
           n == [seen[k] EXCEPT !.count = @ + 1]
<1>1. /\ now \in Nat \ {0} /\ seen \in [AuditKey -> [count : Nat, last : Nat]]
      /\ entries \in Seq(Entry) /\ events \in [AuditKey -> Nat]
      /\ logFile \in LogFile /\ renames \in BOOLEAN
      /\ ring = Newest(entries) /\ SizeOK(logFile) /\ (renames => FilesKept(logFile)) /\ Spaced(entries)
  BY DEF AuditInv, AuditTypeOK
<1>2. /\ seen[k] \in [count : Nat, last : Nat] /\ seen[k].count \in Nat /\ last \in Nat /\ c \in Nat
      /\ events[k] \in Nat
  BY <1>1
<1>3. n \in [count : Nat, last : Nat] /\ n.count = c /\ n.last = last
  <2> HIDE DEF c, last
  <2>1. n = [seen[k] EXCEPT !.count = c]
    BY DEF c
  <2> QED
    BY <1>2, <2>1 DEF last
<1>4. events' = [events EXCEPT ![k] = @ + 1] /\ now' = now
  BY DEF Note
<1>5. /\ events' \in [AuditKey -> Nat] /\ events'[k] = events[k] + 1
      /\ \A j \in AuditKey : j # k => events'[j] = events[j]
  BY <1>1, <1>4
<1>6. /\ \A j \in AuditKey : /\ IsFiniteSet(ToldOf(entries, j)) /\ Cardinality(ToldOf(entries, j)) \in Nat
                             /\ Cardinality(ToldOf(entries, j)) + seen[j].count = events[j]
                             /\ seen[j].count \in Nat /\ seen[j].last \in Nat /\ seen[j].last <= now
      /\ \A i \in 1 .. Len(entries) : entries[i].at <= seen[entries[i].key].last /\ entries[i] \in Entry
  BY <1>1, ElementOfSeq, FS_CardinalityType DEF AuditInv, CountsOK, TimesOK
<1>7. CASE ~force /\ Folded(n)
  <2>1. seen' = [seen EXCEPT ![k] = n] /\ UNCHANGED <<ring, logFile, entries, renames>>
    BY <1>7 DEF Note
  <2> HIDE DEF n, c, last
  <2>2. /\ seen' \in [AuditKey -> [count : Nat, last : Nat]] /\ seen'[k] = n
        /\ \A j \in AuditKey : j # k => seen'[j] = seen[j]
    BY <1>1, <1>3, <2>1
  <2>3. AuditTypeOK'
    BY <1>1, <1>4, <1>5, <2>1, <2>2 DEF AuditTypeOK
  <2>4. ASSUME NEW j \in AuditKey
        PROVE  IsFiniteSet(ToldOf(entries, j)) /\ Cardinality(ToldOf(entries, j)) + seen'[j].count = events'[j]
    <3>1. CASE j = k
      <4> DEFINE a == Cardinality(ToldOf(entries, k))
                 b == seen[k].count
                 m == events[k]
      <4>1. a \in Nat /\ b \in Nat /\ m \in Nat /\ a + b = m
        BY <1>2, <1>6
      <4>2. seen'[k].count = b + 1 /\ events'[k] = m + 1
        BY <1>3, <1>5, <2>2 DEF c
      <4> HIDE DEF a, b, m
      <4>3. a + (b + 1) = m + 1
        BY <4>1
      <4> QED
        BY <1>6, <3>1, <4>2, <4>3 DEF a
    <3>2. CASE j # k
      BY <1>5, <1>6, <2>2, <3>2
    <3> QED
      BY <3>1, <3>2
  <2>5. CountsOK'
    BY <2>1, <2>4 DEF CountsOK, ToldOf
  <2>6. \A j \in AuditKey : seen'[j].last = seen[j].last
    BY <1>3, <2>2 DEF last
  <2>7. TimesOK'
    BY <1>4, <1>6, <2>1, <2>6 DEF TimesOK, Entry
  <2> QED
    BY <1>1, <2>1, <2>3, <2>5, <2>7 DEF AuditInv, Spaced, Newest, SizeOK, FilesKept, EndsAt
<1>8. CASE ~(~force /\ Folded(n))
  <2> DEFINE s == [count |-> 0, last |-> now]
             e == [key |-> k, at |-> now, repeat |-> c, force |-> force]
  <2>1. seen' = [seen EXCEPT ![k] = s] /\ Emit(logFile, k, c, force, Newest(entries), entries)
    BY <1>1, <1>3, <1>8 DEF Note, Told
  <2>2. SizeOK(logFile) => (logFile.open => logFile.size = Len(logFile.cur))
    BY DEF SizeOK
  <2>3. /\ e \in Entry /\ entries' = Append(entries, e) /\ entries' \in Seq(Entry) /\ ring' = Newest(entries')
        /\ logFile' \in LogFile /\ SizeOK(logFile') /\ renames' \in BOOLEAN
        /\ renames' => FilesKept(logFile')
    <3> HIDE DEF c
    <3> QED
      BY <1>1, <1>2, <2>1, <2>2, Emitted
  <2>4. /\ seen' \in [AuditKey -> [count : Nat, last : Nat]] /\ seen'[k].count = 0 /\ seen'[k].last = now
        /\ \A j \in AuditKey : j # k => seen'[j] = seen[j]
    BY <1>1, <2>1
  <2>5. AuditTypeOK'
    BY <1>1, <1>4, <1>5, <2>3, <2>4 DEF AuditTypeOK
  <2>6. e.key = k /\ e.at = now /\ e.repeat = c /\ e.force = force
    OBVIOUS
  <2> HIDE DEF e, s
  <2>7. ASSUME NEW j \in AuditKey
        PROVE  IsFiniteSet(ToldOf(entries', j)) /\ Cardinality(ToldOf(entries', j)) + seen'[j].count = events'[j]
    <3>1. /\ IsFiniteSet(ToldOf(entries', j))
          /\ Cardinality(ToldOf(entries', j)) = Cardinality(ToldOf(entries, j)) + (IF k = j THEN c ELSE 0)
      <4>1. e \in Entry /\ entries \in Seq(Entry) /\ IsFiniteSet(ToldOf(entries, j)) /\ entries' = Append(entries, e)
        BY <1>1, <1>6, <2>3
      <4> HIDE DEF c
      <4>2. /\ IsFiniteSet(ToldOf(entries', j))
            /\ Cardinality(ToldOf(entries', j))
                 = Cardinality(ToldOf(entries, j)) + (IF e.key = j THEN e.repeat ELSE 0)
        BY <4>1, TellsMore
      <4> QED
        BY <2>6, <4>2
    <3>2. CASE j = k
      <4> DEFINE a == Cardinality(ToldOf(entries, k))
                 b == seen[k].count
                 m == events[k]
      <4>1. a \in Nat /\ b \in Nat /\ m \in Nat /\ a + b = m /\ c = b + 1
        BY <1>2, <1>6
      <4>2. seen'[k].count = 0 /\ events'[k] = m + 1 /\ Cardinality(ToldOf(entries', j)) = a + c
        BY <1>5, <2>4, <3>1, <3>2
      <4> HIDE DEF a, b, m, c
      <4>3. (a + c) + 0 = m + 1
        BY <4>1
      <4> QED
        BY <3>1, <3>2, <4>2, <4>3
    <3>3. CASE j # k
      <4>1. Cardinality(ToldOf(entries', j)) = Cardinality(ToldOf(entries, j))
        BY <1>6, <3>1, <3>3
      <4> QED
        BY <1>5, <1>6, <2>4, <3>1, <3>3, <4>1
    <3> QED
      BY <3>2, <3>3
  <2>8. CountsOK'
    BY <2>7 DEF CountsOK, ToldOf
  <2>9. TimesOK'
    <3>1. \A j \in AuditKey : seen'[j].last <= now /\ seen[j].last <= seen'[j].last
      <4>1. ASSUME NEW j \in AuditKey PROVE seen'[j].last <= now /\ seen[j].last <= seen'[j].last
        <5> DEFINE a == seen[j].last
                   b == seen'[j].last
        <5>1. a \in Nat /\ a <= now /\ now \in Nat
          BY <1>1, <1>6
        <5>2. b = a \/ b = now
          BY <2>4
        <5> HIDE DEF a, b
        <5>3. b <= now /\ a <= b
          BY <5>1, <5>2
        <5> QED
          BY <5>3 DEF a, b
      <4> QED
        BY <4>1
    <3>2. /\ Len(entries') = Len(entries) + 1 /\ Len(entries) \in Nat /\ \A i \in 1 .. Len(entries) : entries'[i] = entries[i]
          /\ entries'[Len(entries) + 1] = e
      BY <1>1, <2>3, OneMore
    <3>3. ASSUME NEW i \in 1 .. Len(entries') PROVE entries'[i].at <= seen'[entries'[i].key].last
      <4>1. CASE i \in 1 .. Len(entries)
        <5> DEFINE x == entries[i]
        <5>1. x.at \in Nat /\ x.key \in AuditKey /\ x.at <= seen[x.key].last /\ entries'[i] = x
          BY <1>6, <3>2, <4>1 DEF Entry
        <5>2. seen[x.key].last \in Nat /\ seen'[x.key].last \in Nat /\ seen[x.key].last <= seen'[x.key].last
          BY <1>6, <2>4, <3>1, <5>1
        <5> HIDE DEF x
        <5> QED
          BY <5>1, <5>2
      <4>2. CASE i = Len(entries) + 1
        BY <1>1, <2>4, <2>6, <3>2, <4>2
      <4> QED
        BY <3>2, <4>1, <4>2
    <3> QED
      BY <1>4, <3>1, <3>3 DEF TimesOK
  <2>10. Spaced(entries')
    <3>1. ASSUME ~force, NEW i \in 1 .. Len(entries), entries[i].key = k PROVE now - entries[i].at >= Flush
      <4> DEFINE a == entries[i].at
      <4>1. a \in Nat \ {0} /\ a <= last /\ last \in Nat /\ now \in Nat /\ Flush \in Nat
        BY <1>1, <1>2, <1>6, <3>1, AuditAssumption DEF Entry
      <4>2. ~(last # 0 /\ now - last < Flush)
        BY <1>3, <1>8, <3>1 DEF Folded
      <4> HIDE DEF a, last
      <4>3. now - a >= Flush
        BY <4>1, <4>2
      <4> QED
        BY <4>3 DEF a
    <3> QED
      BY <1>1, <2>3, <2>6, <3>1, StaysSpaced
  <2> QED
    BY <2>3, <2>5, <2>8, <2>9, <2>10 DEF AuditInv, Spaced, Newest, SizeOK, FilesKept, EndsAt
<1> QED
  BY <1>7, <1>8

(* A new receiver, on the files that are there.                             *)
LEMMA StartKeeps ==
  ASSUME AuditInv, StartAudit(logFile), UNCHANGED now
  PROVE  AuditInv'
<1> DEFINE s == [k \in AuditKey |-> IF k = AppStart THEN [count |-> 0, last |-> now] ELSE [count |-> 0, last |-> 0]]
           e == [key |-> AppStart, at |-> now, repeat |-> 1, force |-> TRUE]
<1>1. /\ now \in Nat \ {0} /\ logFile \in LogFile /\ renames \in BOOLEAN /\ (renames => FilesKept(logFile))
      /\ AppStart \in AuditKey
  BY AuditAssumption DEF AuditInv, AuditTypeOK
<1>2. PICK opened \in BOOLEAN :
        Emit([logFile EXCEPT !.open = opened, !.size = IF opened THEN Len(logFile.cur) ELSE 0],
             AppStart, 1, TRUE, << >>, << >>)
  BY DEF StartAudit
<1> DEFINE f == [logFile EXCEPT !.open = opened, !.size = IF opened THEN Len(logFile.cur) ELSE 0]
<1>3. /\ f \in LogFile /\ f.open = opened /\ f.cur = logFile.cur /\ f.old = logFile.old /\ f.line = logFile.line
      /\ f.open => f.size = Len(f.cur)
  <2>1. Len(logFile.cur) \in Nat
    BY <1>1, LenProperties DEF LogFile
  <2> QED
    BY <1>1, <2>1 DEF LogFile
<1> HIDE DEF f
<1>4. FilesKept(logFile) => FilesKept(f)
  BY <1>3 DEF FilesKept
<1>5. << >> \in Seq(Entry) /\ Len(<< >>) = 0 /\ Newest(<< >>) = << >>
  <2>1. << >> \in Seq(Entry) /\ Len(<< >>) = 0
    BY EmptySeq
  <2>2. RingMax \in Nat
    BY AuditAssumption
  <2>3. Newest(<< >>) = SubSeq(<< >>, 1, 0)
    BY <2>1, <2>2 DEF Newest
  <2> QED
    BY <2>1, <2>3, SubSeqEmpty
<1>6. /\ e \in Entry /\ entries' = Append(<< >>, e) /\ entries' \in Seq(Entry) /\ ring' = Newest(entries')
      /\ logFile' \in LogFile /\ SizeOK(logFile') /\ renames' \in BOOLEAN
      /\ renames' => FilesKept(logFile')
  <2>1. Emit(f, AppStart, 1, TRUE, Newest(<< >>), << >>)
    BY <1>2, <1>5 DEF f
  <2> QED
    BY <1>1, <1>3, <1>4, <1>5, <2>1, Emitted
<1>7. Len(entries') = 1 /\ entries'[1] = e
  BY <1>5, <1>6, OneMore
<1>8. e.key = AppStart /\ e.at = now /\ e.repeat = 1 /\ e.force
  OBVIOUS
<1> HIDE DEF e
<1>9. seen' = s /\ events' = [k \in AuditKey |-> IF k = AppStart THEN 1 ELSE 0]
  BY DEF StartAudit
<1>10. /\ \A k \in AuditKey : /\ seen'[k].count = 0 /\ seen'[k].last = (IF k = AppStart THEN now ELSE 0)
                              /\ events'[k] = IF k = AppStart THEN 1 ELSE 0
       /\ seen' \in [AuditKey -> [count : Nat, last : Nat]] /\ events' \in [AuditKey -> Nat]
  BY <1>1, <1>9
<1>11. AuditTypeOK'
  BY <1>1, <1>6, <1>10 DEF AuditTypeOK
<1>12. CountsOK'
  <2>1. ASSUME NEW k \in AuditKey
        PROVE  IsFiniteSet(ToldOf(entries', k)) /\ Cardinality(ToldOf(entries', k)) + seen'[k].count = events'[k]
    <3>1. ToldOf(<< >>, k) = {} /\ IsFiniteSet({}) /\ Cardinality({}) = 0
      BY FS_EmptySet DEF ToldOf
    <3>2. /\ IsFiniteSet(ToldOf(entries', k))
          /\ Cardinality(ToldOf(entries', k))
               = Cardinality(ToldOf(<< >>, k)) + (IF e.key = k THEN e.repeat ELSE 0)
      <4>1. e \in Entry /\ << >> \in Seq(Entry) /\ IsFiniteSet(ToldOf(<< >>, k)) /\ entries' = Append(<< >>, e)
        BY <1>5, <1>6, <3>1
      <4> QED
        BY <4>1, TellsMore
    <3>3. Cardinality(ToldOf(entries', k)) = IF AppStart = k THEN 1 ELSE 0
      <4>1. Cardinality(ToldOf(<< >>, k)) = 0
        BY <3>1
      <4>2. (IF e.key = k THEN e.repeat ELSE 0) = IF AppStart = k THEN 1 ELSE 0
        BY <1>8
      <4> DEFINE x == Cardinality(ToldOf(entries', k))
                 y == IF AppStart = k THEN 1 ELSE 0
      <4>3. x = 0 + y
        BY <3>2, <4>1, <4>2
      <4>4. y \in Nat
        OBVIOUS
      <4> HIDE DEF x, y
      <4>5. x = y
        BY <4>3, <4>4
      <4> QED
        BY <4>5 DEF x, y
    <3>4. seen'[k].count = 0 /\ events'[k] = IF k = AppStart THEN 1 ELSE 0
      BY <1>10
    <3> QED
      BY <3>2, <3>3, <3>4
  <2> QED
    BY <2>1 DEF CountsOK, ToldOf
<1>13. TimesOK'
  BY <1>1, <1>7, <1>8, <1>10 DEF TimesOK
<1>14. Spaced(entries')
  BY <1>7 DEF Spaced
<1> QED
  BY <1>6, <1>11, <1>12, <1>13, <1>14 DEF AuditInv, Spaced, Newest, SizeOK, FilesKept, EndsAt

(* Every call, and the time between calls.                                  *)
THEOREM AuditInvariant == AuditSpec => []AuditInv
<1>1. AuditInit => AuditInv
  <2> SUFFICES ASSUME AuditInit PROVE AuditInv
    OBVIOUS
  <2>1. << >> \in Seq(Entry) /\ << >> \in Seq(Nat) /\ Len(<< >>) = 0 /\ RingMax \in Nat
    BY EmptySeq, AuditAssumption
  <2>2. Newest(<< >>) = << >>
    <3>1. Newest(<< >>) = SubSeq(<< >>, 1, 0)
      BY <2>1 DEF Newest
    <3> QED
      BY <3>1, SubSeqEmpty
  <2>3. NoLog \in LogFile /\ SizeOK(NoLog) /\ FilesKept(NoLog)
    BY <2>1 DEF NoLog, LogFile, SizeOK, FilesKept, EndsAt
  <2>4. \A k \in AuditKey : ToldOf(<< >>, k) = {} /\ IsFiniteSet({}) /\ Cardinality({}) = 0
    BY FS_EmptySet DEF ToldOf
  <2>5. AuditTypeOK
    BY <2>1, <2>3 DEF AuditInit, AuditTypeOK
  <2>6. CountsOK /\ TimesOK /\ Spaced(entries)
    BY <2>1, <2>4 DEF AuditInit, CountsOK, TimesOK, Spaced
  <2> QED
    BY <2>2, <2>3, <2>5, <2>6 DEF AuditInit, AuditInv
<1>2. AuditInv /\ [AuditNext]_auditVars => AuditInv'
  <2> SUFFICES ASSUME AuditInv, [AuditNext]_auditVars PROVE AuditInv'
    OBVIOUS
  <2>1. CASE Occurs
    BY <2>1, NoteKeeps DEF Occurs
  <2>2. CASE Restart
    BY <2>2, StartKeeps DEF Restart
  <2>3. CASE CloseAudit
    <3>1. /\ logFile' = [logFile EXCEPT !.open = FALSE]
          /\ UNCHANGED <<now, seen, ring, entries, events, renames>>
      BY <2>3 DEF CloseAudit
    <3>2. /\ logFile' \in LogFile /\ logFile'.open = FALSE /\ logFile'.cur = logFile.cur
          /\ logFile'.old = logFile.old /\ logFile'.line = logFile.line
      BY <3>1 DEF AuditInv, AuditTypeOK, LogFile
    <3>3. AuditTypeOK'
      BY <3>1, <3>2 DEF AuditInv, AuditTypeOK
    <3>4. CountsOK' /\ TimesOK' /\ Spaced(entries)' /\ (ring = Newest(entries))'
      BY <3>1 DEF AuditInv, CountsOK, ToldOf, TimesOK, Spaced, Newest
    <3>5. SizeOK(logFile)' /\ (renames => FilesKept(logFile))'
      BY <3>1, <3>2 DEF AuditInv, SizeOK, FilesKept, EndsAt
    <3> QED
      BY <3>3, <3>4, <3>5 DEF AuditInv
  <2>4. CASE TimePasses \/ UNCHANGED auditVars
    <3>1. UNCHANGED <<seen, ring, logFile, entries, events, renames>> /\ (now' = now + 1 \/ now' = now)
      BY <2>4 DEF TimePasses, auditVars
    <3>2. now' \in Nat \ {0} /\ \A k \in AuditKey : seen[k].last <= now'
      BY <3>1 DEF AuditInv, AuditTypeOK, TimesOK
    <3>3. AuditTypeOK'
      BY <3>1, <3>2 DEF AuditInv, AuditTypeOK
    <3>4. CountsOK' /\ TimesOK' /\ Spaced(entries)' /\ (ring = Newest(entries))'
      BY <3>1, <3>2 DEF AuditInv, CountsOK, ToldOf, TimesOK, Spaced, Newest
    <3>5. SizeOK(logFile)' /\ (renames => FilesKept(logFile))'
      BY <3>1 DEF AuditInv, SizeOK, FilesKept, EndsAt
    <3> QED
      BY <3>3, <3>4, <3>5 DEF AuditInv
  <2> QED
    BY <2>1, <2>2, <2>3, <2>4 DEF AuditNext
<1> QED
  BY <1>1, <1>2, PTL DEF AuditSpec

(* Two files, the one ending where the other begins, end as one.            *)
LEMMA EndTogether ==
  ASSUME NEW g \in Nat, NEW a \in Seq(Nat), NEW b \in Seq(Nat), EndsAt(b, g), EndsAt(a, g - Len(b))
  PROVE  a \o b \in Seq(Nat) /\ Len(a \o b) = Len(a) + Len(b) /\ EndsAt(a \o b, g)
<1> DEFINE d == a \o b
           l == Len(a)
           m == Len(b)
<1>1. /\ d \in Seq(Nat) /\ Len(d) = l + m /\ l \in Nat /\ m \in Nat
      /\ \A i \in 1 .. l + m : d[i] = IF i <= l THEN a[i] ELSE b[i - l]
  BY ConcatProperties, LenProperties
<1>2. /\ m <= g /\ l <= g - m
      /\ \A i \in 1 .. m : b[i] \in Nat /\ b[i] + m = g + i
      /\ \A i \in 1 .. l : a[i] \in Nat /\ a[i] + l = (g - m) + i
  BY ElementOfSeq DEF EndsAt
<1> HIDE DEF d, l, m
<1>3. ASSUME NEW i \in 1 .. l + m PROVE d[i] + (l + m) = g + i
  <2>1. CASE i <= l
    <3> DEFINE x == a[i]
    <3>1. i \in 1 .. l /\ d[i] = x /\ x \in Nat /\ x + l = (g - m) + i
      BY <1>1, <1>2, <2>1
    <3> HIDE DEF x
    <3> QED
      BY <1>1, <3>1
  <2>2. CASE ~(i <= l)
    <3> DEFINE j == i - l
               x == b[j]
    <3>1. j \in 1 .. m /\ j = i - l
      BY <1>1, <2>2
    <3>2. d[i] = x
      BY <1>1, <2>2
    <3> HIDE DEF j
    <3>3. x \in Nat /\ x + m = g + j
      BY <1>2, <3>1
    <3> HIDE DEF x
    <3> QED
      BY <1>1, <3>1, <3>2, <3>3
  <2> QED
    BY <2>1, <2>2
<1>4. l + m <= g
  BY <1>1, <1>2
<1> QED
  BY <1>1, <1>3, <1>4 DEF EndsAt, d, l, m

(* The newest lines are on disk, in order, whatever failed but a rename.    *)
LEMMA NewestOnDisk ==
  ASSUME AuditInv, renames
  PROVE  RotationPreserves /\ \A i \in 2 .. Len(OnDisk) : OnDisk[i] = OnDisk[i-1] + 1
<1> DEFINE g == logFile.line
           l == Len(OnDisk)
<1>1. g \in Nat /\ logFile.cur \in Seq(Nat) /\ logFile.old \in Seq(Nat) /\ FilesKept(logFile)
  BY DEF AuditInv, AuditTypeOK, LogFile
<1>2. OnDisk \in Seq(Nat) /\ l = Len(logFile.old) + Len(logFile.cur) /\ EndsAt(OnDisk, g)
  BY <1>1, EndTogether DEF FilesKept, OnDisk
<1>3. l \in Nat /\ (l >= MaxBytes \/ l = g) /\ MaxBytes \in Nat
  <2> DEFINE a == Len(logFile.old)
             b == Len(logFile.cur)
             x == l
  <2>1. a \in Nat /\ b \in Nat /\ MaxBytes \in Nat /\ x = a + b /\ (a >= MaxBytes \/ b + a = g)
    BY <1>1, <1>2, LenProperties, AuditAssumption DEF FilesKept
  <2> HIDE DEF a, b, x, g
  <2>2. x \in Nat /\ (x >= MaxBytes \/ x = g)
    BY <2>1
  <2> QED
    BY <2>1, <2>2 DEF x
<1>4. \A i \in 1 .. l : OnDisk[i] \in Nat /\ OnDisk[i] + l = g + i
  BY <1>2, ElementOfSeq DEF EndsAt
<1> HIDE DEF g, l
<1>5. RotationPreserves
  <2> SUFFICES ASSUME NEW n \in 1 .. MaxBytes, n <= g PROVE Contains(OnDisk, g + 1 - n)
    BY DEF RotationPreserves, g
  <2> DEFINE i == l + 1 - n
             x == OnDisk[i]
  <2>1. i \in 1 .. l /\ i = l + 1 - n
    BY <1>1, <1>3
  <2> HIDE DEF i
  <2>2. x \in Nat /\ x + l = g + i
    BY <1>4, <2>1
  <2> HIDE DEF x
  <2>3. x = g + 1 - n
    BY <1>1, <1>3, <2>1, <2>2
  <2> QED
    BY <2>1, <2>3 DEF Contains, x, l
<1>6. ASSUME NEW i \in 2 .. l PROVE OnDisk[i] = OnDisk[i-1] + 1
  <2> DEFINE x == OnDisk[i]
             j == i - 1
             y == OnDisk[j]
  <2>1. i \in 1 .. l /\ j \in 1 .. l /\ j = i - 1
    BY <1>3
  <2> HIDE DEF j
  <2>2. x \in Nat /\ y \in Nat /\ x + l = g + i /\ y + l = g + j
    BY <1>4, <2>1
  <2> HIDE DEF x, y
  <2>3. x = y + 1
    BY <1>1, <1>3, <2>1, <2>2
  <2> QED
    BY <2>3 DEF x, y, j
<1> QED
  BY <1>5, <1>6 DEF l

(* The log accounts for every event, keeps its samples apart, and its       *)
(* newest lines in the ring and on disk, within the bounds.                 *)
THEOREM AuditIsKept == AuditSpec => []AuditKept
<1>1. AuditInv => AuditKept
  <2> SUFFICES ASSUME AuditInv PROVE AuditKept
    OBVIOUS
  <2>1. DOMAIN entries = 1 .. Len(entries)
    BY LenProperties DEF AuditInv, AuditTypeOK
  <2>2. \A k \in AuditKey : Cardinality(ToldOf(entries, k)) + seen[k].count = events[k]
    BY DEF AuditInv, CountsOK
  <2>3. \A i, j \in DOMAIN entries :
          i < j /\ entries[i].key = entries[j].key /\ ~entries[j].force
            => entries[j].at - entries[i].at >= Flush
    BY <2>1 DEF AuditInv, Spaced
  <2>4. logFile.open => logFile.size = Len(logFile.cur) /\ logFile.size <= MaxBytes
    BY DEF AuditInv, SizeOK
  <2> QED
    BY <2>2, <2>3, <2>4, NewestOnDisk DEF AuditInv, AuditKept
<1> QED
  BY <1>1, AuditInvariant, PTL
=============================================================================
