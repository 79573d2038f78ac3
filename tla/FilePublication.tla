--------------------------- MODULE FilePublication ---------------------------
(***************************************************************************)
(* How received files reach the disk (writeToDisk, uniquePath, writeAtomic *)
(* of internal/scanner).  Several receivers may save into one directory:   *)
(* their savers look for a free name, write a temporary file beside it,    *)
(* and publish that under the name.  The user saves a result over any file *)
(* (SaveResult, or the window's dialog, which writes in place), and deletes *)
(* files.  A receiver may die at any point.                                *)
(*                                                                         *)
(* All transfers have the same name; Name lists what it may become:        *)
(* "a.txt", "a (2).txt", ..., and last the name with the time in it, which *)
(* is taken without looking.  Content is who wrote it, or Part of it.      *)
(***************************************************************************)
EXTENDS Naturals

CONSTANTS
  Saver,       \* receivers, each with the one goroutine that saves
  Names,       \* how many names there are: the last one is the time stamp
  User, None

ASSUME PublicationAssumption ==
  /\ Names \in Nat \ {0}
  /\ User \notin Saver /\ None \notin Saver \union {User}
  /\ "part" \notin Saver \union {User, None}

Name == 1 .. Names
Writer == Saver \union {User}
Part == "part"

VARIABLES
  file,        \* the directory: the content under each name, or None
  temp,        \* the temporary file of each writer: its content, or None
  pc, path,    \* where each writer is, and the name it works on (1 when it is not at work)
  saved,       \* the name a saver reported, or None
  touched      \* the names the user has changed anything under (history)

pubVars == <<file, temp, pc, path, saved, touched>>

PubInit ==
  /\ file = [n \in Name |-> None] /\ touched = {} /\ temp = [w \in Writer |-> None]
  /\ pc = [w \in Writer |-> "idle"] /\ path = [w \in Writer |-> 1]
  /\ saved = [s \in Saver |-> None]

To(w, where) == pc' = [pc EXCEPT ![w] = where]

-----------------------------------------------------------------------------
(* writeToDisk and uniquePath.                                              *)

\* MkdirAll may fail.
BeginSave(s) ==
  /\ pc[s] = "idle"
  /\ To(s, "probe") \/ To(s, "failed")
  /\ UNCHANGED <<file, temp, path, saved, touched>>

\* One os.Stat: the name is free, or the next one is looked at.
Probe(s) ==
  /\ pc[s] = "probe"
  /\ IF file[path[s]] = None \/ path[s] = Names
     THEN To(s, "create") /\ UNCHANGED path
     ELSE path' = [path EXCEPT ![s] = @ + 1] /\ UNCHANGED pc
  /\ UNCHANGED <<file, temp, saved, touched>>

\* The name was taken meanwhile: writeToDisk looks again, up to 1000 times.
TryAgain(s) == To(s, "probe") \/ To(s, "failed")

\* The user chooses a file, for SaveResult or for the window's dialog.
BeginSaveAs ==
  /\ pc[User] = "idle"
  /\ \E n \in Name : path' = [path EXCEPT ![User] = n]
  /\ To(User, "create") \/ To(User, "open")
  /\ UNCHANGED <<file, temp, saved, touched>>

-----------------------------------------------------------------------------
(* writeAtomic.  Every return removes the temporary file (os.Remove is taken *)
(* to succeed).                                                             *)

Create(w) ==
  /\ pc[w] = "create"
  /\ \/ temp' = [temp EXCEPT ![w] = Part] /\ To(w, "write")
     \/ UNCHANGED temp /\ To(w, "remove")
  /\ UNCHANGED <<file, path, saved, touched>>

\* A bug to be caught: a temporary file is published with what it holds.
SyncedOrNot(w) == To(w, "publish")
Synced(w) == To(w, IF temp'[w] = Part THEN "remove" ELSE "publish")

\* Write, Sync, Close and Chmod, any of which may fail.
WriteTemp(w) ==
  /\ pc[w] = "write"
  /\ \/ temp' = [temp EXCEPT ![w] = w]
     \/ UNCHANGED temp
  /\ Synced(w) /\ UNCHANGED <<file, path, saved, touched>>

\* A bug to be caught: os.Rename, which replaces what is there.
TakesAnyName(n) == TRUE
TakesName(n) == file[n] = None

\* The temporary file becomes the file (Windows), or is linked to it (elsewhere).
Moved(w) == temp' \in {temp, [temp EXCEPT ![w] = None]}

\* publishExclusive: the name appears with all of its content, or not at all.
PublishExclusive(s) ==
  /\ pc[s] = "publish"
  /\ \/ /\ TakesName(path[s])
        /\ file' = [file EXCEPT ![path[s]] = temp[s]] /\ Moved(s)
        /\ To(s, "published") /\ UNCHANGED path
     \/ /\ ~TakesName(path[s])                      \* os.ErrExist
        /\ temp' = [temp EXCEPT ![s] = None] /\ TryAgain(s)
        /\ path' = [path EXCEPT ![s] = 1] /\ UNCHANGED file
     \/ /\ To(s, "remove") /\ UNCHANGED <<file, temp, path>>
  /\ UNCHANGED <<saved, touched>>

\* os.Rename, in one step, also over an existing file.
PublishOver ==
  /\ pc[User] = "publish"
  /\ \/ /\ file' = [file EXCEPT ![path[User]] = temp[User]]
        /\ temp' = [temp EXCEPT ![User] = None] /\ To(User, "idle")
        /\ touched' = touched \union {path[User]} /\ path' = [path EXCEPT ![User] = 1]
     \/ To(User, "remove") /\ UNCHANGED <<file, temp, touched, path>>
  /\ UNCHANGED <<saved>>

\* saveRegionAs of the window: os.WriteFile empties the file, then fills it.
WriteInPlace ==
  /\ \/ /\ pc[User] = "open" /\ file' = [file EXCEPT ![path[User]] = Part]
        /\ To(User, "fill") /\ UNCHANGED path
     \/ /\ pc[User] = "fill" /\ To(User, "idle") /\ path' = [path EXCEPT ![User] = 1]
        /\ file' = [file EXCEPT ![path[User]] = User] \/ UNCHANGED file
  /\ touched' = touched \union {path[User]} /\ UNCHANGED <<temp, saved>>

Removed(w) == temp' = [temp EXCEPT ![w] = None]

\* The deferred os.Remove, then the return.
Return(w) ==
  /\ pc[w] \in {"published", "remove"} /\ Removed(w)
  /\ To(w, IF w = User THEN "idle" ELSE IF pc[w] = "published" THEN "done" ELSE "failed")
  /\ saved' = IF pc[w] = "published" THEN [saved EXCEPT ![w] = path[w]] ELSE saved
  /\ path' = [path EXCEPT ![w] = 1] /\ UNCHANGED <<file, touched>>

-----------------------------------------------------------------------------
(* The rest of the world.                                                   *)

Delete ==
  /\ \E n \in Name : /\ file[n] # None /\ file' = [file EXCEPT ![n] = None]
                     /\ touched' = touched \union {n}
  /\ UNCHANGED <<temp, pc, path, saved>>

Ended(w) == pc[w] \in {"idle", "done", "failed", "dead"}

\* The process of a receiver dies, and its temporary file stays (without one, the
\* others cannot tell it from a receiver that failed).
Die(s) ==
  /\ pc[s] \in {"write", "publish", "published"} /\ To(s, "dead") /\ path' = [path EXCEPT ![s] = 1]
  /\ UNCHANGED <<file, temp, saved, touched>>

WriteAtomic(w) == Create(w) \/ WriteTemp(w) \/ Return(w)
Save(s) == BeginSave(s) \/ Probe(s) \/ WriteAtomic(s) \/ PublishExclusive(s)
SaveAs == BeginSaveAs \/ WriteAtomic(User) \/ PublishOver \/ WriteInPlace
PubNext == (\E s \in Saver : Save(s) \/ Die(s)) \/ SaveAs \/ Delete

PubSpec == PubInit /\ [][PubNext]_pubVars

-----------------------------------------------------------------------------
\* What OnSaved tells the user is there, whole, until the user changes it: no
\* receiver that takes the same name, fails, or dies at any point puts anything
\* else, or part of a file, under a name.  And only a receiver that died or is at
\* work leaves a temporary file in the user's directory.
SavedIsThere ==
  /\ \A s \in Saver : saved[s] # None /\ saved[s] \notin touched => file[saved[s]] = s
  /\ \A n \in Name \ touched : file[n] \in Saver \union {None}
  /\ \A w \in Writer : temp[w] # None => ~Ended(w) \/ pc[w] = "dead"

\* A receiver never replaces a file, not even one that another receiver or the
\* user creates between uniquePath's look and the publication ("non-clobbering
\* name").
NeverReplaces ==
  [][\A n \in Name : file[n] # None /\ file'[n] \in Saver => file'[n] = file[n]]_file
=============================================================================
