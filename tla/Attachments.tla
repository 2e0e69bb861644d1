---------------------------- MODULE Attachments ----------------------------
(***************************************************************************)
(* Documents and images of one task: a row in SQLite and a file on disk,    *)
(* which the handlers write in steps of their own.  A request is followed   *)
(* call by call; requests of different callers interleave between calls,    *)
(* any file operation or event insert may fail, the server may die between  *)
(* any two steps, and the task may be deleted under a request.              *)
(*                                                                          *)
(* Contents stand for whole files.  Every write brings a content of its     *)
(* own, so that a file tells whose content it holds; the number of contents *)
(* bounds the number of writes.  An image is never updated.  Left out:      *)
(* names, MIME types, sizes, and the list of attachments in a task, which   *)
(* is a read of the rows.                                                   *)
(***************************************************************************)
CONSTANTS
    Callers,     \* clients, each with at most one request in flight
    Documents,   \* document ids that can ever be minted
    Images,      \* image ids that can ever be minted
    Contents,    \* contents that can ever be sent
    Titles,      \* document titles; an image's file name is one of them
    Missing,     \* there is no file
    Partial,     \* a file whose writing was cut short
    None         \* no row; a field that is not given

Ids == Documents \cup Images

ASSUME ConstantsAssumption ==
    /\ Documents \cap Images = {}
    /\ Titles # {} /\ Ids # {}
    /\ Ids \cap Contents = {}
    /\ Missing \notin Contents \cup {Partial, None}
    /\ Partial \notin Contents \cup {None}
    /\ None \notin Contents \cup Titles

VARIABLES
    live,        \* the task has a row
    unborn,      \* ids not minted yet
    unused,      \* contents not sent yet
    row,         \* row[d]: the title in the row of d, or None
    file,        \* file[d]: what is at the storage path of d
    temps,       \* temporary files, by the content they were opened for
    req,         \* req[c]: the request caller c has in flight
    answered,    \* answered[d]: contents whose request succeeded (history)
    stale,       \* contents refused, or overwritten by an answered request (history)
    unrecorded,  \* attachments whose creation failed at the history event (history)
    abandoned    \* ids and temporary files that a crash, a failed call or an
                 \* update overtaken by a delete may leave (history)

vars == <<live, unborn, unused, row, file, temps, req, answered, stale, unrecorded, abandoned>>
disk == <<file, temps>>
history == <<answered, stale, unrecorded, abandoned>>

-----------------------------------------------------------------------------
(* Requests.                                                               *)

Creating == {"task", "save", "fill", "insert", "added", "undo"}
Updating == {"find", "temp", "before", "load", "write", "updated", "commit", "reread", "drop"}
Deleting == {"seek", "remove", "removed", "unlink"}
Reading == {"look", "open"}

(* Creations whose row is not inserted yet.                                *)
Begun == {"task", "save", "fill", "insert"}
Steps == {"idle"} \cup Creating \cup Updating \cup Deleting \cup Reading

(* at: the next call; content, title: as sent; loaded: the title the    *)
(* last read of the row showed; overtaken: the title was written since;     *)
(* known: what was answered before the request came.                       *)
Request == [at: Steps, id: Ids, content: Contents \cup {None}, title: Titles \cup {None},
            loaded: Titles \cup {None}, overtaken: BOOLEAN, known: SUBSET Contents]

NoRequest == [at |-> "idle", id |-> CHOOSE d \in Ids : TRUE, content |-> None, title |-> None,
              loaded |-> None, overtaken |-> FALSE, known |-> {}]

(* The type invariant: every variable stays in its domain (the columns of  *)
(* task_docs and task_images, and the steps of the attachment handlers).   *)
TypeOK ==
    /\ live \in BOOLEAN
    /\ unborn \subseteq Ids
    /\ unused \subseteq Contents
    /\ row \in [Ids -> Titles \cup {None}]
    /\ file \in [Ids -> Contents \cup {Missing, Partial}]
    /\ temps \subseteq Contents
    /\ req \in [Callers -> Request]
    /\ answered \in [Ids -> SUBSET Contents]
    /\ stale \subseteq Contents
    /\ unrecorded \subseteq Ids
    /\ abandoned \subseteq Ids \cup Contents

Init ==
    /\ live = TRUE
    /\ unborn = Ids
    /\ unused = Contents
    /\ row = [d \in Ids |-> None]
    /\ file = [d \in Ids |-> Missing]
    /\ temps = {}
    /\ req = [c \in Callers |-> NoRequest]
    /\ answered = [d \in Ids |-> {}]
    /\ stale = {}
    /\ unrecorded = {}
    /\ abandoned = {}

Start(c, r) ==
    /\ req[c].at = "idle"
    /\ r.content \in unused \cup {None}
    /\ unused' = unused \ {r.content}
    /\ req' = [req EXCEPT ![c] = r]
    /\ UNCHANGED <<live, row, disk, history>>

(* A fresh id; the title of a document is required.                        *)
StartCreate(c, d, x, t) ==
    /\ d \in unborn
    /\ unborn' = unborn \ {d}
    /\ Start(c, [NoRequest EXCEPT !.at = "task", !.id = d, !.content = x, !.title = t])

StartUpdate(c, d, x, t) ==
    /\ Start(c, [NoRequest EXCEPT !.at = "find", !.id = d, !.content = x, !.title = t,
                                  !.known = IF x = None THEN {} ELSE answered[d]])
    /\ UNCHANGED unborn

StartDelete(c, d) ==
    /\ Start(c, [NoRequest EXCEPT !.at = "seek", !.id = d])
    /\ UNCHANGED unborn

StartRead(c, d) ==
    /\ Start(c, [NoRequest EXCEPT !.at = "look", !.id = d])
    /\ UNCHANGED unborn

Goes(c, step) == req' = [req EXCEPT ![c].at = step]

(* An answer with success: what was answered before the request came and   *)
(* the request replaced is stale from now on.                              *)
Succeed(c) ==
    /\ req' = [req EXCEPT ![c] = NoRequest]
    /\ answered' = [answered EXCEPT ![req[c].id] = @ \cup ({req[c].content} \ {None})]
    /\ stale' = IF req[c].content = None THEN stale ELSE stale \cup req[c].known

(* An answer with an error: the content was not accepted.                  *)
Refuse(c) ==
    /\ req' = [req EXCEPT ![c] = NoRequest]
    /\ stale' = stale \cup ({req[c].content} \ {None})
    /\ UNCHANGED answered

Answer(c) ==
    /\ req' = [req EXCEPT ![c] = NoRequest]
    /\ UNCHANGED <<answered, stale>>

-----------------------------------------------------------------------------
(* Creating: createDoc and uploadImage.                                    *)

FindTask(c) ==
    /\ req[c].at = "task"
    /\ IF live THEN Goes(c, "save") /\ UNCHANGED <<answered, stale>> ELSE Refuse(c)
    /\ UNCHANGED <<row, disk, unrecorded, abandoned>>

Save(c) ==
    /\ req[c].at = "save"
    /\ \/ /\ file' = [file EXCEPT ![req[c].id] = Partial]
          /\ Goes(c, "fill")
          /\ UNCHANGED <<answered, stale>>
       \/ /\ Refuse(c)
          /\ UNCHANGED file
    /\ UNCHANGED <<row, temps, unrecorded, abandoned>>

(* A write that fails half way: SaveImage removes the file, SaveDoc leaves *)
(* it, and so does a removal that fails as well.                           *)
Fill(c) ==
    LET d == req[c].id IN
    /\ req[c].at = "fill"
    /\ \/ /\ file' = [file EXCEPT ![d] = req[c].content]
          /\ Goes(c, "insert")
          /\ UNCHANGED <<answered, stale, abandoned>>
       \/ /\ d \in Images
          /\ file' = [file EXCEPT ![d] = Missing]
          /\ Refuse(c)
          /\ UNCHANGED abandoned
       \/ /\ abandoned' = abandoned \cup {d}
          /\ Refuse(c)
          /\ UNCHANGED file
    /\ UNCHANGED <<row, temps, unrecorded>>

(* The foreign key rejects a row of a task that has been deleted.          *)
Insert(c) ==
    /\ req[c].at = "insert"
    /\ IF live
       THEN row' = [row EXCEPT ![req[c].id] = req[c].title] /\ Goes(c, "added")
       ELSE Goes(c, "undo") /\ UNCHANGED row
    /\ UNCHANGED <<disk, history>>

(* The event of the creation; when it fails the row stays.                 *)
RecordAdded(c) ==
    /\ req[c].at = "added"
    /\ \/ Succeed(c) /\ UNCHANGED unrecorded
       \/ /\ unrecorded' = unrecorded \cup {req[c].id}
          /\ Goes(c, "undo")
          /\ UNCHANGED <<answered, stale>>
    /\ UNCHANGED <<row, disk, abandoned>>

(* The handler removes the file of a creation that failed, if it can.      *)
Undo(c) ==
    LET d == req[c].id IN
    /\ req[c].at = "undo"
    /\ \/ file' = [file EXCEPT ![d] = Missing] /\ UNCHANGED abandoned
       \/ abandoned' = abandoned \cup {d} /\ UNCHANGED file
    /\ Refuse(c)
    /\ UNCHANGED <<row, temps, unrecorded>>

-----------------------------------------------------------------------------
(* Updating: updateDoc.                                                    *)

FindDocAndWrite(c) ==
    /\ req[c].at = "find"
    /\ IF row[req[c].id] = None THEN Refuse(c)
       ELSE Goes(c, "temp") /\ UNCHANGED <<answered, stale>>
    /\ UNCHANGED <<row, disk, unrecorded, abandoned>>

FindDoc(c) ==
    /\ req[c].at = "find"
    /\ IF row[req[c].id] = None THEN Refuse(c)
       ELSE /\ Goes(c, IF req[c].content = None THEN "before" ELSE "temp")
            /\ UNCHANGED <<answered, stale>>
    /\ UNCHANGED <<row, disk, unrecorded, abandoned>>

WriteInPlace(c) ==
    /\ req[c].at = "temp"
    /\ file' = [file EXCEPT ![req[c].id] = req[c].content]
    /\ temps' = temps \cup {req[c].content}
    /\ Goes(c, "before")
    /\ UNCHANGED <<row, history>>

(* A temporary file that cannot be completed is removed, if it can be.     *)
WriteTemp(c) ==
    LET x == req[c].content IN
    /\ req[c].at = "temp"
    /\ \/ temps' = temps \cup {x} /\ Goes(c, "before") /\ UNCHANGED <<answered, stale, abandoned>>
       \/ Refuse(c) /\ UNCHANGED <<temps, abandoned>>
       \/ Refuse(c) /\ temps' = temps \cup {x} /\ abandoned' = abandoned \cup {x}
    /\ UNCHANGED <<row, file, unrecorded>>

(* The update fails: the temporary file goes, if there is one.             *)
Fail(c) ==
    IF req[c].content = None THEN Refuse(c) ELSE Goes(c, "drop") /\ UNCHANGED <<answered, stale>>

(* The service reads the row for the event, the store reads it again.      *)
ReadBefore(c) ==
    /\ req[c].at = "before"
    /\ IF row[req[c].id] = None THEN Fail(c)
       ELSE /\ req' = [req EXCEPT ![c].at = "load", ![c].loaded = row[req[c].id]]
            /\ UNCHANGED <<answered, stale>>
    /\ UNCHANGED <<row, disk, unrecorded, abandoned>>

LoadOnce(c) ==
    /\ req[c].at = "load"
    /\ IF row[req[c].id] = None THEN Fail(c)
       ELSE /\ req' = [req EXCEPT ![c].at = "write", ![c].overtaken = FALSE]
            /\ UNCHANGED <<answered, stale>>
    /\ UNCHANGED <<row, disk, unrecorded, abandoned>>

Load(c) ==
    LET d == req[c].id IN
    /\ req[c].at = "load"
    /\ IF row[d] = None THEN Fail(c)
       ELSE /\ req' = [req EXCEPT ![c].at = "write", ![c].loaded = row[d], ![c].overtaken = FALSE]
            /\ UNCHANGED <<answered, stale>>
    /\ UNCHANGED <<row, disk, unrecorded, abandoned>>

Retitled(c) == IF req[c].title = None THEN req[c].loaded ELSE req[c].title

(* The UPDATE writes a title in any case, and is content with a row that   *)
(* is gone.                                                                *)
WriteRow(c) ==
    LET d == req[c].id IN
    /\ req[c].at = "write"
    /\ row' = IF row[d] = None THEN row ELSE [row EXCEPT ![d] = Retitled(c)]
    /\ req' = [b \in Callers |->
                 IF b = c THEN [req[b] EXCEPT !.at = "updated", !.title = None, !.loaded = None,
                                              !.overtaken = FALSE]
                 ELSE [req[b] EXCEPT !.overtaken = @ \/ (req[b].at = "write" /\ req[b].id = d)]]
    /\ UNCHANGED <<disk, history>>

RecordUpdated(c) ==
    /\ req[c].at = "updated"
    /\ \/ /\ Goes(c, IF req[c].content = None THEN "reread" ELSE "commit")
          /\ UNCHANGED <<answered, stale>>
       \/ Fail(c)
    /\ UNCHANGED <<row, disk, unrecorded, abandoned>>

(* The rename replaces the file at once, whether or not the row is there.  *)
Commit(c) ==
    LET d == req[c].id
        x == req[c].content IN
    /\ req[c].at = "commit"
    /\ \/ /\ file' = [file EXCEPT ![d] = x] /\ temps' = temps \ {x}
          /\ Succeed(c)
          /\ UNCHANGED abandoned
       \/ /\ temps' = temps \ {x}
          /\ Refuse(c)
          /\ UNCHANGED <<file, abandoned>>
       \/ /\ abandoned' = abandoned \cup {x}
          /\ Refuse(c)
          /\ UNCHANGED disk
    /\ UNCHANGED <<row, unrecorded>>

(* An update of the title alone answers with the file as it is.            *)
Reread(c) ==
    /\ req[c].at = "reread"
    /\ Answer(c)
    /\ UNCHANGED <<row, disk, unrecorded, abandoned>>

DropNothing(c) ==
    /\ req[c].at = "drop"
    /\ Refuse(c)
    /\ UNCHANGED <<row, disk, unrecorded, abandoned>>

Drop(c) ==
    LET x == req[c].content IN
    /\ req[c].at = "drop"
    /\ \/ temps' = temps \ {x} /\ UNCHANGED abandoned
       \/ abandoned' = abandoned \cup {x} /\ UNCHANGED temps
    /\ Refuse(c)
    /\ UNCHANGED <<row, file, unrecorded>>

-----------------------------------------------------------------------------
(* Deleting: deleteDoc and deleteImage; the whole task.                    *)

Seek(c) ==
    /\ req[c].at = "seek"
    /\ IF row[req[c].id] = None THEN Answer(c) ELSE Goes(c, "remove") /\ UNCHANGED <<answered, stale>>
    /\ UNCHANGED <<row, disk, unrecorded, abandoned>>

(* Updates of d that will put a file in place without looking at the row.  *)
Overtaken(d) ==
    \E c \in Callers : req[c].id = d /\ req[c].content # None /\ req[c].at \in {"write", "updated", "commit"}

UnlinkFirst(c) ==
    LET d == req[c].id IN
    /\ req[c].at = "remove"
    /\ file' = [file EXCEPT ![d] = Missing]
    /\ UNCHANGED <<row, temps, history>>
    /\ req' = [req EXCEPT ![c].at = "removed"]

Remove(c) ==
    LET d == req[c].id IN
    /\ req[c].at = "remove"
    /\ IF row[d] = None THEN Answer(c) /\ UNCHANGED <<row, abandoned>>
       ELSE /\ row' = [row EXCEPT ![d] = None]
            /\ abandoned' = IF Overtaken(d) THEN abandoned \cup {d} ELSE abandoned
            /\ Goes(c, "removed")
            /\ UNCHANGED <<answered, stale>>
    /\ UNCHANGED <<disk, unrecorded>>

KeepFile(c) ==
    /\ req[c].at = "removed"
    /\ Answer(c)
    /\ UNCHANGED <<row, disk, unrecorded, abandoned>>

(* When the event fails the row is gone and the file stays.                *)
RecordRemoved(c) ==
    /\ req[c].at = "removed"
    /\ \/ Goes(c, "unlink") /\ UNCHANGED <<answered, stale, abandoned>>
       \/ Answer(c) /\ abandoned' = abandoned \cup {req[c].id}
    /\ UNCHANGED <<row, disk, unrecorded>>

(* The answer is the same whether or not the file could be removed.        *)
Unlink(c) ==
    LET d == req[c].id IN
    /\ req[c].at = "unlink"
    /\ \/ file' = [file EXCEPT ![d] = Missing] /\ UNCHANGED abandoned
       \/ abandoned' = abandoned \cup {d} /\ UNCHANGED file
    /\ Answer(c)
    /\ UNCHANGED <<row, temps, unrecorded>>

(* The rows go with the task, the files stay.                              *)
DeleteTask ==
    /\ live
    /\ live' = FALSE
    /\ row' = [d \in Ids |-> None]
    /\ abandoned' = abandoned \cup {d \in Ids : row[d] # None}
    /\ UNCHANGED <<unborn, unused, disk, req, answered, stale, unrecorded>>

-----------------------------------------------------------------------------
(* Reading: getDoc, getDocContent and getImage.                            *)

Look(c) ==
    /\ req[c].at = "look"
    /\ IF row[req[c].id] = None THEN Answer(c) ELSE Goes(c, "open") /\ UNCHANGED <<answered, stale>>
    /\ UNCHANGED <<row, disk, unrecorded, abandoned>>

Open(c) ==
    /\ req[c].at = "open"
    /\ Answer(c)
    /\ UNCHANGED <<row, disk, unrecorded, abandoned>>

-----------------------------------------------------------------------------
(* The server dies and is started again: no request survives.  A creation  *)
(* or deletion under way may leave its file, an update its temporary file. *)
Crash ==
    /\ \E c \in Callers : req[c].at # "idle"
    /\ req' = [c \in Callers |-> NoRequest]
    /\ abandoned' = abandoned \cup temps
          \cup {req[c].id : c \in {b \in Callers : req[b].at \in {"fill", "insert", "undo", "removed", "unlink"}}}
    /\ UNCHANGED <<live, unborn, unused, row, disk, answered, stale, unrecorded>>

Advance(c) ==
    /\ \/ FindTask(c) \/ Save(c) \/ Fill(c) \/ Insert(c) \/ RecordAdded(c) \/ Undo(c)
       \/ FindDoc(c) \/ WriteTemp(c) \/ ReadBefore(c) \/ Load(c) \/ WriteRow(c)
       \/ RecordUpdated(c) \/ Commit(c) \/ Reread(c) \/ Drop(c)
       \/ Seek(c) \/ Remove(c) \/ RecordRemoved(c) \/ Unlink(c)
       \/ Look(c) \/ Open(c)
    /\ UNCHANGED <<live, unborn, unused>>

Next ==
    \/ \E c \in Callers, d \in Ids, x \in Contents, t \in Titles : StartCreate(c, d, x, t)
    \/ \E c \in Callers, d \in Documents, x \in Contents \cup {None}, t \in Titles \cup {None} :
          StartUpdate(c, d, x, t)
    \/ \E c \in Callers, d \in Ids : StartDelete(c, d) \/ StartRead(c, d)
    \/ \E c \in Callers : Advance(c)
    \/ DeleteTask
    \/ Crash

Spec == Init /\ [][Next]_vars

-----------------------------------------------------------------------------
(* Properties.                                                             *)

(* What is listed can be read: a row has a whole file behind it, whatever  *)
(* fails, races or dies, except for an attachment whose creation failed at *)
(* the history event, when the handler removes the file and not the row.   *)
ListedIsWhole ==
    \A d \in Ids : row[d] # None /\ d \notin unrecorded => file[d] \in Contents

(* A document never shows content that was refused, nor goes back to       *)
(* content that was answered before an answered update came: the rename    *)
(* comes last in updateDoc and nothing after it can fail.                  *)
ShownIsCurrent ==
    \A d \in Ids : row[d] # None /\ d \notin unrecorded => file[d] \notin stale

(* A file without a row is still being worked on, or it was left by a      *)
(* crash, a failed call, the deletion of the task or an update that a      *)
(* delete overtook: an undisturbed deletion leaves no file behind.         *)
OrphansExplained ==
    \A d \in Ids :
        file[d] # Missing /\ row[d] = None =>
            \/ d \in abandoned
            \/ \E c \in Callers : req[c].id = d /\ req[c].at \in Creating \cup Deleting

(* A temporary file belongs to an update under way, or was left by a crash *)
(* or a removal that failed: every other way out of updateDoc clears it.   *)
TempsCollected ==
    \A x \in temps :
        x \in abandoned \/ \E c \in Callers : req[c].content = x /\ req[c].at \in Updating

(* An update that gives no title writes the title its store call read; it  *)
(* undoes a retitling only if that came between this read and this write.  *)
RetitlingKept ==
    [][\A c \in Callers :
          LET d == req[c].id IN
          WriteRow(c) /\ req[c].title = None /\ ~req[c].overtaken => row'[d] = row[d]]_vars

(* The refinement mapping: what the rows and files amount to.  A creation    *)
(* whose row is there is decided, whatever its event and its answer say.   *)
Shown == [d \in Ids |-> IF row[d] = None \/ d \in unrecorded THEN None ELSE file[d]]
Fresh == unborn \cup {req[c].id : c \in {b \in Callers : req[b].at \in Begun}}
Pending == (unused \cup {req[c].content : c \in {b \in Callers : req[b].at \notin {"added", "undo"}}}) \ {None}

Store == INSTANCE AttachmentStore WITH shown <- Shown, fresh <- Fresh, pending <- Pending

(* Rows and files written in steps of their own show a reader no more than  *)
(* a store of registers would: contents change in one step, each is shown  *)
(* at most once, and what is replaced or deleted does not come back.       *)
ImplementsStore == Store!Spec
=============================================================================
