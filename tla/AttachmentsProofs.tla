------------------------- MODULE AttachmentsProofs -------------------------
(* Proofs about Attachments for any callers, documents, images, contents and *)
(* titles.                                                                 *)
EXTENDS Attachments, TLAPS

-----------------------------------------------------------------------------
(* The inductive invariant.                                                *)

Placing == {"write", "updated", "commit"}
Found == {"temp", "before", "load", "remove", "removed", "unlink"} \cup Placing
Leaving == {"fill", "insert", "undo", "removed", "unlink"}

(* What a request carries at the steps that use it.                        *)
Carried(r) ==
    /\ r.at \in {"idle", "reread"} \cup Deleting \cup Reading => r.content = None
    /\ r.at \in Creating => r.content \in Contents /\ r.title \in Titles /\ r.known = {}
    /\ r.at \in {"temp", "commit", "drop"} => r.content \in Contents
    /\ r.at = "write" => r.loaded \in Titles

RequestInv == \A c \in Callers : Carried(req[c])

(* An id is minted once: until its row is inserted nobody has found it.     *)
UnbornInv ==
    \A d \in unborn :
        /\ row[d] = None /\ file[d] = Missing /\ d \notin unrecorded
        /\ \A c \in Callers : req[c].id = d => req[c].at \notin Creating \cup Found

CreatorInv ==
    /\ \A b, c \in Callers :
          /\ req[b].at \in Creating /\ req[c].at \in Creating /\ req[b].id = req[c].id => b = c
          /\ req[b].at \in Begun /\ req[c].at \in Found => req[b].id # req[c].id
    /\ \A c \in Callers : req[c].at \in Begun => row[req[c].id] = None

(* What is on the disk and in the table at the steps that count on it.      *)
Placed(c) ==
    LET d == req[c].id IN
    /\ req[c].at \in Begun \cup {"added"} => d \notin unrecorded
    /\ req[c].at \in {"task", "save"} => file[d] = Missing
    /\ req[c].at = "insert" => file[d] = req[c].content
    /\ req[c].at = "undo" => row[d] = None \/ d \in unrecorded
    /\ req[c].at \in {"removed", "unlink"} => row[d] = None
    /\ req[c].at \in Placing /\ req[c].content # None => row[d] # None \/ d \in abandoned
    /\ req[c].at = "write" /\ ~req[c].overtaken => row[d] \in {None, req[c].loaded}

PlaceInv == \A c \in Callers : Placed(c)

(* A content that was not sent is nowhere; one that is under way is in the   *)
(* request, and in the file that its creation is about.                    *)
UnusedInv ==
    \A x \in unused :
        /\ x \notin temps /\ x \notin stale
        /\ \A d \in Ids : file[d] # x /\ x \notin answered[d]
        /\ \A c \in Callers : req[c].content # x

SentInv ==
    \A c \in Callers : req[c].content # None =>
        LET x == req[c].content IN
        /\ x \notin stale
        /\ \A d \in Ids :
              /\ x \notin answered[d]
              /\ file[d] = x => d = req[c].id /\ req[c].at \in {"insert", "added", "undo"}
        /\ \A b \in Callers : req[b].content = x => b = c
        /\ req[c].at \in Creating \cup {"find", "temp"} => x \notin temps

(* What was answered for a document is in its file or in none.             *)
AnsweredInv ==
    /\ \A c \in Callers : req[c].known \subseteq answered[req[c].id]
    /\ \A d, e \in Ids : file[e] \in answered[d] => e = d

(* A file without a row is being worked on by a request that a crash would   *)
(* record, or is recorded.                                                 *)
OrphanInv ==
    \A d \in Ids :
        file[d] # Missing /\ row[d] = None =>
            d \in abandoned \/ \E c \in Callers : req[c].id = d /\ req[c].at \in Leaving

AttachmentInv ==
    /\ TypeOK /\ RequestInv
    /\ UnbornInv /\ CreatorInv /\ PlaceInv
    /\ UnusedInv /\ SentInv /\ AnsweredInv
    /\ OrphanInv /\ TempsCollected /\ ListedIsWhole /\ ShownIsCurrent

-----------------------------------------------------------------------------
(* What a step does to the requests: that of c goes on or ends.            *)

Moved(c) ==
    /\ req' \in [Callers -> Request]
    /\ \A b \in Callers :
          /\ req'[b].id = req[b].id /\ req'[b].content = req[b].content /\ req'[b].known = req[b].known
          /\ b # c => req'[b].at = req[b].at /\ req'[b].title = req[b].title /\ req'[b].loaded = req[b].loaded

Ended(c) ==
    /\ req' \in [Callers -> Request]
    /\ req'[c].at = "idle" /\ req'[c].content = None /\ req'[c].known = {}
    /\ \A b \in Callers : b # c => req'[b] = req[b]

LEMMA NoRequestTyped ==
    NoRequest \in Request /\ NoRequest.at = "idle" /\ NoRequest.content = None /\ NoRequest.known = {}
  <1>1. (CHOOSE d \in Ids : TRUE) \in Ids
    BY ConstantsAssumption
  <1> QED BY <1>1 DEF NoRequest, Request, Steps

LEMMA GoesMoves ==
    ASSUME TypeOK, NEW c \in Callers, NEW step \in Steps, Goes(c, step)
    PROVE  /\ Moved(c) /\ req'[c].at = step
           /\ req'[c].title = req[c].title /\ req'[c].loaded = req[c].loaded
           /\ req'[c].overtaken = req[c].overtaken
           /\ \A b \in Callers : b # c => req'[b] = req[b]
  <1>1. req' = [req EXCEPT ![c] = [req[c] EXCEPT !.at = step]]
    BY DEF Goes
  <1>2. req \in [Callers -> Request] /\ req[c] \in Request
    BY DEF TypeOK
  <1> DEFINE r == [req[c] EXCEPT !.at = step]
  <1>3. /\ r \in Request /\ r.at = step /\ r.id = req[c].id /\ r.content = req[c].content
        /\ r.known = req[c].known /\ r.title = req[c].title /\ r.loaded = req[c].loaded
        /\ r.overtaken = req[c].overtaken
    BY <1>2 DEF Request
  <1> HIDE DEF r
  <1>4. req' = [req EXCEPT ![c] = r]
    BY <1>1 DEF r
  <1>5. \A b \in Callers : req'[b] = IF b = c THEN r ELSE req[b]
    BY <1>2, <1>4
  <1>6. req' \in [Callers -> Request]
    BY <1>2, <1>3, <1>4
  <1> QED BY <1>3, <1>5, <1>6 DEF Moved

LEMMA EndsEnded ==
    ASSUME TypeOK, NEW c \in Callers, req' = [req EXCEPT ![c] = NoRequest]
    PROVE  Ended(c)
  BY NoRequestTyped DEF TypeOK, Ended

-----------------------------------------------------------------------------
(* Contents.                                                               *)

(* What a step may do with contents: write the one of its request, and      *)
(* answer or refuse it at the end.                                         *)
ContentStep(c) ==
    LET d == req[c].id
        x == req[c].content IN
    /\ UNCHANGED unused
    /\ \A y \in temps' : y \in temps \/ y = x
    /\ \A e \in Ids : file'[e] \in {file[e], Missing, Partial} \/ (e = d /\ file'[e] = x /\ x # None)
    /\ \/ /\ Moved(c) /\ UNCHANGED <<answered, stale>>
          /\ x # None /\ file'[d] = x => req'[c].at \in {"insert", "added", "undo"}
          /\ x # None /\ req'[c].at \in Creating \cup {"find", "temp"} => x \notin temps'
          /\ req[c].at \in {"added", "undo"} => req'[c].at \in {"added", "undo"}
       \/ /\ Ended(c)
          /\ \A y \in stale' : y \in stale \/ (y = x /\ x # None) \/ y \in req[c].known
          /\ \A e \in Ids :
                /\ answered[e] \subseteq answered'[e]
                /\ \A y \in answered'[e] : y \in answered[e] \/ (e = d /\ y = x /\ x # None)

LEMMA ContentsKept ==
    ASSUME AttachmentInv, NEW c \in Callers, ContentStep(c)
    PROVE  UnusedInv' /\ SentInv' /\ AnsweredInv'
  <1> DEFINE d == req[c].id
             x == req[c].content
  <1>1. TypeOK /\ UnusedInv /\ SentInv /\ AnsweredInv
    BY DEF AttachmentInv
  <1>2. /\ d \in Ids /\ x \in Contents \cup {None} /\ unused' = unused /\ unused \subseteq Contents
        /\ \A y \in temps' : y \in temps \/ y = x
        /\ \A e \in Ids : file'[e] \in {file[e], Missing, Partial} \/ (e = d /\ file'[e] = x /\ x # None)
        /\ \A y \in stale' : y \in stale \/ (y = x /\ x # None) \/ y \in req[c].known
        /\ \A e \in Ids : \A y \in answered'[e] : y \in answered[e] \/ (e = d /\ y = x /\ x # None)
        /\ \A e \in Ids : answered[e] \subseteq answered'[e]
    BY <1>1 DEF ContentStep, TypeOK, Request
  <1>3. /\ \A b \in Callers : b # c => req'[b].content = req[b].content /\ req'[b].id = req[b].id
                                      /\ req'[b].at = req[b].at /\ req'[b].known = req[b].known
        /\ req'[c].content \in {x, None}
        /\ req'[c].known \subseteq req[c].known
        /\ req'[c].content = x /\ x # None => req'[c].id = d /\ UNCHANGED <<answered, stale>>
        /\ req'[c].known # {} => req'[c].id = d
    BY DEF ContentStep, Moved, Ended
  <1>4. \A y \in Contents : y \notin {Missing, Partial, None}
    BY ConstantsAssumption
  <1>5. req[c].known \subseteq answered[d]
    BY <1>1 DEF AnsweredInv
  <1>6. /\ x # None => \A e \in Ids : x \notin answered[e] /\ (file[e] = x => e = d)
        /\ x # None => x \notin stale /\ x \notin unused
    BY <1>1 DEF SentInv, UnusedInv
  <1>7. \A y \in unused : y # x /\ y \in Contents
    BY <1>1, <1>2 DEF UnusedInv
  <1> HIDE DEF d, x
  <1>8. UnusedInv'
    <2> SUFFICES ASSUME NEW y \in unused
                 PROVE  /\ y \notin temps' /\ y \notin stale'
                        /\ \A e \in Ids : file'[e] # y /\ y \notin answered'[e]
                        /\ \A b \in Callers : req'[b].content # y
      BY <1>2 DEF UnusedInv
    <2>1. /\ y \notin temps /\ y \notin stale /\ \A e \in Ids : file[e] # y /\ y \notin answered[e]
          /\ \A b \in Callers : req[b].content # y
      BY <1>1 DEF UnusedInv
    <2> QED BY <1>2, <1>3, <1>4, <1>5, <1>7, <2>1
  <1>9. AnsweredInv'
    <2>1. \A b \in Callers : req'[b].known \subseteq answered'[req'[b].id]
      <3> SUFFICES ASSUME NEW b \in Callers, NEW y \in req'[b].known
                   PROVE  y \in answered'[req'[b].id]
        OBVIOUS
      <3>1. req'[b].id = req[b].id /\ y \in req[b].known /\ req[b].id \in Ids
        BY <1>1, <1>3 DEF d, TypeOK, Request
      <3>2. y \in answered[req[b].id]
        BY <1>1, <3>1 DEF AnsweredInv
      <3> QED BY <1>2, <3>1, <3>2
    <2>2. ASSUME NEW a \in Ids, NEW e \in Ids, file'[e] \in answered'[a] PROVE e = a
      <3>1. answered'[a] \subseteq Contents
        <4>1. answered[a] \subseteq Contents
          BY <1>1 DEF TypeOK
        <4> QED BY <1>2, <4>1
      <3>2. file'[e] \notin {Missing, Partial}
        BY <1>4, <2>2, <3>1
      <3>3. CASE file'[e] = x /\ x # None
        BY <1>2, <1>6, <2>2, <3>3
      <3>4. CASE file'[e] = file[e] /\ ~(file'[e] = x /\ x # None)
        <4>1. file[e] \in answered[a]
          BY <1>2, <2>2, <3>4
        <4> QED BY <1>1, <4>1 DEF AnsweredInv
      <3> QED BY <1>2, <3>2, <3>3, <3>4
    <2> QED BY <2>1, <2>2 DEF AnsweredInv
  <1>10. SentInv'
    <2> SUFFICES ASSUME NEW b \in Callers, req'[b].content # None
                 PROVE  LET y == req'[b].content IN
                        /\ y \notin stale'
                        /\ \A e \in Ids :
                              /\ y \notin answered'[e]
                              /\ file'[e] = y => e = req'[b].id /\ req'[b].at \in {"insert", "added", "undo"}
                        /\ \A a \in Callers : req'[a].content = y => a = b
                        /\ req'[b].at \in Creating \cup {"find", "temp"} => y \notin temps'
      BY DEF SentInv
    <2> DEFINE y == req'[b].content
    <2>1. y = req[b].content /\ y # None /\ y \in Contents
      BY <1>1, <1>3 DEF x, TypeOK, Request
    <2>2. /\ y \notin stale
          /\ \A e \in Ids : y \notin answered[e]
                            /\ (file[e] = y => e = req[b].id /\ req[b].at \in {"insert", "added", "undo"})
          /\ \A a \in Callers : req[a].content = y => a = b
          /\ req[b].at \in Creating \cup {"find", "temp"} => y \notin temps
      BY <1>1, <2>1 DEF SentInv
    <2>3. \A a \in Callers : req'[a].content = y => a = b
      BY <1>3, <2>1, <2>2 DEF x
    <2>4. CASE b # c
      <3>1. y # x /\ y \notin req[c].known
        BY <1>2, <1>5, <2>1, <2>2, <2>4 DEF x
      <3> QED BY <1>2, <1>3, <1>4, <2>1, <2>2, <2>3, <2>4, <3>1
    <2>5. CASE b = c
      <3>1. y = x /\ Moved(c) /\ UNCHANGED <<answered, stale>>
            /\ (file'[d] = x => req'[c].at \in {"insert", "added", "undo"})
            /\ (req'[c].at \in Creating \cup {"find", "temp"} => x \notin temps')
        BY <2>1, <2>5 DEF ContentStep, Ended, d, x
      <3>2. req'[c].id = d
        BY <3>1 DEF Moved, d
      <3>3. \A e \in Ids : file'[e] = y => e = d
        BY <1>2, <1>4, <1>6, <2>1, <3>1
      <3> QED BY <2>1, <2>2, <2>3, <2>5, <3>1, <3>2, <3>3
    <2> QED BY <2>4, <2>5
  <1> QED BY <1>8, <1>9, <1>10

-----------------------------------------------------------------------------
(* Rows and files.                                                         *)

(* What a step may do with rows and files: those of its own request, once    *)
(* it creates the attachment or has found it.                              *)
RowStep(c) ==
    LET d == req[c].id
        at == req[c].at
        to == req'[c].at IN
    /\ UNCHANGED unborn
    /\ \A e \in Ids : file'[e] # file[e] =>
          e = d /\ at \in Creating \cup Found /\ (at \in {"added", "undo"} => file'[e] = Missing)
    /\ \A e \in unrecorded' : e \in unrecorded \/ (e = d /\ at = "added")
    /\ \A e \in Ids : row'[e] # row[e] => e = d /\ (row[e] # None \/ at = "insert")
    /\ \/ Ended(c)
       \/ /\ Moved(c)
          /\ to \in Creating => at \in Creating
          /\ to \in Begun => at \in Begun /\ row'[d] = row[d]
          /\ to \in Found => at \in Found \/ row[d] # None

LEMMA StepSets ==
    /\ "idle" \notin Creating \cup Found
    /\ Begun \subseteq Creating /\ Begun \cap Found = {} /\ Placing \subseteq Found
    /\ Creating \cap Found = {} /\ "insert" \in Begun /\ Leaving \subseteq Creating \cup Found
  BY DEF Creating, Found, Begun, Placing, Leaving

LEMMA RowsKept ==
    ASSUME AttachmentInv, NEW c \in Callers, RowStep(c)
    PROVE  UnbornInv' /\ CreatorInv'
  <1> DEFINE d == req[c].id
  <1>1. TypeOK /\ UnbornInv /\ CreatorInv
    BY DEF AttachmentInv
  <1>2. /\ unborn' = unborn /\ unborn \subseteq Ids /\ d \in Ids
        /\ \A e \in Ids : file'[e] # file[e] => e = d /\ req[c].at \in Creating \cup Found
        /\ \A e \in unrecorded' : e \in unrecorded \/ (e = d /\ req[c].at = "added")
        /\ \A e \in Ids : row'[e] # row[e] => e = d /\ (row[e] # None \/ req[c].at = "insert")
        /\ \A b \in Callers : req[b].id \in Ids
    BY <1>1 DEF RowStep, TypeOK, Request
  <1>3. \A b \in Callers : b # c => req'[b].id = req[b].id /\ req'[b].at = req[b].at
    BY DEF RowStep, Moved, Ended
  <1>4. req'[c].at # "idle" =>
          /\ req'[c].id = d
          /\ req'[c].at \in Creating => req[c].at \in Creating
          /\ req'[c].at \in Begun => req[c].at \in Begun /\ row'[d] = row[d]
          /\ req'[c].at \in Found => req[c].at \in Found \/ row[d] # None
    BY DEF RowStep, Moved, Ended
  <1> HIDE DEF d
  <1>5. UnbornInv'
    <2> SUFFICES ASSUME NEW e \in unborn
                 PROVE  /\ row'[e] = None /\ file'[e] = Missing /\ e \notin unrecorded'
                        /\ \A b \in Callers : req'[b].id = e => req'[b].at \notin Creating \cup Found
      BY <1>2 DEF UnbornInv
    <2>1. /\ row[e] = None /\ file[e] = Missing /\ e \notin unrecorded /\ e \in Ids
          /\ \A b \in Callers : req[b].id = e => req[b].at \notin Creating \cup Found
      BY <1>1, <1>2 DEF UnbornInv
    <2>2. row'[e] = None /\ file'[e] = Missing /\ e \notin unrecorded'
      BY <1>2, <2>1, StepSets DEF d, Creating
    <2>3. ASSUME NEW b \in Callers, req'[b].id = e PROVE req'[b].at \notin Creating \cup Found
      <3>1. CASE b # c
        BY <1>3, <2>1, <2>3, <3>1
      <3>2. CASE b = c
        BY <1>4, <2>1, <2>3, <3>2, StepSets DEF d
      <3> QED BY <3>1, <3>2
    <2> QED BY <2>2, <2>3
  <1>6. ASSUME NEW a \in Callers, NEW b \in Callers,
               req'[a].at \in Creating, req'[b].at \in Creating, req'[a].id = req'[b].id
        PROVE  a = b
    <2>1. \A e \in Callers : req'[e].at \in Creating => req[e].at \in Creating /\ req'[e].id = req[e].id
      BY <1>3, <1>4, StepSets DEF d
    <2> QED BY <1>1, <1>6, <2>1 DEF CreatorInv
  <1>7. ASSUME NEW a \in Callers, NEW b \in Callers, req'[a].at \in Begun, req'[b].at \in Found
        PROVE  req'[a].id # req'[b].id
    <2>1. req[a].at \in Begun /\ req'[a].id = req[a].id /\ row[req[a].id] = None
      <3>1. req[a].at \in Begun /\ req'[a].id = req[a].id
        BY <1>3, <1>4, <1>7, StepSets DEF d
      <3> QED BY <1>1, <3>1 DEF CreatorInv
    <2>2. req'[b].id = req[b].id /\ (req[b].at \in Found \/ row[req[b].id] # None)
      BY <1>3, <1>4, <1>7, StepSets DEF d
    <2> QED BY <1>1, <2>1, <2>2 DEF CreatorInv
  <1>8. ASSUME NEW a \in Callers, req'[a].at \in Begun
        PROVE  row'[req'[a].id] = None
    <2>1. req[a].at \in Begun /\ req'[a].id = req[a].id /\ req[a].id \in Ids
      BY <1>2, <1>3, <1>4, <1>8, StepSets DEF d
    <2>2. row[req[a].id] = None
      BY <1>1, <2>1 DEF CreatorInv
    <2>3. CASE a = c
      BY <1>4, <1>8, <2>1, <2>2, <2>3, StepSets DEF d
    <2>4. CASE a # c
      <3>1. ~(req[a].id = d /\ req[c].at = "insert")
        BY <1>1, <2>1, <2>4, StepSets DEF CreatorInv, d
      <3> QED BY <1>2, <2>1, <2>2, <3>1
    <2> QED BY <2>3, <2>4
  <1> QED BY <1>5, <1>6, <1>7, <1>8 DEF CreatorInv

(* Besides, what others count on stays: a row that goes is recorded if an    *)
(* update has passed its check, and one that is written overtakes them.    *)
PlaceStep(c) ==
    /\ RowStep(c)
    /\ abandoned \subseteq abandoned' /\ unrecorded \subseteq unrecorded'
    /\ \A e \in Ids : row[e] # None /\ row'[e] = None => e \in abandoned' \/ ~Overtaken(e)
    /\ \A b \in Callers : b # c /\ req[b].at = "write" /\ ~req'[b].overtaken =>
          ~req[b].overtaken /\ row'[req[b].id] \in {row[req[b].id], None}
    /\ Placed(c)'

LEMMA PlacesKept ==
    ASSUME AttachmentInv, NEW c \in Callers, PlaceStep(c)
    PROVE  PlaceInv'
  <1> SUFFICES ASSUME NEW b \in Callers, b # c PROVE Placed(b)'
    BY DEF PlaceInv, PlaceStep
  <1> DEFINE d == req[b].id
             at == req[b].at
  <1>1. TypeOK /\ CreatorInv /\ Placed(b)
    BY DEF AttachmentInv, PlaceInv
  <1>2. /\ req'[b].id = d /\ req'[b].at = at /\ req'[b].content = req[b].content
        /\ req'[b].loaded = req[b].loaded /\ d \in Ids
    BY <1>1 DEF PlaceStep, RowStep, Moved, Ended, TypeOK, Request
  <1>3. /\ file'[d] # file[d] => d = req[c].id /\ req[c].at \in Creating \cup Found
        /\ row'[d] # row[d] => d = req[c].id /\ (row[d] # None \/ req[c].at = "insert")
    BY <1>2 DEF PlaceStep, RowStep
  <1>4. at \in Begun => file'[d] = file[d]
    BY <1>1, <1>3, StepSets DEF CreatorInv
  <1>5. at \in Creating \cup Found /\ row[d] = None => row'[d] = None
    BY <1>1, <1>3, StepSets DEF CreatorInv
  <1>6. at \in {"task", "save"} => file'[d] = Missing
    BY <1>1, <1>4 DEF Placed, Begun
  <1>7. at = "insert" => file'[d] = req[b].content
    BY <1>1, <1>4 DEF Placed, Begun
  <1>8. at = "undo" => row'[d] = None \/ d \in unrecorded'
    BY <1>1, <1>5 DEF Placed, Begun, PlaceStep, Creating
  <1>9. at \in {"removed", "unlink"} => row'[d] = None
    BY <1>1, <1>5 DEF Placed, Found
  <1>10. at \in Placing /\ req[b].content # None => row'[d] # None \/ d \in abandoned'
    <2> SUFFICES ASSUME at \in Placing, req[b].content # None, row'[d] = None PROVE d \in abandoned'
      OBVIOUS
    <2>1. Overtaken(d)
      BY DEF Overtaken, Placing
    <2>2. row[d] # None \/ d \in abandoned
      BY <1>1 DEF Placed
    <2> QED BY <1>2, <2>1, <2>2 DEF PlaceStep
  <1>11. at = "write" /\ ~req'[b].overtaken => row'[d] \in {None, req[b].loaded}
    BY <1>1 DEF Placed, PlaceStep
  <1>12. at \in Begun \cup {"added"} => d \notin unrecorded'
    <2>1. d \in unrecorded' => d \in unrecorded \/ (d = req[c].id /\ req[c].at = "added")
      BY DEF PlaceStep, RowStep
    <2>2. at \in Begun \cup {"added"} /\ req[c].at = "added" => d # req[c].id
      BY <1>1, StepSets DEF CreatorInv, Creating
    <2> QED BY <1>1, <2>1, <2>2 DEF Placed
  <1> HIDE DEF d, at
  <1> QED BY <1>2, <1>6, <1>7, <1>8, <1>9, <1>10, <1>11, <1>12 DEF Placed

-----------------------------------------------------------------------------
(* What a step may do with the files without a row, the temporary files and *)
(* the attachments that are listed.                                        *)
KeepStep(c) ==
    LET d == req[c].id
        x == req[c].content IN
    /\ \A e \in Ids : file'[e] # Missing /\ row'[e] = None =>
          \/ file[e] # Missing /\ row[e] = None
          \/ e \in abandoned'
          \/ e = d /\ Moved(c) /\ req'[c].at \in Leaving
    /\ req[c].at \in Leaving =>
          d \in abandoned' \/ file'[d] = Missing \/ row'[d] # None \/ (Moved(c) /\ req'[c].at \in Leaving)
    /\ \A y \in temps' :
          y \in abandoned' \/ (y \in temps /\ y # x) \/ (y = x /\ Moved(c) /\ req'[c].at \in Updating)
    /\ \A e \in Ids : row'[e] # None /\ e \notin unrecorded' =>
          \/ row[e] # None /\ e \notin unrecorded /\ file'[e] = file[e] /\ (file[e] \in stale' => file[e] \in stale)
          \/ e = d /\ file'[e] = x /\ x \in Contents \ stale'

StepKept(c) == ContentStep(c) /\ PlaceStep(c) /\ KeepStep(c) /\ Carried(req'[c])

LEMMA StepsKeep ==
    ASSUME AttachmentInv, TypeOK', NEW c \in Callers, StepKept(c)
    PROVE  AttachmentInv'
  <1> DEFINE d == req[c].id
             x == req[c].content
  <1>1. /\ TypeOK /\ RequestInv /\ OrphanInv /\ TempsCollected /\ ListedIsWhole /\ ShownIsCurrent
        /\ d \in Ids
    BY DEF AttachmentInv, TypeOK, Request
  <1>2. abandoned \subseteq abandoned'
    BY DEF StepKept, PlaceStep
  <1>3. \A b \in Callers : b # c =>
          req'[b].id = req[b].id /\ req'[b].at = req[b].at /\ req'[b].content = req[b].content
          /\ req'[b].title = req[b].title /\ req'[b].loaded = req[b].loaded /\ req'[b].known = req[b].known
    BY DEF StepKept, ContentStep, Moved, Ended
  <1>4. Moved(c) => req'[c].id = d /\ req'[c].content = x
    BY DEF Moved
  <1>5. KeepStep(c) /\ Carried(req'[c])
    BY DEF StepKept
  <1>6. RequestInv'
    <2> SUFFICES ASSUME NEW b \in Callers, b # c PROVE Carried(req'[b])
      BY <1>5 DEF RequestInv
    <2>1. Carried(req[b])
      BY <1>1 DEF RequestInv
    <2> QED BY <1>3, <2>1 DEF Carried
  <1>7. OrphanInv'
    <2> SUFFICES ASSUME NEW e \in Ids, file'[e] # Missing, row'[e] = None, e \notin abandoned'
                 PROVE  \E b \in Callers : req'[b].id = e /\ req'[b].at \in Leaving
      BY DEF OrphanInv
    <2>1. CASE e = d /\ Moved(c) /\ req'[c].at \in Leaving
      BY <1>4, <2>1
    <2>2. CASE file[e] # Missing /\ row[e] = None /\ ~(e = d /\ Moved(c) /\ req'[c].at \in Leaving)
      <3>1. PICK b \in Callers : req[b].id = e /\ req[b].at \in Leaving
        BY <1>1, <1>2, <2>2 DEF OrphanInv
      <3>2. b # c
        BY <1>5, <2>2, <3>1 DEF KeepStep
      <3> QED BY <1>3, <3>1, <3>2
    <2> QED BY <1>5, <2>1, <2>2 DEF KeepStep
  <1>8. TempsCollected'
    <2> SUFFICES ASSUME NEW y \in temps', y \notin abandoned'
                 PROVE  \E b \in Callers : req'[b].content = y /\ req'[b].at \in Updating
      BY DEF TempsCollected
    <2>1. CASE y = x /\ Moved(c) /\ req'[c].at \in Updating
      BY <1>4, <2>1
    <2>2. CASE y \in temps /\ y # x
      <3>1. PICK b \in Callers : req[b].content = y /\ req[b].at \in Updating
        BY <1>1, <1>2, <2>2 DEF TempsCollected
      <3> QED BY <1>3, <2>2, <3>1
    <2> QED BY <1>5, <2>1, <2>2 DEF KeepStep
  <1>9. ListedIsWhole' /\ ShownIsCurrent'
    BY <1>1, <1>5 DEF KeepStep, ListedIsWhole, ShownIsCurrent
  <1>10. UnbornInv' /\ CreatorInv' /\ PlaceInv'
    BY RowsKept, PlacesKept DEF StepKept, PlaceStep
  <1>11. UnusedInv' /\ SentInv' /\ AnsweredInv'
    BY ContentsKept DEF StepKept
  <1> QED BY <1>6, <1>7, <1>8, <1>9, <1>10, <1>11 DEF AttachmentInv

-----------------------------------------------------------------------------
(* A step that only moves its request on.                                  *)
LEMMA MovesKeep ==
    ASSUME AttachmentInv, NEW c \in Callers, Moved(c),
           \A b \in Callers : b # c => req'[b] = req[b],
           UNCHANGED <<unborn, unused, row, disk, answered, stale, abandoned>>,
           unrecorded' = unrecorded \/ (req[c].at = "added" /\ unrecorded' = unrecorded \cup {req[c].id}),
           req'[c].at \in Creating => req[c].at \in Creating,
           req'[c].at \in Begun => req[c].at \in Begun,
           req'[c].at \in Found => req[c].at \in Found \/ row[req[c].id] # None,
           req'[c].at = "temp" => req[c].at = "find",
           req'[c].at # "find",
           req[c].at = "insert" => req'[c].at = "undo",
           req[c].at \in {"added", "undo"} => req'[c].at \in {"added", "undo"},
           req[c].at \in Leaving => req'[c].at \in Leaving,
           req[c].at \in Updating /\ req[c].content # None => req'[c].at \in Updating,
           Carried(req'[c]), Placed(c)'
    PROVE  StepKept(c)
  <1> DEFINE d == req[c].id
             x == req[c].content
             at == req[c].at
             to == req'[c].at
  <1>1. TypeOK /\ SentInv /\ TempsCollected
    BY DEF AttachmentInv
  <1>2. d \in Ids /\ x \in Contents \cup {None} /\ file' = file /\ temps' = temps
    BY <1>1 DEF TypeOK, Request, disk
  <1>3. ContentStep(c)
    <2>1. x # None /\ file'[d] = x => to \in {"insert", "added", "undo"}
      BY <1>1, <1>2 DEF SentInv
    <2>2. x # None /\ to \in Creating \cup {"find", "temp"} => x \notin temps'
      BY <1>1, <1>2 DEF SentInv
    <2> QED BY <1>2, <2>1, <2>2 DEF ContentStep
  <1>4. PlaceStep(c)
    <2>1. RowStep(c)
      BY <1>2 DEF RowStep
    <2> QED BY <2>1 DEF PlaceStep
  <1>5. KeepStep(c)
    <2>1. ASSUME NEW y \in temps' PROVE y \in abandoned' \/ (y \in temps /\ y # x) \/ (y = x /\ to \in Updating)
      <3> SUFFICES ASSUME y = x, y \notin abandoned PROVE to \in Updating
        BY <1>2
      <3>1. PICK b \in Callers : req[b].content = y /\ req[b].at \in Updating
        BY <1>1, <1>2 DEF TempsCollected
      <3>2. x # None
        BY <1>1, <1>2, ConstantsAssumption DEF TypeOK
      <3>3. b = c
        BY <1>1, <3>1, <3>2 DEF SentInv
      <3> QED BY <3>1, <3>2, <3>3
    <2> QED BY <1>2, <2>1 DEF KeepStep
  <1> QED BY <1>3, <1>4, <1>5 DEF StepKept

(* A step that ends its request and leaves the rows alone.                 *)
LEMMA EndsKeep ==
    ASSUME AttachmentInv, NEW c \in Callers, Ended(c),
           UNCHANGED <<unborn, unused, row, unrecorded>>, abandoned \subseteq abandoned',
           \/ file' = file
           \/ /\ file' = [file EXCEPT ![req[c].id] = Missing]
              /\ req[c].at \in Creating \cup Found
              /\ row[req[c].id] = None \/ req[c].id \in unrecorded,
           req[c].at \in Leaving =>
              req[c].id \in abandoned' \/ file'[req[c].id] = Missing \/ row[req[c].id] # None,
           \A y \in temps' : y \in temps \/ y = req[c].content,
           req[c].content \in temps' => req[c].content \in abandoned',
           \A y \in stale' : y \in stale \/ (y = req[c].content /\ y # None) \/ y \in req[c].known,
           \A e \in Ids :
              /\ answered[e] \subseteq answered'[e]
              /\ \A y \in answered'[e] :
                    y \in answered[e] \/ (e = req[c].id /\ y = req[c].content /\ y # None),
           \A e \in Ids : row[e] # None /\ e \notin unrecorded /\ file[e] \in stale' => file[e] \in stale
    PROVE  StepKept(c)
  <1> DEFINE d == req[c].id
             x == req[c].content
  <1>1. TypeOK
    BY DEF AttachmentInv
  <1>2. d \in Ids /\ x \in Contents \cup {None}
    BY <1>1 DEF TypeOK, Request
  <1>3. \A e \in Ids : file'[e] # file[e] => e = d /\ file'[e] = Missing
    BY <1>1 DEF TypeOK
  <1>4. ContentStep(c)
    BY <1>2, <1>3 DEF ContentStep
  <1>5. PlaceStep(c)
    <2>1. RowStep(c)
      BY <1>2, <1>3 DEF RowStep
    <2>2. Placed(c)'
      BY DEF Placed, Begun, Ended, Placing
    <2>3. \A b \in Callers : b # c => req'[b] = req[b]
      BY DEF Ended
    <2> QED BY <2>1, <2>2, <2>3 DEF PlaceStep
  <1>6. KeepStep(c)
    BY <1>2, <1>3 DEF KeepStep
  <1>7. Carried(req'[c])
    BY DEF Carried, Ended, Creating
  <1> QED BY <1>4, <1>5, <1>6, <1>7 DEF StepKept

-----------------------------------------------------------------------------
(* The ways a request ends.                                                *)

LEMMA Refused ==
    ASSUME AttachmentInv, NEW c \in Callers, Refuse(c), req[c].at \notin {"insert", "added"}
    PROVE  /\ Ended(c)
           /\ \A y \in stale' : y \in stale \/ (y = req[c].content /\ y # None) \/ y \in req[c].known
           /\ answered' = answered
           /\ \A e \in Ids : row[e] # None /\ e \notin unrecorded /\ file[e] \in stale' => file[e] \in stale
  <1>1. TypeOK /\ SentInv /\ PlaceInv
    BY DEF AttachmentInv
  <1>2. stale' = stale \cup ({req[c].content} \ {None}) /\ answered' = answered
        /\ req' = [req EXCEPT ![c] = NoRequest]
    BY DEF Refuse
  <1>3. Ended(c)
    BY <1>1, <1>2, EndsEnded
  <1>4. ASSUME NEW e \in Ids, row[e] # None, e \notin unrecorded, file[e] \in stale', file[e] \notin stale
        PROVE  FALSE
    <2>1. file[e] = req[c].content /\ req[c].content # None
      BY <1>2, <1>4
    <2>2. e = req[c].id /\ req[c].at = "undo"
      BY <1>1, <2>1 DEF SentInv
    <2> QED BY <1>1, <1>4, <2>2 DEF PlaceInv, Placed
  <1> QED BY <1>2, <1>3, <1>4

LEMMA Answered ==
    ASSUME AttachmentInv, NEW c \in Callers, Answer(c)
    PROVE  Ended(c) /\ stale' = stale /\ answered' = answered
  BY EndsEnded DEF AttachmentInv, Answer

LEMMA Succeeded ==
    ASSUME AttachmentInv, NEW c \in Callers, Succeed(c)
    PROVE  /\ Ended(c)
           /\ \A y \in stale' : y \in stale \/ y \in req[c].known
           /\ answered' \in [Ids -> SUBSET Contents]
           /\ \A e \in Ids :
                /\ answered[e] \subseteq answered'[e]
                /\ \A y \in answered'[e] :
                      y \in answered[e] \/ (e = req[c].id /\ y = req[c].content /\ y # None)
  <1>1. TypeOK
    BY DEF AttachmentInv
  <1>2. req[c].id \in Ids /\ req[c].content \in Contents \cup {None} /\ answered \in [Ids -> SUBSET Contents]
    BY <1>1 DEF TypeOK, Request
  <1>3. answered' = [answered EXCEPT ![req[c].id] = @ \cup ({req[c].content} \ {None})]
    BY DEF Succeed
  <1>4. \A y \in stale' : y \in stale \/ y \in req[c].known
    BY DEF Succeed
  <1>5. Ended(c)
    BY <1>1, EndsEnded DEF Succeed
  <1> QED BY <1>2, <1>3, <1>4, <1>5

(* Temporary files of requests that hold none.                             *)
LEMMA NoTemp ==
    ASSUME AttachmentInv, NEW c \in Callers, req[c].content # None => req[c].at \in Creating \cup {"find", "temp"}
    PROVE  req[c].content \notin temps
  BY ConstantsAssumption DEF AttachmentInv, SentInv, TypeOK

(* A step that only sets the next call of its request, when what is carried  *)
(* and counted on there holds.                                             *)
LEMMA GoesKeeps ==
    ASSUME AttachmentInv, NEW c \in Callers, NEW step \in Steps, Goes(c, step),
           UNCHANGED <<unborn, unused, row, disk, answered, stale, abandoned>>,
           unrecorded' = unrecorded \/ (req[c].at = "added" /\ unrecorded' = unrecorded \cup {req[c].id}),
           \/ req[c].at = "task" /\ step = "save"
           \/ req[c].at = "insert" /\ step = "undo"
           \/ req[c].at = "added" /\ step = "undo" /\ req[c].id \in unrecorded'
           \/ req[c].at = "find" /\ row[req[c].id] # None
                 /\ step = IF req[c].content = None THEN "before" ELSE "temp"
           \/ req[c].at \in {"before", "load", "updated"} /\ req[c].content # None /\ step = "drop"
           \/ req[c].at = "updated" /\ step = IF req[c].content = None THEN "reread" ELSE "commit"
           \/ req[c].at = "seek" /\ row[req[c].id] # None /\ step = "remove"
           \/ req[c].at = "removed" /\ step = "unlink"
           \/ req[c].at = "look" /\ step = "open"
    PROVE  StepKept(c)
  <1> DEFINE to == req'[c].at
             at == req[c].at
             x == req[c].content
             d == req[c].id
  <1>1. TypeOK /\ Carried(req[c]) /\ Placed(c) /\ CreatorInv
    BY DEF AttachmentInv, RequestInv, PlaceInv
  <1>2. /\ Moved(c) /\ to = step /\ \A b \in Callers : b # c => req'[b] = req[b]
        /\ req'[c].title = req[c].title
    BY <1>1, GoesMoves
  <1>3. req'[c].content = x /\ req'[c].id = d /\ req'[c].known = req[c].known
    BY <1>2 DEF Moved
  <1>4. x \in Contents \cup {None}
    BY <1>1 DEF TypeOK, Request
  <1>5. at \in Begun => row[d] = None
    BY <1>1 DEF CreatorInv
  <1>6. Carried(req'[c])
    BY <1>1, <1>2, <1>3, <1>4 DEF Carried, Creating, Deleting, Reading
  <1>7. Placed(c)'
    BY <1>1, <1>2, <1>3, <1>5 DEF Placed, Begun, Placing, disk
  <1>8. /\ to \in Creating => at \in Creating
        /\ to \in Begun => at \in Begun
        /\ to \in Found => at \in Found \/ row[d] # None
        /\ to = "temp" => at = "find"
        /\ to # "find"
        /\ at = "insert" => to = "undo"
        /\ at \in {"added", "undo"} => to \in {"added", "undo"}
        /\ at \in Leaving => to \in Leaving
        /\ at \in Updating /\ x # None => to \in Updating
    BY <1>2 DEF Creating, Begun, Found, Placing, Leaving, Updating
  <1> QED BY <1>2, <1>6, <1>7, <1>8, MovesKeep

-----------------------------------------------------------------------------
(* Creating.                                                               *)

LEMMA FindTaskKeeps ==
    ASSUME AttachmentInv, NEW c \in Callers, FindTask(c), UNCHANGED <<unborn, unused>>
    PROVE  StepKept(c)
  <1>1. CASE live
    BY <1>1, GoesKeeps DEF FindTask, Steps, Creating
  <1>2. CASE ~live
    <2>1. Refuse(c)
      BY <1>2 DEF FindTask
    <2> QED BY <2>1, Refused, NoTemp, EndsKeep DEF FindTask, Leaving, Creating, disk
  <1> QED BY <1>1, <1>2

LEMMA SaveKeeps ==
    ASSUME AttachmentInv, NEW c \in Callers, Save(c), UNCHANGED <<unborn, unused>>
    PROVE  StepKept(c)
  <1> DEFINE d == req[c].id
             x == req[c].content
  <1>1. /\ TypeOK /\ Carried(req[c]) /\ Placed(c) /\ CreatorInv /\ SentInv
        /\ req[c].at = "save" /\ d \in Ids
    BY DEF AttachmentInv, RequestInv, PlaceInv, Save, TypeOK, Request
  <1>2. CASE Refuse(c) /\ UNCHANGED file
    BY <1>1, <1>2, Refused, NoTemp, EndsKeep DEF Save, Leaving, Creating
  <1>3. CASE /\ file' = [file EXCEPT ![d] = Partial]
             /\ Goes(c, "fill")
             /\ UNCHANGED <<answered, stale>>
    <2>1. /\ Moved(c) /\ req'[c].at = "fill" /\ \A b \in Callers : b # c => req'[b] = req[b]
          /\ req'[c].title = req[c].title
          /\ req'[c].content = x /\ req'[c].id = d /\ req'[c].known = req[c].known
      BY <1>1, <1>3, GoesMoves DEF Steps, Creating, Moved
    <2>2. /\ UNCHANGED <<row, temps, unrecorded, abandoned>>
          /\ \A e \in Ids : file'[e] = IF e = d THEN Partial ELSE file[e]
      BY <1>1, <1>3 DEF Save, TypeOK
    <2>3. row[d] = None /\ x \in Contents /\ x \notin temps
      BY <1>1, ConstantsAssumption DEF CreatorInv, Begun, Carried, Creating, SentInv
    <2>4. Carried(req'[c]) /\ Placed(c)'
      BY <1>1, <2>1, <2>2, <2>3 DEF Carried, Placed, Begun, Creating, Deleting, Reading, Placing
    <2>5. ContentStep(c)
      BY <1>1, <1>3, <2>1, <2>2, <2>3, ConstantsAssumption DEF ContentStep
    <2>6. PlaceStep(c)
      <3>1. RowStep(c)
        BY <1>1, <2>1, <2>2, <2>3 DEF RowStep, Creating, Begun, Found, Placing
      <3> QED BY <2>1, <2>2, <2>4, <3>1 DEF PlaceStep
    <2>7. KeepStep(c)
      BY <1>1, <1>3, <2>1, <2>2, <2>3 DEF KeepStep, Leaving
    <2> QED BY <2>4, <2>5, <2>6, <2>7 DEF StepKept
  <1> QED BY <1>1, <1>2, <1>3 DEF Save
LEMMA FillKeeps ==
    ASSUME AttachmentInv, NEW c \in Callers, Fill(c), UNCHANGED <<unborn, unused>>
    PROVE  StepKept(c)
  <1> DEFINE d == req[c].id
             x == req[c].content
  <1>1. /\ TypeOK /\ Carried(req[c]) /\ Placed(c) /\ CreatorInv /\ SentInv
        /\ req[c].at = "fill" /\ d \in Ids
    BY DEF AttachmentInv, RequestInv, PlaceInv, Fill, TypeOK, Request
  <1>2. row[d] = None /\ x \in Contents /\ x \notin temps /\ x # None /\ UNCHANGED <<row, temps, unrecorded>>
    BY <1>1, ConstantsAssumption DEF CreatorInv, Begun, Carried, Creating, SentInv, Fill
  <1>3. CASE /\ d \in Images
             /\ file' = [file EXCEPT ![d] = Missing]
             /\ Refuse(c)
             /\ UNCHANGED abandoned
    <2>1. file'[d] = Missing
      BY <1>1, <1>3 DEF TypeOK
    <2> QED BY <1>1, <1>2, <1>3, <2>1, Refused, EndsKeep DEF Creating
  <1>4. CASE /\ abandoned' = abandoned \cup {d}
             /\ Refuse(c)
             /\ UNCHANGED file
    BY <1>1, <1>2, <1>4, Refused, EndsKeep
  <1>5. CASE /\ file' = [file EXCEPT ![d] = x]
             /\ Goes(c, "insert")
             /\ UNCHANGED <<answered, stale, abandoned>>
    <2>1. /\ Moved(c) /\ req'[c].at = "insert" /\ \A b \in Callers : b # c => req'[b] = req[b]
          /\ req'[c].title = req[c].title
          /\ req'[c].content = x /\ req'[c].id = d /\ req'[c].known = req[c].known
      BY <1>1, <1>5, GoesMoves DEF Steps, Creating, Moved
    <2>2. \A e \in Ids : file'[e] = IF e = d THEN x ELSE file[e]
      BY <1>1, <1>5 DEF TypeOK
    <2>3. Carried(req'[c]) /\ Placed(c)'
      BY <1>1, <1>2, <2>1, <2>2 DEF Carried, Placed, Begun, Creating, Deleting, Reading, Placing
    <2>4. ContentStep(c)
      BY <1>1, <1>2, <1>5, <2>1, <2>2 DEF ContentStep
    <2>5. PlaceStep(c)
      <3>1. RowStep(c)
        BY <1>1, <1>2, <2>1, <2>2 DEF RowStep, Creating, Begun, Found, Placing
      <3> QED BY <1>2, <1>5, <2>1, <2>3, <3>1 DEF PlaceStep
    <2>6. KeepStep(c)
      BY <1>1, <1>2, <1>5, <2>1, <2>2 DEF KeepStep, Leaving
    <2> QED BY <2>3, <2>4, <2>5, <2>6 DEF StepKept
  <1> QED BY <1>1, <1>3, <1>4, <1>5 DEF Fill

LEMMA InsertKeeps ==
    ASSUME AttachmentInv, NEW c \in Callers, Insert(c), UNCHANGED <<unborn, unused>>
    PROVE  StepKept(c)
  <1> DEFINE d == req[c].id
             x == req[c].content
             t == req[c].title
  <1>1. /\ TypeOK /\ Carried(req[c]) /\ Placed(c) /\ CreatorInv /\ SentInv
        /\ req[c].at = "insert" /\ d \in Ids /\ UNCHANGED <<file, temps, answered, stale, unrecorded, abandoned>>
    BY DEF AttachmentInv, RequestInv, PlaceInv, Insert, TypeOK, Request, disk, history
  <1>2. /\ row[d] = None /\ x \in Contents /\ x \notin temps /\ x # None /\ x \notin stale
        /\ t \in Titles /\ t # None /\ file[d] = x
    BY <1>1, ConstantsAssumption DEF CreatorInv, Begun, Carried, Creating, SentInv, Placed
  <1>3. CASE live
    <2>1. Goes(c, "added") /\ row' = [row EXCEPT ![d] = t]
      BY <1>3 DEF Insert
    <2>2. /\ Moved(c) /\ req'[c].at = "added" /\ \A b \in Callers : b # c => req'[b] = req[b]
          /\ req'[c].title = t
          /\ req'[c].content = x /\ req'[c].id = d /\ req'[c].known = req[c].known
      BY <1>1, <2>1, GoesMoves DEF Steps, Creating, Moved
    <2>3. \A e \in Ids : row'[e] = IF e = d THEN t ELSE row[e]
      BY <1>1, <2>1 DEF TypeOK
    <2>4. Carried(req'[c]) /\ Placed(c)'
      BY <1>1, <1>2, <2>2 DEF Carried, Placed, Begun, Creating, Deleting, Reading, Placing
    <2>5. ContentStep(c)
      BY <1>1, <1>2, <2>2 DEF ContentStep
    <2>6. PlaceStep(c)
      <3>1. RowStep(c)
        BY <1>1, <1>2, <2>2, <2>3 DEF RowStep, Creating, Begun, Found, Placing
      <3>2. ASSUME NEW b \in Callers, b # c, req[b].at = "write"
            PROVE  req[b].id # d /\ req[b].id \in Ids
        BY <1>1, <3>2 DEF CreatorInv, Begun, Found, Placing, TypeOK, Request
      <3> QED BY <1>1, <1>2, <2>2, <2>3, <2>4, <3>1, <3>2 DEF PlaceStep
    <2>7. KeepStep(c)
      BY <1>1, <1>2, <2>2, <2>3 DEF KeepStep, Leaving
    <2> QED BY <2>4, <2>5, <2>6, <2>7 DEF StepKept
  <1>4. CASE ~live
    BY <1>4, GoesKeeps DEF Insert, Steps, Creating, history
  <1> QED BY <1>3, <1>4

LEMMA RecordAddedKeeps ==
    ASSUME AttachmentInv, NEW c \in Callers, RecordAdded(c), UNCHANGED <<unborn, unused>>
    PROVE  StepKept(c)
  <1> DEFINE d == req[c].id
  <1>1. /\ TypeOK /\ Carried(req[c]) /\ req[c].at = "added" /\ d \in Ids
        /\ UNCHANGED <<row, file, temps, abandoned>>
    BY DEF AttachmentInv, RequestInv, RecordAdded, TypeOK, Request, disk
  <1>2. CASE Succeed(c) /\ UNCHANGED unrecorded
    <2>1. req[c].known = {}
      BY <1>1 DEF Carried, Creating
    <2>2. req[c].content \notin temps
      BY <1>1, NoTemp DEF Creating
    <2> QED BY <1>1, <1>2, <2>1, <2>2, Succeeded, EndsKeep DEF Leaving
  <1>3. CASE /\ unrecorded' = unrecorded \cup {d}
             /\ Goes(c, "undo")
             /\ UNCHANGED <<answered, stale>>
    BY <1>1, <1>3, GoesKeeps DEF Steps, Creating, disk
  <1> QED BY <1>2, <1>3 DEF RecordAdded

LEMMA UndoKeeps ==
    ASSUME AttachmentInv, NEW c \in Callers, Undo(c), UNCHANGED <<unborn, unused>>
    PROVE  StepKept(c)
  <1> DEFINE d == req[c].id
  <1>1. /\ TypeOK /\ Placed(c) /\ req[c].at = "undo" /\ d \in Ids
        /\ UNCHANGED <<row, temps, unrecorded>> /\ Refuse(c)
    BY DEF AttachmentInv, PlaceInv, Undo, TypeOK, Request
  <1>2. (row[d] = None \/ d \in unrecorded) /\ req[c].content \notin temps
    BY <1>1, NoTemp DEF Placed, Begun, Creating
  <1>3. CASE file' = [file EXCEPT ![d] = Missing] /\ UNCHANGED abandoned
    <2>1. file'[d] = Missing
      BY <1>1, <1>3 DEF TypeOK
    <2> QED BY <1>1, <1>2, <1>3, <2>1, Refused, EndsKeep DEF Creating
  <1>4. CASE abandoned' = abandoned \cup {d} /\ UNCHANGED file
    BY <1>1, <1>2, <1>4, Refused, EndsKeep
  <1> QED BY <1>3, <1>4 DEF Undo

-----------------------------------------------------------------------------
(* Updating.                                                               *)

LEMMA FindDocKeeps ==
    ASSUME AttachmentInv, NEW c \in Callers, FindDoc(c), UNCHANGED <<unborn, unused>>
    PROVE  StepKept(c)
  <1>1. CASE row[req[c].id] = None
    BY <1>1, Refused, NoTemp, EndsKeep DEF FindDoc, Leaving, disk
  <1>2. CASE row[req[c].id] # None
    <2> DEFINE step == IF req[c].content = None THEN "before" ELSE "temp"
    <2>1. step \in Steps
      BY DEF Steps, Updating
    <2> QED BY <1>2, <2>1, GoesKeeps DEF FindDoc
  <1> QED BY <1>1, <1>2

LEMMA WriteTempKeeps ==
    ASSUME AttachmentInv, NEW c \in Callers, WriteTemp(c), UNCHANGED <<unborn, unused>>
    PROVE  StepKept(c)
  <1> DEFINE d == req[c].id
             x == req[c].content
  <1>1. /\ TypeOK /\ Carried(req[c]) /\ Placed(c) /\ SentInv
        /\ req[c].at = "temp" /\ d \in Ids
        /\ UNCHANGED <<row, file, unrecorded>>
    BY DEF AttachmentInv, RequestInv, PlaceInv, WriteTemp, TypeOK, Request
  <1>2. x \in Contents /\ x # None /\ x \notin temps /\ file[d] # x
    BY <1>1, NoTemp, ConstantsAssumption DEF Carried, SentInv
  <1>3. CASE Refuse(c) /\ UNCHANGED <<temps, abandoned>>
    BY <1>1, <1>2, <1>3, Refused, EndsKeep DEF Leaving
  <1>4. CASE Refuse(c) /\ temps' = temps \cup {x} /\ abandoned' = abandoned \cup {x}
    BY <1>1, <1>2, <1>4, Refused, EndsKeep DEF Leaving
  <1>5. CASE temps' = temps \cup {x} /\ Goes(c, "before") /\ UNCHANGED <<answered, stale, abandoned>>
    <2>1. /\ Moved(c) /\ req'[c].at = "before" /\ \A b \in Callers : b # c => req'[b] = req[b]
          /\ req'[c].content = x /\ req'[c].id = d
      BY <1>1, <1>5, GoesMoves DEF Steps, Updating, Moved
    <2>2. Carried(req'[c]) /\ Placed(c)'
      BY <1>2, <2>1 DEF Carried, Placed, Begun, Creating, Deleting, Reading, Placing
    <2>3. ContentStep(c)
      BY <1>1, <1>2, <1>5, <2>1 DEF ContentStep, Creating
    <2>4. PlaceStep(c)
      <3>1. RowStep(c)
        BY <1>1, <2>1 DEF RowStep, Creating, Begun, Found, Placing
      <3> QED BY <1>1, <1>5, <2>1, <2>2, <3>1 DEF PlaceStep
    <2>5. KeepStep(c)
      BY <1>1, <1>2, <1>5, <2>1 DEF KeepStep, Leaving, Updating
    <2> QED BY <2>2, <2>3, <2>4, <2>5 DEF StepKept
  <1> QED BY <1>3, <1>4, <1>5 DEF WriteTemp
(* A request whose record is replaced goes on as well.                     *)
LEMMA ReplacedMoves ==
    ASSUME TypeOK, NEW c \in Callers, NEW r \in Request, req' = [req EXCEPT ![c] = r],
           r.id = req[c].id, r.content = req[c].content, r.known = req[c].known
    PROVE  Moved(c) /\ req'[c] = r /\ \A b \in Callers : b # c => req'[b] = req[b]
  BY DEF TypeOK, Moved

LEMMA FailKeeps ==
    ASSUME AttachmentInv, NEW c \in Callers, Fail(c), req[c].at \in {"before", "load", "updated"},
           UNCHANGED <<unborn, unused, row, disk, unrecorded, abandoned>>
    PROVE  StepKept(c)
  <1>1. CASE req[c].content = None
    BY <1>1, Refused, NoTemp, EndsKeep DEF Fail, Leaving, disk
  <1>2. CASE req[c].content # None
    BY <1>2, GoesKeeps DEF Fail, Steps, Updating
  <1> QED BY <1>1, <1>2

LEMMA ReadBeforeKeeps ==
    ASSUME AttachmentInv, NEW c \in Callers, ReadBefore(c), UNCHANGED <<unborn, unused>>
    PROVE  StepKept(c)
  <1> DEFINE d == req[c].id
             r == [req[c] EXCEPT !.at = "load", !.loaded = row[d]]
  <1>1. TypeOK /\ req[c].at = "before" /\ req[c] \in Request /\ d \in Ids
        /\ UNCHANGED <<row, file, temps, unrecorded, abandoned>>
    BY DEF AttachmentInv, ReadBefore, TypeOK, Request, disk
  <1>2. CASE row[d] = None
    BY <1>1, <1>2, FailKeeps DEF ReadBefore
  <1>3. CASE row[d] # None
    <2>1. /\ r \in Request /\ r.at = "load"
          /\ r.id = d /\ r.content = req[c].content /\ r.known = req[c].known
      BY <1>1, <1>3 DEF TypeOK, Request, Steps, Updating
    <2>2. req' = [req EXCEPT ![c] = r] /\ UNCHANGED <<answered, stale>>
      BY <1>3 DEF ReadBefore
    <2> HIDE DEF r
    <2>3. Moved(c) /\ req'[c] = r /\ \A b \in Callers : b # c => req'[b] = req[b]
      BY <1>1, <2>1, <2>2, ReplacedMoves
    <2>4. Carried(r) /\ Placed(c)'
      BY <2>1, <2>3 DEF Carried, Placed, Begun, Creating, Deleting, Reading, Placing
    <2> QED BY <1>1, <2>1, <2>2, <2>3, <2>4, MovesKeep
            DEF Creating, Begun, Found, Placing, Leaving, Updating, disk
  <1> QED BY <1>2, <1>3

LEMMA LoadKeeps ==
    ASSUME AttachmentInv, NEW c \in Callers, Load(c), UNCHANGED <<unborn, unused>>
    PROVE  StepKept(c)
  <1> DEFINE d == req[c].id
             r == [req[c] EXCEPT !.at = "write", !.loaded = row[d], !.overtaken = FALSE]
  <1>1. TypeOK /\ req[c].at = "load" /\ req[c] \in Request /\ d \in Ids
        /\ UNCHANGED <<row, file, temps, unrecorded, abandoned>>
    BY DEF AttachmentInv, Load, TypeOK, Request, disk
  <1>2. CASE row[d] = None
    BY <1>1, <1>2, FailKeeps DEF Load
  <1>3. CASE row[d] # None
    <2>1. /\ r \in Request /\ r.at = "write" /\ r.loaded = row[d] /\ row[d] \in Titles
          /\ r.id = d /\ r.content = req[c].content /\ r.known = req[c].known
      BY <1>1, <1>3 DEF TypeOK, Request, Steps, Updating
    <2>2. req' = [req EXCEPT ![c] = r] /\ UNCHANGED <<answered, stale>>
      BY <1>3 DEF Load
    <2> HIDE DEF r
    <2>3. Moved(c) /\ req'[c] = r /\ \A b \in Callers : b # c => req'[b] = req[b]
      BY <1>1, <2>1, <2>2, ReplacedMoves
    <2>4. Carried(r) /\ Placed(c)'
      BY <1>1, <1>3, <2>1, <2>3 DEF Carried, Placed, Begun, Creating, Deleting, Reading, Placing
    <2> QED BY <1>1, <2>1, <2>2, <2>3, <2>4, MovesKeep
            DEF Creating, Begun, Found, Placing, Leaving, Updating, disk
  <1> QED BY <1>2, <1>3

(* What a write does to the requests: it marks those that will write the     *)
(* same row after it.                                                      *)
LEMMA WriteRowMoves ==
    ASSUME TypeOK, NEW c \in Callers, WriteRow(c)
    PROVE  /\ Moved(c) /\ req'[c].at = "updated"
           /\ \A b \in Callers : b # c /\ req[b].at = "write" /\ ~req'[b].overtaken =>
                 ~req[b].overtaken /\ req[b].id # req[c].id
  <1> DEFINE d == req[c].id
             mine == [req[c] EXCEPT !.at = "updated", !.title = None, !.loaded = None, !.overtaken = FALSE]
             marked(b) == req[b].overtaken \/ (req[b].at = "write" /\ req[b].id = d)
             other(b) == [req[b] EXCEPT !.overtaken = marked(b)]
  <1>1. req' = [b \in Callers |-> IF b = c THEN mine ELSE other(b)]
    BY DEF WriteRow
  <1>2. \A b \in Callers : req[b] \in Request
    BY DEF TypeOK
  <1>3. /\ mine \in Request /\ mine.at = "updated"
        /\ mine.id = d /\ mine.content = req[c].content /\ mine.known = req[c].known
    BY <1>2 DEF Request, Steps, Updating
  <1>4. ASSUME NEW b \in Callers
        PROVE  /\ other(b) \in Request /\ other(b).id = req[b].id /\ other(b).content = req[b].content
               /\ other(b).known = req[b].known /\ other(b).at = req[b].at
               /\ other(b).title = req[b].title /\ other(b).loaded = req[b].loaded
               /\ other(b).overtaken = marked(b)
    <2>1. marked(b) \in BOOLEAN
      BY <1>2, Zenon DEF Request
    <2> HIDE DEF marked
    <2> QED BY <1>2, <2>1 DEF Request
  <1> HIDE DEF mine, other
  <1>5. \A b \in Callers : req'[b] = IF b = c THEN mine ELSE other(b)
    BY <1>1
  <1>6. req' \in [Callers -> Request]
    BY <1>1, <1>3, <1>4
  <1>7. Moved(c) /\ req'[c].at = "updated"
    BY <1>3, <1>4, <1>5, <1>6 DEF Moved
  <1>8. ASSUME NEW b \in Callers, b # c, req[b].at = "write", ~req'[b].overtaken
        PROVE  ~req[b].overtaken /\ req[b].id # d
    <2>1. req'[b].overtaken <=> marked(b)
      <3>1. req'[b] = other(b)
        BY <1>5, <1>8
      <3> QED BY <1>4, <3>1, Zenon
    <2> QED BY <1>8, <2>1, Zenon
  <1> QED BY <1>7, <1>8

LEMMA WriteRowKeeps ==
    ASSUME AttachmentInv, NEW c \in Callers, WriteRow(c), UNCHANGED <<unborn, unused>>
    PROVE  StepKept(c)
  <1> DEFINE d == req[c].id
             x == req[c].content
             t == Retitled(c)
  <1>1. /\ TypeOK /\ Carried(req[c]) /\ Placed(c) /\ SentInv /\ TempsCollected
        /\ req[c].at = "write" /\ d \in Ids
        /\ UNCHANGED <<file, temps, answered, stale, unrecorded, abandoned>>
    BY DEF AttachmentInv, RequestInv, PlaceInv, WriteRow, TypeOK, Request, disk, history
  <1>2. t \in Titles /\ t # None
    BY <1>1, ConstantsAssumption DEF TypeOK, Request, Carried, Retitled
  <1>3. \A e \in Ids : row'[e] = IF e = d /\ row[d] # None THEN t ELSE row[e]
    BY <1>1 DEF WriteRow, TypeOK
  <1>4. /\ Moved(c) /\ req'[c].at = "updated" /\ req'[c].content = x /\ req'[c].id = d
        /\ \A b \in Callers : b # c /\ req[b].at = "write" /\ ~req'[b].overtaken =>
              ~req[b].overtaken /\ req[b].id # d
    BY <1>1, WriteRowMoves DEF Moved
  <1>5. Carried(req'[c]) /\ Placed(c)'
    BY <1>1, <1>2, <1>3, <1>4 DEF Carried, Placed, Begun, Creating, Deleting, Reading, Placing
  <1>6. ContentStep(c)
    BY <1>1, <1>4 DEF ContentStep, SentInv, Creating
  <1>7. PlaceStep(c)
    <2>1. RowStep(c)
      BY <1>1, <1>2, <1>3, <1>4 DEF RowStep, Creating, Begun, Found, Placing
    <2>2. \A b \in Callers : req[b].id \in Ids
      BY <1>1 DEF TypeOK, Request
    <2> QED BY <1>1, <1>2, <1>3, <1>4, <1>5, <2>1, <2>2 DEF PlaceStep
  <1>8. KeepStep(c)
    BY <1>1, <1>2, <1>3, <1>4 DEF KeepStep, Leaving, Updating
  <1> QED BY <1>5, <1>6, <1>7, <1>8 DEF StepKept

LEMMA RecordUpdatedKeeps ==
    ASSUME AttachmentInv, NEW c \in Callers, RecordUpdated(c), UNCHANGED <<unborn, unused>>
    PROVE  StepKept(c)
  <1> DEFINE step == IF req[c].content = None THEN "reread" ELSE "commit"
  <1>1. CASE Fail(c)
    BY <1>1, FailKeeps DEF RecordUpdated
  <1>2. CASE Goes(c, step) /\ UNCHANGED <<answered, stale>>
    <2>1. step \in Steps
      BY DEF Steps, Updating
    <2> QED BY <1>2, <2>1, GoesKeeps DEF RecordUpdated
  <1> QED BY <1>1, <1>2 DEF RecordUpdated

LEMMA CommitKeeps ==
    ASSUME AttachmentInv, NEW c \in Callers, Commit(c), UNCHANGED <<unborn, unused>>
    PROVE  StepKept(c)
  <1> DEFINE d == req[c].id
             x == req[c].content
  <1>1. /\ TypeOK /\ Carried(req[c]) /\ Placed(c) /\ SentInv /\ AnsweredInv
        /\ req[c].at = "commit" /\ d \in Ids
        /\ UNCHANGED <<row, unrecorded>>
    BY DEF AttachmentInv, RequestInv, PlaceInv, Commit, TypeOK, Request
  <1>2. /\ x \in Contents /\ x # None /\ (row[d] # None \/ d \in abandoned)
        /\ x \notin stale /\ x \notin answered[d] /\ req[c].known \subseteq answered[d]
    BY <1>1, ConstantsAssumption DEF Carried, Placed, Begun, Placing, SentInv, AnsweredInv
  <1>3. CASE temps' = temps \ {x} /\ Refuse(c) /\ UNCHANGED <<file, abandoned>>
    BY <1>1, <1>3, Refused, EndsKeep DEF Leaving
  <1>4. CASE abandoned' = abandoned \cup {x} /\ Refuse(c) /\ UNCHANGED disk
    BY <1>1, <1>4, Refused, EndsKeep DEF Leaving, disk
  <1>5. CASE file' = [file EXCEPT ![d] = x] /\ temps' = temps \ {x} /\ Succeed(c) /\ UNCHANGED abandoned
    <2>1. \A e \in Ids : file'[e] = IF e = d THEN x ELSE file[e]
      BY <1>1, <1>5 DEF TypeOK
    <2>2. /\ Ended(c)
          /\ \A y \in stale' : y \in stale \/ y \in req[c].known
          /\ \A e \in Ids :
                /\ answered[e] \subseteq answered'[e]
                /\ \A y \in answered'[e] : y \in answered[e] \/ (e = d /\ y = x /\ y # None)
      BY <1>5, Succeeded
    <2>3. ContentStep(c)
      BY <1>1, <1>2, <1>5, <2>1, <2>2 DEF ContentStep
    <2>4. PlaceStep(c)
      <3>1. RowStep(c)
        BY <1>1, <2>1, <2>2 DEF RowStep, Found, Placing
      <3>2. Placed(c)' /\ \A b \in Callers : b # c => req'[b] = req[b]
        BY <2>2 DEF Placed, Begun, Ended, Placing
      <3> QED BY <1>1, <1>5, <3>1, <3>2 DEF PlaceStep
    <2>5. KeepStep(c)
      <3>1. x \notin stale'
        BY <1>2, <2>2
      <3>2. \A e \in Ids : e # d /\ file[e] \in stale' => file[e] \in stale
        BY <1>1, <1>2, <2>2 DEF AnsweredInv
      <3> QED BY <1>1, <1>2, <1>5, <2>1, <3>1, <3>2 DEF KeepStep, Leaving
    <2>6. Carried(req'[c])
      BY <2>2 DEF Carried, Ended, Creating
    <2> QED BY <2>3, <2>4, <2>5, <2>6 DEF StepKept
  <1> QED BY <1>3, <1>4, <1>5 DEF Commit

LEMMA RereadKeeps ==
    ASSUME AttachmentInv, NEW c \in Callers, Reread(c), UNCHANGED <<unborn, unused>>
    PROVE  StepKept(c)
  <1>1. req[c].at = "reread" /\ req[c].content = None
    BY DEF AttachmentInv, RequestInv, Carried, Reread
  <1> QED BY <1>1, Answered, NoTemp, EndsKeep DEF Reread, Leaving, disk

LEMMA DropKeeps ==
    ASSUME AttachmentInv, NEW c \in Callers, Drop(c), UNCHANGED <<unborn, unused>>
    PROVE  StepKept(c)
  <1> DEFINE x == req[c].content
  <1>1. CASE temps' = temps \ {x} /\ UNCHANGED abandoned
    BY <1>1, Refused, EndsKeep DEF Drop, Leaving
  <1>2. CASE abandoned' = abandoned \cup {x} /\ UNCHANGED temps
    BY <1>2, Refused, EndsKeep DEF Drop, Leaving
  <1> QED BY <1>1, <1>2 DEF Drop
-----------------------------------------------------------------------------
(* Deleting and reading.                                                   *)

LEMMA NoContent ==
    ASSUME AttachmentInv, NEW c \in Callers, req[c].at \in Deleting \cup Reading
    PROVE  req[c].content = None /\ req[c].content \notin temps
  <1>1. req[c].content = None
    BY DEF AttachmentInv, RequestInv, Carried
  <1> QED BY <1>1, NoTemp

LEMMA SeekKeeps ==
    ASSUME AttachmentInv, NEW c \in Callers, Seek(c), UNCHANGED <<unborn, unused>>
    PROVE  StepKept(c)
  <1>1. req[c].content \notin temps
    BY NoContent DEF Seek, Deleting
  <1>2. CASE row[req[c].id] = None
    BY <1>1, <1>2, Answered, EndsKeep DEF Seek, Leaving, disk
  <1>3. CASE row[req[c].id] # None
    BY <1>3, GoesKeeps DEF Seek, Steps, Deleting
  <1> QED BY <1>2, <1>3

LEMMA RemoveKeeps ==
    ASSUME AttachmentInv, NEW c \in Callers, Remove(c), UNCHANGED <<unborn, unused>>
    PROVE  StepKept(c)
  <1> DEFINE d == req[c].id
             x == req[c].content
  <1>1. /\ TypeOK /\ req[c].at = "remove" /\ d \in Ids /\ x = None /\ x \notin temps
        /\ UNCHANGED <<file, temps, unrecorded>>
    BY NoContent DEF AttachmentInv, Remove, TypeOK, Request, disk, Deleting
  <1>2. CASE row[d] = None
    BY <1>1, <1>2, Answered, EndsKeep DEF Remove, Leaving
  <1>3. CASE row[d] # None
    <2>1. /\ Goes(c, "removed") /\ UNCHANGED <<answered, stale>>
          /\ row' = [row EXCEPT ![d] = None]
          /\ abandoned' = IF Overtaken(d) THEN abandoned \cup {d} ELSE abandoned
      BY <1>3 DEF Remove
    <2>2. /\ Moved(c) /\ req'[c].at = "removed" /\ \A b \in Callers : b # c => req'[b] = req[b]
          /\ req'[c].content = x /\ req'[c].id = d
      BY <1>1, <2>1, GoesMoves DEF Steps, Deleting, Moved
    <2>3. \A e \in Ids : row'[e] = IF e = d THEN None ELSE row[e]
      BY <1>1, <2>1 DEF TypeOK
    <2>4. Carried(req'[c]) /\ Placed(c)'
      BY <1>1, <2>2, <2>3 DEF Carried, Placed, Begun, Creating, Placing
    <2>5. ContentStep(c)
      BY <1>1, <2>1, <2>2 DEF ContentStep
    <2>6. PlaceStep(c)
      <3>1. RowStep(c)
        BY <1>1, <1>3, <2>2, <2>3 DEF RowStep, Creating, Begun, Found, Placing
      <3>2. \A b \in Callers : req[b].id \in Ids
        BY <1>1 DEF TypeOK, Request
      <3>3. abandoned \subseteq abandoned' /\ (d \in abandoned' \/ ~Overtaken(d))
        BY <2>1
      <3> QED BY <1>1, <2>2, <2>3, <2>4, <3>1, <3>2, <3>3 DEF PlaceStep
    <2>7. KeepStep(c)
      BY <1>1, <2>1, <2>2, <2>3 DEF KeepStep, Leaving
    <2> QED BY <2>4, <2>5, <2>6, <2>7 DEF StepKept
  <1> QED BY <1>2, <1>3

LEMMA RecordRemovedKeeps ==
    ASSUME AttachmentInv, NEW c \in Callers, RecordRemoved(c), UNCHANGED <<unborn, unused>>
    PROVE  StepKept(c)
  <1>1. req[c].content \notin temps
    BY NoContent DEF RecordRemoved, Deleting
  <1>2. CASE Goes(c, "unlink") /\ UNCHANGED <<answered, stale, abandoned>>
    BY <1>2, GoesKeeps DEF RecordRemoved, Steps, Deleting
  <1>3. CASE Answer(c) /\ abandoned' = abandoned \cup {req[c].id}
    BY <1>1, <1>3, Answered, EndsKeep DEF RecordRemoved, disk
  <1> QED BY <1>2, <1>3 DEF RecordRemoved

LEMMA UnlinkKeeps ==
    ASSUME AttachmentInv, NEW c \in Callers, Unlink(c), UNCHANGED <<unborn, unused>>
    PROVE  StepKept(c)
  <1> DEFINE d == req[c].id
  <1>1. /\ TypeOK /\ Placed(c) /\ req[c].at = "unlink" /\ d \in Ids /\ req[c].content \notin temps
        /\ UNCHANGED <<row, temps, unrecorded>> /\ Answer(c)
    BY NoContent DEF AttachmentInv, PlaceInv, Unlink, TypeOK, Request, Deleting
  <1>2. row[d] = None
    BY <1>1 DEF Placed
  <1>3. CASE file' = [file EXCEPT ![d] = Missing] /\ UNCHANGED abandoned
    <2>1. file'[d] = Missing
      BY <1>1, <1>3 DEF TypeOK
    <2> QED BY <1>1, <1>2, <1>3, <2>1, Answered, EndsKeep DEF Found
  <1>4. CASE abandoned' = abandoned \cup {d} /\ UNCHANGED file
    BY <1>1, <1>4, Answered, EndsKeep
  <1> QED BY <1>3, <1>4 DEF Unlink

LEMMA LookKeeps ==
    ASSUME AttachmentInv, NEW c \in Callers, Look(c), UNCHANGED <<unborn, unused>>
    PROVE  StepKept(c)
  <1>1. req[c].content \notin temps
    BY NoContent DEF Look, Reading
  <1>2. CASE row[req[c].id] = None
    BY <1>1, <1>2, Answered, EndsKeep DEF Look, Leaving, disk
  <1>3. CASE row[req[c].id] # None
    BY <1>3, GoesKeeps DEF Look, Steps, Reading
  <1> QED BY <1>2, <1>3

LEMMA OpenKeeps ==
    ASSUME AttachmentInv, NEW c \in Callers, Open(c), UNCHANGED <<unborn, unused>>
    PROVE  StepKept(c)
  <1>1. req[c].content \notin temps
    BY NoContent DEF Open, Reading
  <1> QED BY <1>1, Answered, EndsKeep DEF Open, Leaving, disk

-----------------------------------------------------------------------------
(* A request comes.                                                        *)

StartStep(c, r) ==
    /\ Start(c, r) /\ Carried(r) /\ r.known \subseteq answered[r.id]
    /\ \/ r.at = "task" /\ r.id \in unborn /\ unborn' = unborn \ {r.id}
       \/ r.at \in {"find", "seek", "look"} /\ unborn' = unborn

LEMMA StartsKeep ==
    ASSUME AttachmentInv, NEW c \in Callers, NEW r \in Request, StartStep(c, r)
    PROVE  AttachmentInv'
  <1>1. /\ TypeOK /\ RequestInv /\ UnbornInv /\ CreatorInv /\ PlaceInv /\ UnusedInv /\ SentInv
        /\ AnsweredInv /\ OrphanInv /\ TempsCollected /\ ListedIsWhole /\ ShownIsCurrent
    BY DEF AttachmentInv
  <1>2. /\ req[c].at = "idle" /\ r.content \in unused \cup {None} /\ unused' = unused \ {r.content}
        /\ \A b \in Callers : req'[b] = IF b = c THEN r ELSE req[b]
        /\ UNCHANGED <<row, file, temps, answered, stale, unrecorded, abandoned>>
    BY <1>1 DEF StartStep, Start, TypeOK, disk, history
  <1>3. /\ \A b \in Callers : req[b].id \in Ids
        /\ r.id \in Ids /\ unborn \subseteq Ids
    BY <1>1 DEF TypeOK, Request
  <1>4. UnbornInv'
    BY <1>1, <1>2 DEF StartStep, UnbornInv, Creating, Found, Placing
  <1>5. CreatorInv'
    <2>1. r.at \notin Found /\ (r.at \in Begun \/ r.at \in Creating => r.at = "task")
      BY DEF StartStep, Found, Placing, Begun, Creating
    <2>2. r.at = "task" => /\ row[r.id] = None
                           /\ \A b \in Callers : req[b].id = r.id => req[b].at \notin Creating \cup Found
      BY <1>1 DEF StartStep, UnbornInv
    <2> QED BY <1>1, <1>2, <2>1, <2>2, StepSets DEF CreatorInv
  <1>6. PlaceInv'
    <2>1. Placed(c)'
      BY <1>1, <1>2 DEF StartStep, Placed, UnbornInv, Begun, Placing
    <2>2. ASSUME NEW b \in Callers, b # c PROVE Placed(b)'
      <3>1. Placed(b)
        BY <1>1 DEF PlaceInv
      <3> QED BY <1>2, <2>2, <3>1 DEF Placed
    <2> QED BY <2>1, <2>2 DEF PlaceInv
  <1>7. UnusedInv'
    BY <1>1, <1>2 DEF UnusedInv
  <1>8. SentInv'
    <2> SUFFICES ASSUME NEW b \in Callers, req'[b].content # None
                 PROVE  LET y == req'[b].content IN
                        /\ y \notin stale'
                        /\ \A e \in Ids :
                              /\ y \notin answered'[e]
                              /\ file'[e] = y => e = req'[b].id /\ req'[b].at \in {"insert", "added", "undo"}
                        /\ \A a \in Callers : req'[a].content = y => a = b
                        /\ req'[b].at \in Creating \cup {"find", "temp"} => y \notin temps'
      BY DEF SentInv
    <2>1. \A y \in unused : \A a \in Callers : req[a].content # y
      BY <1>1 DEF UnusedInv
    <2>2. CASE b = c
      BY <1>1, <1>2, <2>1, <2>2 DEF UnusedInv
    <2>3. CASE b # c
      BY <1>1, <1>2, <2>1, <2>3 DEF SentInv
    <2> QED BY <2>2, <2>3
  <1>9. AnsweredInv'
    BY <1>1, <1>2 DEF StartStep, AnsweredInv
  <1>10. RequestInv'
    BY <1>1, <1>2 DEF StartStep, RequestInv
  <1>11. OrphanInv'
    BY <1>1, <1>2, StepSets DEF OrphanInv
  <1>12. TempsCollected'
    BY <1>1, <1>2 DEF TempsCollected, Updating
  <1>13. ListedIsWhole' /\ ShownIsCurrent'
    BY <1>1, <1>2 DEF ListedIsWhole, ShownIsCurrent
  <1>14. TypeOK'
    BY <1>1 DEF StartStep, Start, TypeOK, disk, history
  <1> QED BY <1>4, <1>5, <1>6, <1>7, <1>8, <1>9, <1>10, <1>11, <1>12, <1>13, <1>14 DEF AttachmentInv

LEMMA CreateStarts ==
    ASSUME AttachmentInv, NEW c \in Callers, NEW d \in Ids, NEW x \in Contents, NEW t \in Titles,
           StartCreate(c, d, x, t)
    PROVE  \E r \in Request : StartStep(c, r)
  <1> DEFINE r == [NoRequest EXCEPT !.at = "task", !.id = d, !.content = x, !.title = t]
  <1>1. /\ r \in Request /\ r.at = "task" /\ r.id = d /\ r.content = x /\ r.title = t /\ r.known = {}
    BY NoRequestTyped DEF Request, Steps, Creating
  <1>2. Start(c, r) /\ d \in unborn /\ unborn' = unborn \ {d}
    BY DEF StartCreate
  <1> HIDE DEF r
  <1>3. Carried(r)
    BY <1>1 DEF Carried, Deleting, Reading
  <1> QED BY <1>1, <1>2, <1>3 DEF StartStep

LEMMA UpdateStarts ==
    ASSUME AttachmentInv, NEW c \in Callers, NEW d \in Documents, NEW x \in Contents \cup {None},
           NEW t \in Titles \cup {None}, StartUpdate(c, d, x, t)
    PROVE  \E r \in Request : StartStep(c, r)
  <1> DEFINE k == IF x = None THEN {} ELSE answered[d]
             r == [NoRequest EXCEPT !.at = "find", !.id = d, !.content = x, !.title = t, !.known = k]
  <1>1. TypeOK /\ d \in Ids
    BY DEF AttachmentInv, Ids
  <1>2. k \subseteq Contents /\ k \subseteq answered[d]
    BY <1>1 DEF TypeOK
  <1>3. Start(c, r) /\ unborn' = unborn
    BY DEF StartUpdate
  <1> HIDE DEF k
  <1>4. /\ r \in Request /\ r.at = "find" /\ r.id = d /\ r.content = x /\ r.title = t /\ r.known = k
    BY <1>1, <1>2, NoRequestTyped DEF Request, Steps, Updating
  <1> HIDE DEF r
  <1>5. Carried(r)
    BY <1>4 DEF Carried, Creating, Deleting, Reading
  <1> QED BY <1>2, <1>3, <1>4, <1>5 DEF StartStep

LEMMA BareStarts ==
    ASSUME AttachmentInv, NEW c \in Callers, NEW d \in Ids, StartDelete(c, d) \/ StartRead(c, d)
    PROVE  \E r \in Request : StartStep(c, r)
  <1>1. PICK step \in {"seek", "look"} : Start(c, [NoRequest EXCEPT !.at = step, !.id = d])
    BY DEF StartDelete, StartRead
  <1> DEFINE r == [NoRequest EXCEPT !.at = step, !.id = d]
  <1>2. unborn' = unborn
    BY DEF StartDelete, StartRead
  <1>3. /\ r \in Request /\ r.at = step /\ r.id = d /\ r.content = None /\ r.known = {}
    BY NoRequestTyped DEF Request, Steps, Deleting, Reading
  <1>4. Start(c, r)
    BY <1>1
  <1> HIDE DEF r
  <1>5. Carried(r)
    BY <1>3 DEF Carried, Creating
  <1> QED BY <1>2, <1>3, <1>4, <1>5 DEF StartStep
-----------------------------------------------------------------------------
(* The task is deleted; the server dies.                                   *)

LEMMA DeleteTaskKeeps ==
    ASSUME AttachmentInv, DeleteTask
    PROVE  AttachmentInv'
  <1>1. /\ TypeOK /\ RequestInv /\ UnbornInv /\ CreatorInv /\ PlaceInv /\ UnusedInv /\ SentInv
        /\ AnsweredInv /\ OrphanInv /\ TempsCollected
    BY DEF AttachmentInv
  <1>2. /\ UNCHANGED <<unborn, unused, file, temps, req, answered, stale, unrecorded>>
        /\ \A d \in Ids : row'[d] = None
        /\ abandoned' = abandoned \cup {d \in Ids : row[d] # None}
        /\ \A b \in Callers : req[b].id \in Ids
    BY <1>1 DEF DeleteTask, disk, TypeOK, Request
  <1>3. TypeOK'
    BY <1>1 DEF TypeOK, DeleteTask, disk
  <1>4. RequestInv' /\ UnusedInv' /\ SentInv' /\ AnsweredInv'
    BY <1>1, <1>2 DEF RequestInv, UnusedInv, SentInv, AnsweredInv
  <1>5. UnbornInv' /\ CreatorInv'
    BY <1>1, <1>2 DEF UnbornInv, CreatorInv, TypeOK
  <1>6. PlaceInv'
    <2> SUFFICES ASSUME NEW c \in Callers PROVE Placed(c)'
      BY DEF PlaceInv
    <2>1. Placed(c) /\ req[c].id \in Ids
      BY <1>1, <1>2 DEF PlaceInv
    <2> QED BY <1>2, <2>1 DEF Placed
  <1>7. OrphanInv' /\ TempsCollected' /\ ListedIsWhole' /\ ShownIsCurrent'
    BY <1>1, <1>2 DEF OrphanInv, TempsCollected, ListedIsWhole, ShownIsCurrent
  <1> QED BY <1>3, <1>4, <1>5, <1>6, <1>7 DEF AttachmentInv

LEMMA CrashKeeps ==
    ASSUME AttachmentInv, Crash
    PROVE  AttachmentInv'
  <1>1. /\ TypeOK /\ UnbornInv /\ UnusedInv /\ AnsweredInv /\ OrphanInv
        /\ ListedIsWhole /\ ShownIsCurrent
    BY DEF AttachmentInv
  <1> DEFINE left == {req[c].id : c \in {b \in Callers : req[b].at \in {"fill", "insert", "undo", "removed", "unlink"}}}
  <1>2. /\ UNCHANGED <<live, unborn, unused, row, file, temps, answered, stale, unrecorded>>
        /\ req' = [c \in Callers |-> NoRequest]
        /\ abandoned' = abandoned \cup temps \cup left
    BY DEF Crash, disk
  <1>3. \A c \in Callers : req'[c] = NoRequest
    BY <1>2
  <1>4. left \subseteq Ids /\ \A c \in Callers : req[c].at \in Leaving => req[c].id \in left
    BY <1>1 DEF TypeOK, Request, Leaving
  <1> HIDE DEF left
  <1>5. TypeOK'
    BY <1>1, <1>2, <1>4, NoRequestTyped DEF TypeOK
  <1>6. RequestInv' /\ SentInv'
    BY <1>3, NoRequestTyped DEF RequestInv, SentInv, Carried, Creating
  <1>7. UnbornInv' /\ CreatorInv'
    BY <1>1, <1>2, <1>3, NoRequestTyped, StepSets DEF UnbornInv, CreatorInv, Begun
  <1>8. PlaceInv'
    BY <1>3, NoRequestTyped DEF PlaceInv, Placed, Begun, Placing
  <1>9. UnusedInv'
    <2>1. \A x \in unused : x # None
      BY <1>1, ConstantsAssumption DEF TypeOK
    <2> QED BY <1>1, <1>2, <1>3, <2>1, NoRequestTyped DEF UnusedInv
  <1>10. AnsweredInv'
    BY <1>1, <1>2, <1>3, NoRequestTyped DEF AnsweredInv
  <1>11. OrphanInv'
    BY <1>1, <1>2, <1>4 DEF OrphanInv
  <1>12. TempsCollected'
    BY <1>2 DEF TempsCollected
  <1>13. ListedIsWhole' /\ ShownIsCurrent'
    BY <1>1, <1>2 DEF ListedIsWhole, ShownIsCurrent
  <1> QED BY <1>5, <1>6, <1>7, <1>8, <1>9, <1>10, <1>11, <1>12, <1>13 DEF AttachmentInv

-----------------------------------------------------------------------------
(* Every step of a request.                                                *)

LEMMA AdvanceTyped ==
    ASSUME AttachmentInv, NEW c \in Callers, Advance(c), req' \in [Callers -> Request]
    PROVE  TypeOK'
  <1>1. TypeOK /\ Carried(req[c])
    BY DEF AttachmentInv, RequestInv
  <1>2. /\ req[c] \in Request /\ req[c].id \in Ids /\ req[c].content \in Contents \cup {None}
        /\ req[c].title \in Titles \cup {None} /\ req[c].known \subseteq Contents
        /\ req[c].loaded \in Titles \cup {None}
        /\ UNCHANGED <<live, unborn, unused>>
    BY <1>1 DEF TypeOK, Request, Advance
  <1>3. req[c].at \in {"fill", "temp", "commit", "drop"} => req[c].content \in Contents
    BY <1>1 DEF Carried, Creating
  <1>4. answered' \in [Ids -> SUBSET Contents] /\ stale' \subseteq Contents
    <2>1. CASE UNCHANGED <<answered, stale>>
      BY <1>1, <2>1 DEF TypeOK
    <2>2. CASE Refuse(c)
      BY <1>1, <1>2, <2>2 DEF TypeOK, Refuse
    <2>3. CASE Answer(c)
      BY <1>1, <2>3 DEF TypeOK, Answer
    <2>4. CASE Succeed(c)
      BY <1>1, <1>2, <2>4, Succeeded DEF TypeOK
    <2> QED BY <2>1, <2>2, <2>3, <2>4
            DEF Advance, FindTask, Save, Fill, Insert, RecordAdded, Undo, FindDoc, WriteTemp, ReadBefore,
                Load, WriteRow, RecordUpdated, Commit, Reread, Drop, Seek, Remove, RecordRemoved, Unlink,
                Look, Open, Fail, history
  <1>5. row' \in [Ids -> Titles \cup {None}]
    <2>1. Retitled(c) \in Titles \cup {None}
      BY <1>2 DEF Retitled
    <2> QED BY <1>1, <1>2, <2>1
            DEF TypeOK, Advance, FindTask, Save, Fill, Insert, RecordAdded, Undo, FindDoc, WriteTemp, ReadBefore,
                Load, WriteRow, RecordUpdated, Commit, Reread, Drop, Seek, Remove, RecordRemoved, Unlink,
                Look, Open
  <1>6. file' \in [Ids -> Contents \cup {Missing, Partial}] /\ temps' \subseteq Contents
    BY <1>1, <1>2, <1>3
       DEF TypeOK, Advance, FindTask, Save, Fill, Insert, RecordAdded, Undo, FindDoc, WriteTemp, ReadBefore,
           Load, WriteRow, RecordUpdated, Commit, Reread, Drop, Seek, Remove, RecordRemoved, Unlink,
           Look, Open, disk
  <1>7. unrecorded' \subseteq Ids /\ abandoned' \subseteq Ids \cup Contents
    BY <1>1, <1>2, <1>3
       DEF TypeOK, Advance, FindTask, Save, Fill, Insert, RecordAdded, Undo, FindDoc, WriteTemp, ReadBefore,
           Load, WriteRow, RecordUpdated, Commit, Reread, Drop, Seek, Remove, RecordRemoved, Unlink,
           Look, Open, history
  <1> QED BY <1>1, <1>2, <1>4, <1>5, <1>6, <1>7 DEF TypeOK

LEMMA AdvanceKept ==
    ASSUME AttachmentInv, NEW c \in Callers, Advance(c)
    PROVE  StepKept(c)
  <1>1. UNCHANGED <<unborn, unused>>
    BY DEF Advance
  <1>2. CASE FindTask(c) \/ Save(c) \/ Fill(c) \/ Insert(c) \/ RecordAdded(c) \/ Undo(c)
    BY <1>1, <1>2, FindTaskKeeps, SaveKeeps, FillKeeps, InsertKeeps, RecordAddedKeeps, UndoKeeps
  <1>3. CASE FindDoc(c) \/ WriteTemp(c) \/ ReadBefore(c) \/ Load(c) \/ WriteRow(c)
    BY <1>1, <1>3, FindDocKeeps, WriteTempKeeps, ReadBeforeKeeps, LoadKeeps, WriteRowKeeps
  <1>4. CASE RecordUpdated(c) \/ Commit(c) \/ Reread(c) \/ Drop(c)
    BY <1>1, <1>4, RecordUpdatedKeeps, CommitKeeps, RereadKeeps, DropKeeps
  <1>5. CASE Seek(c) \/ Remove(c) \/ RecordRemoved(c) \/ Unlink(c) \/ Look(c) \/ Open(c)
    BY <1>1, <1>5, SeekKeeps, RemoveKeeps, RecordRemovedKeeps, UnlinkKeeps, LookKeeps, OpenKeeps
  <1> QED BY <1>2, <1>3, <1>4, <1>5 DEF Advance

LEMMA AdvanceKeeps ==
    ASSUME AttachmentInv, NEW c \in Callers, Advance(c)
    PROVE  AttachmentInv'
  <1>1. StepKept(c)
    BY AdvanceKept
  <1>2. req' \in [Callers -> Request]
    BY <1>1 DEF StepKept, ContentStep, Moved, Ended
  <1> QED BY <1>1, <1>2, AdvanceTyped, StepsKeep

LEMMA InitInv == Init => AttachmentInv
  <1> SUFFICES ASSUME Init PROVE AttachmentInv
    OBVIOUS
  <1>1. \A c \in Callers : req[c] = NoRequest
    BY DEF Init
  <1>2. TypeOK
    BY NoRequestTyped DEF Init, TypeOK
  <1>3. RequestInv /\ SentInv
    BY <1>1, NoRequestTyped DEF RequestInv, SentInv, Carried, Creating
  <1>4. UnbornInv /\ CreatorInv /\ PlaceInv
    BY <1>1, NoRequestTyped DEF Init, UnbornInv, CreatorInv, PlaceInv, Placed, Creating, Begun, Found, Placing
  <1>5. UnusedInv
    BY <1>1, NoRequestTyped, ConstantsAssumption DEF Init, UnusedInv
  <1>6. AnsweredInv
    BY <1>1, NoRequestTyped DEF Init, AnsweredInv
  <1>7. OrphanInv /\ TempsCollected /\ ListedIsWhole /\ ShownIsCurrent
    BY DEF Init, OrphanInv, TempsCollected, ListedIsWhole, ShownIsCurrent
  <1> QED BY <1>2, <1>3, <1>4, <1>5, <1>6, <1>7 DEF AttachmentInv

LEMMA NextInv == AttachmentInv /\ [Next]_vars => AttachmentInv'
  <1> SUFFICES ASSUME AttachmentInv, [Next]_vars PROVE AttachmentInv'
    OBVIOUS
  <1>1. CASE \E c \in Callers, d \in Ids, x \in Contents, t \in Titles : StartCreate(c, d, x, t)
    BY <1>1, CreateStarts, StartsKeep
  <1>2. CASE \E c \in Callers, d \in Documents, x \in Contents \cup {None}, t \in Titles \cup {None} :
               StartUpdate(c, d, x, t)
    BY <1>2, UpdateStarts, StartsKeep
  <1>3. CASE \E c \in Callers, d \in Ids : StartDelete(c, d) \/ StartRead(c, d)
    BY <1>3, BareStarts, StartsKeep
  <1>4. CASE \E c \in Callers : Advance(c)
    BY <1>4, AdvanceKeeps
  <1>5. CASE DeleteTask
    BY <1>5, DeleteTaskKeeps
  <1>6. CASE Crash
    BY <1>6, CrashKeeps
  <1>7. CASE UNCHANGED vars
    BY <1>7 DEF vars, disk, history, AttachmentInv, TypeOK, RequestInv, UnbornInv, CreatorInv, PlaceInv, Placed,
                UnusedInv, SentInv, AnsweredInv, OrphanInv, TempsCollected, ListedIsWhole, ShownIsCurrent
  <1> QED BY <1>1, <1>2, <1>3, <1>4, <1>5, <1>6, <1>7 DEF Next

-----------------------------------------------------------------------------
(* Each step is one of the store of registers.                             *)

LEMMA InFresh == \A e : e \in Fresh <=> e \in unborn \/ \E b \in Callers : req[b].id = e /\ req[b].at \in Begun
  BY DEF Fresh

LEMMA InPending ==
    \A y : y \in Pending <=>
        /\ y # None
        /\ y \in unused \/ \E b \in Callers : req[b].content = y /\ req[b].at \notin {"added", "undo"}
  BY DEF Pending

LEMMA InShown == \A e \in Ids : Shown[e] = IF row[e] = None \/ e \in unrecorded THEN None ELSE file[e]
  BY DEF Shown

(* Nothing appears and nothing is taken: the store stutters or withdraws.   *)
LEMMA Withdraws ==
    ASSUME Fresh' \subseteq Fresh, Pending' \subseteq Pending,
           \A e \in Ids : Shown'[e] \in {Shown[e], None}
    PROVE  Store!Next
  <1> DEFINE gone == {e \in Ids : Shown'[e] = None}
  <1>1. Shown' = [e \in Ids |-> IF e \in gone THEN None ELSE Shown[e]]
    BY DEF Shown
  <1>2. Store!Withdraw(gone)
    BY <1>1 DEF Store!Withdraw
  <1> QED BY <1>2 DEF Store!Next

LEMMA RequestStored ==
    ASSUME AttachmentInv, AttachmentInv', NEW c \in Callers, StepKept(c)
    PROVE  Store!Next
  <1> DEFINE d == req[c].id
             x == req[c].content
             at == req[c].at
             to == req'[c].at
  <1>1. /\ TypeOK /\ UnbornInv /\ CreatorInv /\ UnusedInv /\ SentInv /\ CreatorInv' /\ UnbornInv'
        /\ d \in Ids
    BY DEF AttachmentInv, TypeOK, Request
  <1>2. ContentStep(c) /\ RowStep(c) /\ KeepStep(c) /\ unused' = unused /\ unborn' = unborn
        /\ unrecorded \subseteq unrecorded'
    BY DEF StepKept, PlaceStep, ContentStep, RowStep
  <1>3. \A b \in Callers : b # c =>
          req'[b].id = req[b].id /\ req'[b].at = req[b].at /\ req'[b].content = req[b].content
    BY <1>2 DEF RowStep, Moved, Ended
  <1>4. \/ to = "idle" /\ req'[c].content = None
        \/ /\ req'[c].id = d /\ req'[c].content = x
           /\ to \in Begun => at \in Begun /\ row'[d] = row[d]
           /\ at \in {"added", "undo"} => to \in {"added", "undo"}
           /\ x # None /\ file'[d] = x => to \in {"insert", "added", "undo"}
    BY <1>2 DEF ContentStep, RowStep, Moved, Ended
  <1>5. Fresh' \subseteq Fresh
    <2> SUFFICES ASSUME NEW e \in Fresh' PROVE e \in unborn \/ \E b \in Callers : req[b].id = e /\ req[b].at \in Begun
      BY InFresh
    <2>1. CASE e \in unborn'
      BY <1>2, <2>1
    <2>2. CASE \E b \in Callers : req'[b].id = e /\ req'[b].at \in Begun
      BY <1>3, <1>4, <2>2, StepSets DEF Begun
    <2> QED BY <2>1, <2>2 DEF Fresh
  <1>6. Pending' \subseteq Pending
    <2> SUFFICES ASSUME NEW y \in Pending', y # None, y \notin unused
                 PROVE  \E b \in Callers : req[b].content = y /\ req[b].at \notin {"added", "undo"}
      BY InPending DEF Pending
    <2>1. PICK b \in Callers : req'[b].content = y /\ req'[b].at \notin {"added", "undo"}
      BY <1>2 DEF Pending
    <2> QED BY <1>3, <1>4, <2>1
  <1>7. CASE \A e \in Ids : Shown'[e] \in {Shown[e], None}
    BY <1>5, <1>6, <1>7, Withdraws
  <1>8. CASE \E e \in Ids : Shown'[e] \notin {Shown[e], None}
    <2>1. PICK e \in Ids : Shown'[e] \notin {Shown[e], None}
      BY <1>8
    <2>2. row'[e] # None /\ e \notin unrecorded' /\ Shown'[e] = file'[e]
      BY <2>1 DEF Shown
    <2>3. e = d /\ file'[d] = x /\ x \in Contents /\ Shown'[d] = x
      <3>1. ~(row[e] # None /\ e \notin unrecorded /\ file'[e] = file[e])
        BY <2>1, <2>2, InShown
      <3> QED BY <1>2, <2>2, <3>1 DEF KeepStep
    <2>4. x # None
      BY <2>3, ConstantsAssumption
    <2>5. \/ row[d] = None /\ at = "insert"
          \/ row[d] # None /\ Shown[d] = file[d] /\ file'[d] # file[d] /\ at \notin {"added", "undo"}
      <3>1. d \notin unrecorded
        BY <1>2, <2>2, <2>3
      <3>2. row[d] = None => at = "insert"
        BY <1>1, <1>2, <2>2, <2>3 DEF RowStep
      <3>3. row[d] # None => Shown[d] = file[d] /\ file'[d] # file[d]
        BY <1>1, <2>1, <2>2, <2>3, <3>1, InShown
      <3>4. file'[d] # file[d] => at \notin {"added", "undo"}
        BY <1>1, <1>2, <2>3, ConstantsAssumption DEF RowStep
      <3> QED BY <3>2, <3>3, <3>4
    <2>6. x \in Pending
      BY <2>4, <2>5, InPending
    <2>7. to \notin Begun
      <3> SUFFICES ASSUME to \in Begun PROVE FALSE
        OBVIOUS
      <3>1. req'[c].id = d /\ row'[d] = None
        BY <1>1, <1>4, StepSets DEF CreatorInv
      <3> QED BY <2>2, <2>3, <3>1
    <2>8. x \notin Pending'
      <3> SUFFICES ASSUME NEW b \in Callers, req'[b].content = x, req'[b].at \notin {"added", "undo"}
                   PROVE  FALSE
        <4>1. x \notin unused
          BY <1>1 DEF UnusedInv
        <4> QED BY <1>2, <4>1 DEF Pending
      <3>1. CASE b = c
        BY <1>4, <2>3, <2>4, <2>7, <3>1 DEF Begun
      <3>2. CASE b # c
        BY <1>1, <1>3, <2>4, <3>2 DEF SentInv
      <3> QED BY <3>1, <3>2
    <2>9. Shown' = [Shown EXCEPT ![d] = x]
      <3>1. ASSUME NEW f \in Ids, f # d PROVE Shown'[f] = Shown[f]
        <4>1. row'[f] = row[f] /\ file'[f] = file[f] /\ (f \in unrecorded' <=> f \in unrecorded)
          BY <1>2, <3>1 DEF RowStep
        <4> QED BY <4>1 DEF Shown
      <3>2. Shown' = [f \in Ids |-> Shown'[f]] /\ Shown = [f \in Ids |-> Shown[f]]
        BY DEF Shown
      <3> HIDE DEF d, x
      <3> QED BY <2>3, <3>1, <3>2
    <2>10. CASE row[d] = None /\ at = "insert"
      <3>1. d \in Fresh
        BY <2>10, InFresh DEF Begun
      <3>2. d \notin Fresh'
        <4> SUFFICES ASSUME NEW b \in Callers, req'[b].id = d, req'[b].at \in Begun
                     PROVE  FALSE
          <5>1. d \notin unborn
            BY <1>1, <2>10 DEF UnbornInv, Creating
          <5> QED BY <1>2, <5>1 DEF Fresh
        <4>1. b # c
          BY <2>7
        <4> QED BY <1>1, <1>3, <2>10, <4>1, StepSets DEF CreatorInv
      <3>3. Store!Publish(d, x)
        BY <1>5, <1>6, <2>6, <2>8, <2>9, <3>1, <3>2 DEF Store!Publish
      <3> QED BY <1>1, <2>3, <3>3 DEF Store!Next
    <2>11. CASE row[d] # None /\ Shown[d] = file[d]
      <3>1. Shown[d] # None
        BY <1>1, <2>11, ConstantsAssumption DEF TypeOK
      <3>2. Store!Replace(d, x)
        BY <1>5, <1>6, <2>6, <2>8, <2>9, <3>1 DEF Store!Replace
      <3> QED BY <1>1, <2>3, <3>2 DEF Store!Next
    <2> QED BY <2>5, <2>10, <2>11
  <1> QED BY <1>7, <1>8

LEMMA StartStored ==
    ASSUME AttachmentInv, NEW c \in Callers, NEW r \in Request, StartStep(c, r)
    PROVE  Store!Next
  <1>1. /\ r.content \in unused \cup {None} /\ unused' \subseteq unused
        /\ \A b \in Callers : req'[b] = IF b = c THEN r ELSE req[b]
        /\ UNCHANGED <<row, file, unrecorded>>
        /\ r.at \in Begun => r.id \in unborn
        /\ unborn' \subseteq unborn
    BY DEF AttachmentInv, TypeOK, StartStep, Start, disk, history, Begun
  <1>2. Fresh' \subseteq Fresh
    BY <1>1 DEF Fresh
  <1>3. Pending' \subseteq Pending
    BY <1>1 DEF Pending
  <1>4. \A e \in Ids : Shown'[e] = Shown[e]
    BY <1>1 DEF Shown
  <1> QED BY <1>2, <1>3, <1>4, Withdraws

LEMMA EveryStepStored == AttachmentInv /\ AttachmentInv' /\ [Next]_vars => [Store!Next]_(Store!vars)
  <1> SUFFICES ASSUME AttachmentInv, AttachmentInv', [Next]_vars PROVE [Store!Next]_(Store!vars)
    OBVIOUS
  <1>1. CASE \E c \in Callers, d \in Ids, x \in Contents, t \in Titles : StartCreate(c, d, x, t)
    BY <1>1, CreateStarts, StartStored
  <1>2. CASE \E c \in Callers, d \in Documents, x \in Contents \cup {None}, t \in Titles \cup {None} :
               StartUpdate(c, d, x, t)
    BY <1>2, UpdateStarts, StartStored
  <1>3. CASE \E c \in Callers, d \in Ids : StartDelete(c, d) \/ StartRead(c, d)
    BY <1>3, BareStarts, StartStored
  <1>4. CASE \E c \in Callers : Advance(c)
    BY <1>4, AdvanceKept, RequestStored
  <1>5. CASE DeleteTask
    <2>1. Fresh' = Fresh /\ Pending' = Pending
      BY <1>5 DEF DeleteTask, Fresh, Pending
    <2>2. \A e \in Ids : Shown'[e] = None
      BY <1>5 DEF DeleteTask, Shown
    <2> QED BY <2>1, <2>2, Withdraws
  <1>6. CASE Crash
    <2>1. \A b \in Callers : req'[b] = NoRequest
      BY <1>6 DEF Crash
    <2>2. UNCHANGED <<unborn, unused, row, file, unrecorded>>
      BY <1>6 DEF Crash, disk
    <2>3. Fresh' \subseteq Fresh
      BY <2>1, <2>2, NoRequestTyped DEF Fresh, Begun
    <2>4. Pending' \subseteq Pending
      BY <2>1, <2>2, NoRequestTyped DEF Pending
    <2>5. \A e \in Ids : Shown'[e] = Shown[e]
      BY <2>2 DEF Shown
    <2> QED BY <2>3, <2>4, <2>5, Withdraws
  <1>7. CASE UNCHANGED vars
    BY <1>7 DEF vars, disk, history, Store!vars, Shown, Fresh, Pending
  <1> QED BY <1>1, <1>2, <1>3, <1>4, <1>5, <1>6, <1>7 DEF Next

-----------------------------------------------------------------------------
(* The theorems.                                                           *)

(* Whatever fails, dies or interleaves in the attachment handlers, the      *)
(* inductive invariant holds.                                              *)
THEOREM Invariance == Spec => []AttachmentInv
  BY InitInv, NextInv, PTL DEF Spec

(* The columns of task_docs and task_images, the files and the handlers'     *)
(* positions stay in their domains.                                        *)
THEOREM TypeCorrect == Spec => []TypeOK
  <1>1. AttachmentInv => TypeOK
    BY DEF AttachmentInv
  <1> QED BY <1>1, Invariance, PTL

(* createDoc inserts the row after the file is whole, updateDoc renames a     *)
(* whole file over it and deleteDoc removes the row first: what is listed   *)
(* can be read, unless its creation failed at the history event.           *)
THEOREM Listed == Spec => []ListedIsWhole
  <1>1. AttachmentInv => ListedIsWhole
    BY DEF AttachmentInv
  <1> QED BY <1>1, Invariance, PTL

(* updateDoc's rename comes last: no document shows a content that was       *)
(* refused, or one that an answered update had replaced.                   *)
THEOREM Current == Spec => []ShownIsCurrent
  <1>1. AttachmentInv => ShownIsCurrent
    BY DEF AttachmentInv
  <1> QED BY <1>1, Invariance, PTL

(* A file that createDoc, uploadImage, deleteDoc or deleteImage left without  *)
(* a row is still being worked on, or one of the named accidents left it.  *)
THEOREM Orphans == Spec => []OrphansExplained
  <1>1. AttachmentInv => OrphansExplained
    <2>1. Leaving \subseteq Creating \cup Deleting
      BY DEF Leaving, Creating, Deleting
    <2> QED BY <2>1 DEF AttachmentInv, OrphanInv, OrphansExplained
  <1> QED BY <1>1, Invariance, PTL

(* Every way out of updateDoc clears its temporary file, but for a removal   *)
(* that fails and a crash.                                                 *)
THEOREM Temps == Spec => []TempsCollected
  <1>1. AttachmentInv => TempsCollected
    BY DEF AttachmentInv
  <1> QED BY <1>1, Invariance, PTL

(* UpdateTaskDoc writes back the title it read, so that an update without a   *)
(* title changes none that was written before its read.                    *)
THEOREM TitlesKept == Spec => RetitlingKept
  <1>1. AttachmentInv /\ [Next]_vars =>
          [\A c \in Callers :
              LET d == req[c].id IN
              WriteRow(c) /\ req[c].title = None /\ ~req[c].overtaken => row'[d] = row[d]]_vars
    <2> SUFFICES ASSUME AttachmentInv, NEW c \in Callers, WriteRow(c), req[c].title = None, ~req[c].overtaken
                 PROVE  row'[req[c].id] = row[req[c].id]
      OBVIOUS
    <2>1. row[req[c].id] \in {None, req[c].loaded} /\ Retitled(c) = req[c].loaded
      BY DEF AttachmentInv, PlaceInv, Placed, WriteRow, Retitled
    <2>2. req[c].id \in Ids /\ row \in [Ids -> Titles \cup {None}]
      BY DEF AttachmentInv, TypeOK, Request
    <2> QED BY <2>1, <2>2 DEF WriteRow
  <1> QED BY <1>1, Invariance, PTL DEF Spec, RetitlingKept

(* What createDoc, updateDoc, deleteDoc and getDocContent show of rows and    *)
(* files is a store of registers, whatever fails, dies or interleaves.     *)
THEOREM Implements == Spec => ImplementsStore
  <1>1. Init => Store!Init
    <2> SUFFICES ASSUME Init PROVE Store!Init
      OBVIOUS
    <2>1. \A b \in Callers : req[b] = NoRequest
      BY DEF Init
    <2>2. Fresh = Ids
      BY <2>1, NoRequestTyped DEF Init, Fresh, Begun
    <2>3. Pending = Contents
      BY <2>1, NoRequestTyped, ConstantsAssumption DEF Init, Pending
    <2>4. Shown = [d \in Ids |-> None]
      BY DEF Init, Shown
    <2> QED BY <2>2, <2>3, <2>4 DEF Store!Init
  <1> QED BY <1>1, EveryStepStored, Invariance, PTL DEF Spec, ImplementsStore, Store!Spec
=============================================================================
