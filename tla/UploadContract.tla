---------------------------- MODULE UploadContract ----------------------------
(***************************************************************************)
(* What the attachment API promises of uploads: an upload begins only when *)
(* its identifier is free, takes parts of its own file and only while it is*)
(* not complete, becomes complete only with all of its parts, all of which *)
(* belong to the same upload, and ends when it is deleted or abandoned.    *)
(* Each of these is one step. Statements, locks and files are not visible. *)
(***************************************************************************)
CONSTANTS
  Ids,        \* identifiers
  Files,      \* the files that can be uploaded
  Name(_),    \* the identifier of a file
  Numbers(_), \* the numbers of the parts of a file
  None        \* "there is no such thing"

VARIABLE upload  \* the upload under each identifier, or None

Init == upload = [i \in Ids |-> None]

Uploading(i) == upload[i] # None /\ upload[i].status = "uploading"

Begin(f) ==
  /\ upload[Name(f)] = None
  /\ upload' = [upload EXCEPT
       ![Name(f)] = [file |-> f, status |-> "uploading", parts |-> {}]]

Take(i) ==
  /\ Uploading(i)
  /\ \E n \in Numbers(upload[i].file) :
       upload' = [upload EXCEPT ![i].parts = @ \union {n}]

Complete(i) ==
  /\ Uploading(i)
  /\ upload[i].parts = Numbers(upload[i].file)
  /\ upload' = [upload EXCEPT ![i].status = "complete"]

Delete(i) == upload' = [upload EXCEPT ![i] = None]

Abandon(gone) ==
  /\ \A i \in gone : Uploading(i)
  /\ upload' = [i \in Ids |-> IF i \in gone THEN None ELSE upload[i]]

Next ==
  \/ \E f \in Files : Begin(f)
  \/ \E i \in Ids : Take(i) \/ Complete(i) \/ Delete(i)
  \/ \E gone \in SUBSET Ids : Abandon(gone)

Spec == Init /\ [][Next]_upload
=============================================================================
