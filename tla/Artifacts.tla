------------------------------- MODULE Artifacts -------------------------------
(***************************************************************************)
(* Files of documents and reports.  The file lives in object storage or on *)
(* disk, the row that points to it in the database; the two are written    *)
(* one after the other and the process may stop in between.  The key of a  *)
(* document is made of its content and name, so equal uploads share it;    *)
(* the key of a report is made of its id and the day of the download.      *)
(***************************************************************************)
EXTENDS Naturals, FiniteSets

CONSTANTS
  Files,      \* what users upload for one opportunity: the keys of documents
  Documents,  \* rows of opportunity_documents
  Reports,
  Days        \* the days on which reports are downloaded

VARIABLES
  objects,    \* keys under which the store holds an object
  docs,       \* document rows: the key each points to, Nothing without a row
  reports,    \* report rows: the key of the artefact, Nothing for NULL
  work,       \* requests between their two writes: kind, row and key
  shared      \* keys that two rows or requests have had in common

artifactVars == <<objects, docs, reports, work, shared>>

Nothing == <<>>
NoReport == <<"no report">>
Artefact(r, day) == <<r, day>>
Task(kind, row, key) == [kind |-> kind, row |-> row, key |-> key]

\* The keys of reports and those of documents have different prefixes.
ASSUME ArtifactsAssumption == \A r \in Reports, day \in Days : Artefact(r, day) \notin Files

ArtifactsInit ==
  /\ objects = {} /\ work = {} /\ shared = {}
  /\ docs = [d \in Documents |-> Nothing]
  /\ reports = [r \in Reports |-> Nothing]

Busy(row) == \E w \in work : w.row = row
InUse(key) == (\E d \in Documents : docs[d] = key) \/ \E w \in work : w.key = key

-----------------------------------------------------------------------------
(* Documents. *)

\* Mutant: the row first, the object after.
UploadRowFirst(d, f) ==
  /\ docs[d] = Nothing /\ ~Busy(d)
  /\ docs' = [docs EXCEPT ![d] = f]
  /\ work' = work \cup {Task("upload", d, f)}
  /\ shared' = IF InUse(f) THEN shared \cup {f} ELSE shared
  /\ UNCHANGED <<objects, reports>>

\* upload_document stores the file, then commits the row.
Upload(d, f) ==
  /\ docs[d] = Nothing /\ ~Busy(d)
  /\ objects' = objects \cup {f}
  /\ work' = work \cup {Task("upload", d, f)}
  /\ shared' = IF InUse(f) THEN shared \cup {f} ELSE shared
  /\ UNCHANGED <<docs, reports>>

\* delete_document removes the file, then commits the deletion of the row.
DeleteDocument(d) ==
  /\ docs[d] # Nothing /\ ~Busy(d)
  /\ objects' = objects \ {docs[d]}
  /\ work' = work \cup {Task("delete", d, docs[d])}
  /\ UNCHANGED <<docs, reports, shared>>

-----------------------------------------------------------------------------
(* Reports.  A download writes the artefact of its day; regenerate and delete  *)
(* remove the one the row points to.                                           *)

Download(r, day) ==
  /\ reports[r] # NoReport
  /\ objects' = objects \cup {Artefact(r, day)}
  /\ work' = work \cup {Task("download", r, Artefact(r, day))}
  /\ UNCHANGED <<docs, reports, shared>>

Discard(r, kind) ==
  /\ reports[r] # NoReport /\ ~Busy(r)
  /\ objects' = IF reports[r] = Nothing THEN objects ELSE objects \ {reports[r]}
  /\ work' = work \cup {Task(kind, r, Nothing)}
  /\ UNCHANGED <<docs, reports, shared>>

-----------------------------------------------------------------------------
\* The commit of a request.  The row may be gone by then: the request fails.
Commit(w) ==
  /\ work' = work \ {w}
  /\ CASE w.kind = "upload" -> docs' = [docs EXCEPT ![w.row] = w.key] /\ UNCHANGED reports
       [] w.kind = "delete" -> docs' = [docs EXCEPT ![w.row] = Nothing] /\ UNCHANGED reports
       [] OTHER ->
            /\ reports' = IF reports[w.row] = NoReport THEN reports
                          ELSE [reports EXCEPT ![w.row] =
                                  IF w.kind = "scrap" THEN NoReport ELSE w.key]
            /\ UNCHANGED docs
  /\ UNCHANGED <<objects, shared>>

\* The process stops, or the commit fails.
Cut(w) == work' = work \ {w} /\ UNCHANGED <<objects, docs, reports, shared>>

ArtifactsNext ==
  \/ \E d \in Documents : DeleteDocument(d) \/ \E f \in Files : Upload(d, f)
  \/ \E r \in Reports : \/ \E day \in Days : Download(r, day)
                        \/ Discard(r, "regenerate") \/ Discard(r, "scrap")
  \/ \E w \in work : Commit(w) \/ Cut(w)

ArtifactsSpec == ArtifactsInit /\ [][ArtifactsNext]_artifactVars

-----------------------------------------------------------------------------
(* Properties. *)

\* A document row whose file was never shared can be downloaded: cutting any
\* upload or deletion between its two writes leaves at worst a file without a
\* row, or a row whose own deletion had begun.
DocumentsReadable ==
  [][\A d \in Documents :
       docs'[d] # Nothing /\ docs'[d] \notin shared' /\ docs[d] = Nothing
         => docs'[d] \in objects']_artifactVars
=============================================================================
