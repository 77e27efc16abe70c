------------------------------ MODULE KycDocuments -----------------------------
(***************************************************************************)
(* The files of one two-sided document, from quarantine to review, while   *)
(* the case is open for documents.                                         *)
(*                                                                         *)
(*   docs  the committed rows: the document and the live file of each side *)
(*         (a purged file is no file)                                      *)
(*   obj   the objects in storage of each live file: not transactional,    *)
(*         every put and delete is there at once and stays after a rollback *)
(*   scan  the worker's transaction: the file rows it locked (batch), those *)
(*         still to do, and the document and files as its session has them *)
(*   gone  the technician's delete has removed the objects and waits for   *)
(*         the rows; it holds the document                                 *)
(*   falls crashes so far                                                  *)
(*                                                                         *)
(* The worker does not lock the document: it reads it, works on the files  *)
(* and, when the status in its session is no longer the one it read,       *)
(* writes it back.                                                         *)
(***************************************************************************)
EXTENDS Naturals, FiniteSets

CONSTANTS
  Side,          \* allowed_sides of the document type; all are required
  MaxAttempts,   \* KYC_MAX_SCAN_ATTEMPTS
  MaxFalls       \* bound: how many transactions may crash or roll back

ASSUME DocsAssumption == MaxAttempts \in Nat \ {0} /\ MaxFalls \in Nat /\ IsFiniteSet(Side) /\ Side # {}

VARIABLES docs, obj, scan, gone, falls
docsVars == <<docs, obj, scan, gone, falls>>

\* odd: tells the file from the one uploaded just before or after it.
KycDocumentFile == [st : {"none", "PENDING", "CLEAN"}, tries : 0..MaxAttempts, odd : BOOLEAN]
NoFile == [st |-> "none", tries |-> 0, odd |-> FALSE]
DocumentStatus == {"NONE", "UPLOADING", "SCANNING", "PENDING_REVIEW", "INVALID"}
DocRow == [status : DocumentStatus, file : [Side -> KycDocumentFile]]
Bucket == {"quarantine", "clean"}
NoScan == [on |-> FALSE, batch |-> {}, todo |-> {}, was |-> "NONE",
           row |-> [status |-> "NONE", file |-> [s \in Side |-> NoFile]]]

DocsTypeOK == /\ docs \in DocRow /\ obj \in [Side -> SUBSET Bucket] /\ gone \in BOOLEAN /\ falls \in 0..MaxFalls
              /\ scan \in [on : BOOLEAN, batch : SUBSET Side, todo : SUBSET Side, was : DocumentStatus, row : DocRow]

\* purged_at is null.
live(row) == {s \in Side : row.file[s].st # "none"}

-------------------------------------------------------------------------------
(* The technician                                                          *)

_OPEN_FOR_FILES == {"UPLOADING", "INVALID"}

create_two_sided ==
  /\ docs.status = "NONE" /\ ~gone
  /\ docs' = [docs EXCEPT !.status = "UPLOADING"] /\ UNCHANGED <<obj, scan, gone, falls>>

\* A side that is there is purged first, so its row must be free.
may_upload(s) == docs.status \in _OPEN_FOR_FILES /\ ~gone /\ s \notin scan.batch

upload_side(s) ==
  LET row == [docs EXCEPT !.file[s] = [st |-> "PENDING", tries |-> 0, odd |-> ~@.odd]] IN
  /\ may_upload(s)
  /\ docs' = [row EXCEPT !.status = IF live(row) = Side THEN "SCANNING" ELSE "UPLOADING"]
  /\ obj' = [obj EXCEPT ![s] = {"quarantine"}]
  /\ UNCHANGED <<scan, gone, falls>>

\* It dies between the purge of the old object and the commit.
upload_falls(s) ==
  /\ may_upload(s) /\ docs.file[s].st # "none" /\ falls < MaxFalls
  /\ obj' = [obj EXCEPT ![s] = {}] /\ falls' = falls + 1
  /\ UNCHANGED <<docs, scan, gone>>

delete_objects ==
  /\ docs.status # "NONE" /\ ~gone
  /\ gone' = TRUE /\ obj' = [s \in Side |-> {}] /\ UNCHANGED <<docs, scan, falls>>

delete_commits ==
  /\ gone /\ scan.batch = {}
  /\ docs' = NoScan.row /\ gone' = FALSE /\ UNCHANGED <<obj, scan, falls>>

delete_falls ==
  /\ gone /\ falls < MaxFalls
  /\ gone' = FALSE /\ falls' = falls + 1 /\ UNCHANGED <<docs, obj, scan>>

-------------------------------------------------------------------------------
(* process_pending                                                         *)

scan_begins ==
  LET pending == {s \in Side : docs.file[s].st = "PENDING"} IN
  /\ ~scan.on /\ pending # {}
  /\ scan' = [on |-> TRUE, batch |-> pending, todo |-> pending, was |-> docs.status, row |-> docs]
  /\ UNCHANGED <<docs, obj, gone, falls>>

_reject(row, s) == [row EXCEPT !.file[s] = NoFile, !.status = "INVALID"]

\* Mutant: the document is complete as soon as every side has a file.
mark_clean_by_count(row, s) ==
  LET r == [row EXCEPT !.file[s].st = "CLEAN"] IN
  IF r.status = "SCANNING" /\ live(r) = Side THEN [r EXCEPT !.status = "PENDING_REVIEW"] ELSE r

mark_clean(row, s) ==
  LET r == [row EXCEPT !.file[s].st = "CLEAN"] IN
  IF r.status = "SCANNING" /\ live(r) = Side /\ \A x \in live(r) : r.file[x].st = "CLEAN"
  THEN [r EXCEPT !.status = "PENDING_REVIEW"] ELSE r

\* Mutant: the attempts are not counted.
retry_without_count(row, s) == row

retry_or_reject(row, s) ==
  IF row.file[s].tries + 1 >= MaxAttempts THEN _reject(row, s) ELSE [row EXCEPT !.file[s].tries = @ + 1]

ScanVerdict == {"clean", "infected", "invalid", "unavailable"}

\* verdict: what decrypting, the scanner and the sanitizer make of it.
scan_file(s, verdict) ==
  LET readable == "quarantine" \in obj[s]
      bad      == ~readable \/ verdict \in {"infected", "invalid"}
      row      == CASE bad -> _reject(scan.row, s)
                    [] ~bad /\ verdict = "unavailable" -> retry_or_reject(scan.row, s)
                    [] ~bad /\ verdict = "clean" -> mark_clean(scan.row, s)
  IN  /\ s \in scan.todo
      /\ ~readable => verdict = "invalid"
      /\ scan' = [scan EXCEPT !.todo = @ \ {s}, !.row = row]
      /\ obj' = [obj EXCEPT ![s] = CASE row.file[s].st = "none" -> {}
                                     [] row.file[s].st = "CLEAN" -> {"clean"}
                                     [] OTHER -> @]
      /\ UNCHANGED <<docs, gone, falls>>

\* The flush: the locked rows, and the status only if it is not the one that was loaded.
written == [status |-> IF scan.row.status # scan.was THEN scan.row.status ELSE docs.status,
            file |-> [s \in Side |-> IF s \in scan.batch THEN scan.row.file[s] ELSE docs.file[s]]]

WritesDocument == scan.row.status # scan.was

scan_commits ==
  /\ scan.on /\ scan.todo = {} /\ (WritesDocument => ~gone)
  /\ docs' = written /\ scan' = NoScan /\ UNCHANGED <<obj, gone, falls>>

scan_falls ==
  /\ scan.on /\ falls < MaxFalls
  /\ scan' = NoScan /\ falls' = falls + 1 /\ UNCHANGED <<docs, obj, gone>>

\* The worker waits for the document and the delete for the files: PostgreSQL aborts one of
\* the two and the other goes on.
deadlock_broken ==
  /\ scan.on /\ scan.todo = {} /\ WritesDocument /\ gone
  /\ scan' = NoScan /\ gone' = FALSE
  /\ docs' = written \/ docs' = NoScan.row
  /\ UNCHANGED <<obj, falls>>

-------------------------------------------------------------------------------
DocsInit == docs = NoScan.row /\ obj = [s \in Side |-> {}] /\ scan = NoScan /\ gone = FALSE /\ falls = 0

Scanning == \/ scan_begins \/ scan_commits \/ deadlock_broken
            \/ \E s \in Side, v \in ScanVerdict : scan_file(s, v)
DocsNext == \/ create_two_sided \/ delete_objects \/ delete_commits \/ delete_falls \/ scan_falls \/ Scanning
            \/ \E s \in Side : upload_side(s) \/ upload_falls(s)

\* The worker runs over and over, and a delete that has begun ends.
DocsFairness == WF_docsVars(Scanning) /\ WF_docsVars(delete_commits)
DocsSpec == DocsInit /\ [][DocsNext]_docsVars /\ DocsFairness

\* A document that is ready for the reviewer has every side, and every one scanned clean,
\* however uploads, scans, deletes and crashes were interleaved.
ReviewableIsClean == docs.status = "PENDING_REVIEW" => \A s \in Side : docs.file[s].st = "CLEAN"

\* No file waits in quarantine for ever: it is scanned, rejected, replaced or deleted.
FileSettles == \A s \in Side, odd \in BOOLEAN :
  LET waits == docs.file[s].st = "PENDING" /\ docs.file[s].odd = odd IN waits ~> ~waits
================================================================================
