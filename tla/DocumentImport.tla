--------------------------- MODULE DocumentImport ---------------------------
(* importDocument (document-import.service.ts): the one pipeline by which     *)
(* WhatsApp, Gmail and forwarded mail bring a document into a business.  The  *)
(* module follows the imports of ONE content (one SHA-256) of one user; the   *)
(* ledger row of a business is unique by that content.  The Drive folder of   *)
(* a business is the set of its files with these bytes.                       *)
EXTENDS Naturals, FiniteSets

CONSTANTS Importers, Businesses, Files, NoFile, NoBusiness,
          LostAnswers  \* an insert may commit although its answer is lost

ASSUME LostAnswersAssumption == LostAnswers \in BOOLEAN

VARIABLES drive,     \* the files with these bytes in each business's folders
          ledger,    \* the file each business's imported_documents row names
          exposed,   \* history: files taken over while the import that had uploaded
                     \* them still ran, or uploaded and recorded without an answer
          importer   \* where each running import stands

archive == <<drive, ledger, exposed>>
importVars == <<archive, importer>>

ImportSteps == {"IDLE", "LOOKUP", "LIST", "ADOPT", "UPLOAD", "INSERT", "CLEAN",
                "IMPORTED", "ALREADY_IMPORTED", "SKIPPED"}

ImportTypeOK ==
  /\ drive \in [Businesses -> SUBSET Files]
  /\ ledger \in [Businesses -> Files \cup {NoFile}]
  /\ exposed \in [Businesses -> SUBSET Files]
  /\ importer \in [Importers -> [step: ImportSteps, business: Businesses \cup {NoBusiness},
                                 file: Files \cup {NoFile}, uploadedHere: BOOLEAN,
                                 duplicate: BOOLEAN]]

IdleImporter == [step |-> "IDLE", business |-> NoBusiness, file |-> NoFile,
                 uploadedHere |-> FALSE, duplicate |-> FALSE]

ImportInit ==
  /\ drive = [b \in Businesses |-> {}]
  /\ ledger = [b \in Businesses |-> NoFile]
  /\ exposed = [b \in Businesses |-> {}]
  /\ importer = [i \in Importers |-> IdleImporter]

Target(i) == importer[i].business

Ends(i, result) ==
  importer' = [importer EXCEPT ![i] =
    [IdleImporter EXCEPT !.step = result, !.business = importer[i].business]]

\* Drive never gives an identifier twice: a name nothing refers to stands for a new one.
Unused(b) ==
  {f \in Files : /\ f \notin drive[b] /\ ledger[b] # f
                 /\ \A i \in Importers : Target(i) = b => importer[i].file # f}

StartImport(i, b) ==
  /\ importer[i].step = "IDLE"
  /\ importer' = [importer EXCEPT ![i] = [IdleImporter EXCEPT !.step = "LOOKUP", !.business = b]]

\* The ledger is asked before any Drive work.
Lookup(i) ==
  /\ importer[i].step = "LOOKUP"
  /\ IF ledger[Target(i)] # NoFile THEN Ends(i, "ALREADY_IMPORTED")
     ELSE importer' = [importer EXCEPT ![i].step = "LIST"]
  /\ UNCHANGED archive

\* The running imports that have uploaded f to the business and may delete it again.
Uploaders(b, f) ==
  {j \in Importers : importer[j].uploadedHere /\ Target(j) = b /\ importer[j].file = f}

\* Nothing with these bytes is listed, or a listed file is taken over and not uploaded
\* again: one that a crash left, or one that another import has just uploaded.
ListFolders(i) ==
  /\ importer[i].step = "LIST"
  /\ \/ /\ drive[Target(i)] = {}
        /\ importer' = [importer EXCEPT ![i].step = "UPLOAD"]
        /\ UNCHANGED exposed
     \/ \E f \in drive[Target(i)] :
          /\ importer' = [importer EXCEPT ![i].step = "ADOPT", ![i].file = f]
          /\ exposed' = IF Uploaders(Target(i), f) = {} THEN exposed
                        ELSE [exposed EXCEPT ![Target(i)] = @ \cup {f}]
  /\ UNCHANGED <<drive, ledger>>

\* The bytes of the listed file are downloaded and verified.
Adopt(i) ==
  /\ importer[i].step = "ADOPT"
  /\ importer[i].file \in drive[Target(i)]
  /\ importer' = [importer EXCEPT ![i].step = "INSERT"]
  /\ UNCHANGED archive

\* A file with these bytes appears in the business's folder.
Store(b) ==
  LET f == CHOOSE f \in Unused(b) : TRUE
  IN  /\ Unused(b) # {}
      /\ drive' = [drive EXCEPT ![b] = @ \cup {f}]
      /\ exposed' = [exposed EXCEPT ![b] = @ \ {f}]

Upload(i) ==
  /\ importer[i].step = "UPLOAD"
  /\ Store(Target(i))
  /\ importer' = [importer EXCEPT ![i].step = "INSERT",
                                  ![i].file = CHOOSE f \in Unused(Target(i)) : TRUE,
                                  ![i].uploadedHere = TRUE]
  /\ UNCHANGED ledger

\* Listing, download or upload fails; an upload that failed may have stored the file.
DriveFails(i) ==
  /\ importer[i].step \in {"LIST", "ADOPT", "UPLOAD"}
  /\ Ends(i, "SKIPPED")
  /\ \/ UNCHANGED <<drive, exposed>>
     \/ importer[i].step = "UPLOAD" /\ Store(Target(i))
  /\ UNCHANGED ledger

\* Mutant of Compensates: whatever file the import holds is compensated.
CompensateAny(i) == TRUE

\* Compensation is permitted only for the import's own fresh upload.
Compensates(i) == importer[i].uploadedHere

InsertRow(i) ==
  /\ importer[i].step = "INSERT"
  /\ ledger[Target(i)] = NoFile
  /\ ledger' = [ledger EXCEPT ![Target(i)] = importer[i].file]
  /\ Ends(i, "IMPORTED")
  /\ UNCHANGED <<drive, exposed>>

\* Mutant of HitsUniqueKey: every error of the insert is taken for a duplicate.
AnyInsertError(i) == TRUE

HitsUniqueKey(i) == ledger[Target(i)] # NoFile

\* After any other error than a duplicate the import is skipped.
Fails(i, duplicate) ==
  IF Compensates(i)
  THEN importer' = [importer EXCEPT ![i].step = "CLEAN", ![i].duplicate = duplicate]
  ELSE Ends(i, IF duplicate THEN "ALREADY_IMPORTED" ELSE "SKIPPED")

\* The insert meets the unique key, or fails for another reason and writes nothing.
InsertFails(i, duplicate) ==
  /\ importer[i].step = "INSERT"
  /\ duplicate => HitsUniqueKey(i)
  /\ Fails(i, duplicate)
  /\ UNCHANGED archive

\* The insert commits and its answer is lost: it is taken for one that failed.
InsertUnanswered(i) ==
  /\ LostAnswers
  /\ importer[i].step = "INSERT"
  /\ ledger[Target(i)] = NoFile
  /\ ledger' = [ledger EXCEPT ![Target(i)] = importer[i].file]
  /\ exposed' = IF importer[i].uploadedHere
                THEN [exposed EXCEPT ![Target(i)] = @ \cup {importer[i].file}] ELSE exposed
  /\ Fails(i, FALSE)
  /\ UNCHANGED drive

\* The upload is deleted again, if Drive lets it.
CleanUp(i) ==
  /\ importer[i].step = "CLEAN"
  /\ Ends(i, IF importer[i].duplicate THEN "ALREADY_IMPORTED" ELSE "SKIPPED")
  /\ \/ drive' = [drive EXCEPT ![Target(i)] = @ \ {importer[i].file}]
     \/ UNCHANGED drive
  /\ UNCHANGED <<ledger, exposed>>

EndImport(i) == importer' = [importer EXCEPT ![i] = IdleImporter]

ImportStep(i) ==
  \/ Lookup(i) \/ ListFolders(i) \/ Adopt(i) \/ Upload(i) \/ DriveFails(i)
  \/ InsertRow(i) \/ InsertUnanswered(i) \/ CleanUp(i)
  \/ \E duplicate \in BOOLEAN : InsertFails(i, duplicate)

----------------------------------------------------------------------------
\* "Only after this row exists is the document considered imported": a document the ledger
\* calls imported is in the business's Drive folder.  (The code breaks this in two ways.)
RecordedFileExists ==
  \A b \in Businesses : ledger[b] # NoFile => ledger[b] \in drive[b]

\* There are no other ways: a recorded file is gone only if it was taken over from an
\* import that still ran, or if the answer to its insert was lost.  No other overlap,
\* crash, retry or failure of Drive or database lets a compensation delete it.
OnlyExposedFilesAreLost ==
  \A b \in Businesses : ledger[b] # NoFile => ledger[b] \in drive[b] \cup exposed[b]
=============================================================================
