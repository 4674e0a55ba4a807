-------------------------------- MODULE Imports --------------------------------
(***************************************************************************)
(* Imports of workbooks.  An import is one transaction, which accepts the   *)
(* workbook's digest, then its sources, then a content row with its         *)
(* provenance for each row of the workbook; any error rolls all of it back. *)
(* Two pieces of code write these tables: the loader (load_archive.py runs  *)
(* load_archive.sql as one transaction of psql), which passes over what is  *)
(* there, and ImportRepository (db/import.cc), which refuses it.  The       *)
(* repository has no caller of ImportRepository; whoever calls it runs its  *)
(* methods in the loader's order, in one transaction, as import.h asks.     *)
(* Imports run side by side and are repeated, each sees what is committed,  *)
(* and an insert of a key that another import has inserted waits for that   *)
(* import to end.                                                           *)
(***************************************************************************)
EXTENDS Naturals, FiniteSets

CONSTANTS Imports,     \* the transactions under way at one time
          Workbooks,   \* digests of workbooks
          Archives,    \* digests of archives, each with its schema version
          Sources,     \* the ids of the sources a workbook cites
          WorkbookRows,
          RowsOf,      \* the rows each archive exports
          NoArchive

ASSUME ImportsAssumption == /\ NoArchive \notin Archives /\ Sources # {}
                            /\ RowsOf \in [Archives -> SUBSET WorkbookRows]

VARIABLES batch,       \* committed: the archive accepted for a workbook
          source,      \* committed: whose metadata each source row has
          provenance,  \* committed: [workbook, row, from]
          phase,       \* where each import is
          artifact,    \* what it imports
          created,     \* it has inserted the batch
          cited,       \* the sources it has inserted
          traced       \* the rows whose provenance it has inserted

importVars == <<batch, source, provenance, phase, artifact, created, cited, traced>>
committed == <<batch, source, provenance>>
written == <<created, cited, traced>>

\* What is imported, and by which code.
Artifact == [workbook : Workbooks, archive : Archives, by : {"loader", "repository"}]

ImportsTypeOK ==
  /\ batch \in [Workbooks -> Archives \cup {NoArchive}]
  /\ source \in [Workbooks \X Sources -> Archives \cup {NoArchive}]
  /\ provenance \subseteq [workbook : Workbooks, row : WorkbookRows, from : Archives]
  /\ phase \in [Imports -> {"none", "resolve", "create", "sources", "rows"}]
  /\ artifact \in [Imports -> Artifact \cup {NoArchive}]
  /\ created \in [Imports -> BOOLEAN]
  /\ cited \in [Imports -> SUBSET Sources]
  /\ traced \in [Imports -> SUBSET WorkbookRows]

ImportsInit ==
  /\ batch = [w \in Workbooks |-> NoArchive]
  /\ source = [ws \in Workbooks \X Sources |-> NoArchive]
  /\ provenance = {}
  /\ phase = [i \in Imports |-> "none"]
  /\ artifact = [i \in Imports |-> NoArchive]
  /\ created = [i \in Imports |-> FALSE]
  /\ cited = [i \in Imports |-> {}]
  /\ traced = [i \in Imports |-> {}]

Advance(i, p) == phase' = [phase EXCEPT ![i] = p]

\* The transaction is gone, and with it what it had written.
Ended(i) ==
  /\ Advance(i, "none")
  /\ artifact' = [artifact EXCEPT ![i] = NoArchive]
  /\ created' = [created EXCEPT ![i] = FALSE]
  /\ cited' = [cited EXCEPT ![i] = {}]
  /\ traced' = [traced EXCEPT ![i] = {}]

\* The other imports of the same workbook.
Rivals(i) == {j \in Imports \ {i} : /\ phase[j] # "none"
                                    /\ artifact[j].workbook = artifact[i].workbook}

\* The provenance of a row is committed.
IsTraced(i, row) ==
  \E p \in provenance : p.workbook = artifact[i].workbook /\ p.row = row

BeginImport(i) ==
  \E a \in Artifact :
    /\ phase[i] = "none"
    /\ artifact' = [artifact EXCEPT ![i] = a]
    /\ Advance(i, "resolve")
    /\ UNCHANGED <<committed, written>>

\* Any statement fails, whatever it is: psql stops, or the caller gives up.
RollBackImport(i) ==
  /\ phase[i] # "none"
  /\ Ended(i)
  /\ UNCHANGED committed

\* Mutant: a batch of another archive is accepted for the workbook.
ResolveAnyBatch(i) ==
  /\ phase[i] = "resolve" /\ artifact[i].by = "repository"
  /\ Advance(i, IF batch[artifact[i].workbook] = NoArchive THEN "create" ELSE "sources")
  /\ UNCHANGED <<artifact, written, committed>>

\* ResolveBatch: what FindByWorkbookDigest finds is either the same artifact,
\* which is accepted again, or a conflict.
ResolveBatch(i) ==
  LET found == batch[artifact[i].workbook] IN
  /\ phase[i] = "resolve" /\ artifact[i].by = "repository"
  /\ \/ found = NoArchive /\ Advance(i, "create") /\ UNCHANGED <<artifact, written>>
     \/ found = artifact[i].archive /\ Advance(i, "sources") /\ UNCHANGED <<artifact, written>>
     \/ found \notin {NoArchive, artifact[i].archive} /\ Ended(i)
  /\ UNCHANGED committed

\* The digest is unique: the insert waits for a rival's, and is a conflict
\* when there is a batch by now, of whatever archive.
CreateBatch(i) ==
  /\ phase[i] = "create"
  /\ \A j \in Rivals(i) : ~created[j]
  /\ \/ /\ batch[artifact[i].workbook] = NoArchive
        /\ created' = [created EXCEPT ![i] = TRUE]
        /\ Advance(i, "sources")
        /\ UNCHANGED <<artifact, cited, traced>>
     \/ /\ batch[artifact[i].workbook] # NoArchive
        /\ Ended(i)
  /\ UNCHANGED committed

\* The loader's INSERT ... ON CONFLICT DO NOTHING waits as well; what is there
\* afterwards, his own or not, has to be of the same archive.
LoadBatch(i) ==
  LET found == batch[artifact[i].workbook] IN
  /\ phase[i] = "resolve" /\ artifact[i].by = "loader"
  /\ \A j \in Rivals(i) : ~created[j]
  /\ \/ /\ found \in {NoArchive, artifact[i].archive}
        /\ created' = [created EXCEPT ![i] = (found = NoArchive)]
        /\ Advance(i, "sources")
        /\ UNCHANGED <<artifact, cited, traced>>
     \/ found \notin {NoArchive, artifact[i].archive} /\ Ended(i)
  /\ UNCHANGED committed

\* INSERT ... ON CONFLICT DO NOTHING: the first accepted row wins.
EnsureSource(i, s) ==
  /\ phase[i] = "sources"
  /\ \A j \in Rivals(i) : s \notin cited[j]
  /\ \/ /\ source[<<artifact[i].workbook, s>>] = NoArchive
        /\ cited' = [cited EXCEPT ![i] = @ \cup {s}]
     \/ /\ source[<<artifact[i].workbook, s>>] # NoArchive
        /\ UNCHANGED cited
  /\ Advance(i, "sources")
  /\ UNCHANGED <<committed, artifact, created, traced>>

\* Mutant: the sources an import cites need not be there.
Unchecked(i) == Sources

Known(i) == cited[i] \cup {s \in Sources : source[<<artifact[i].workbook, s>>] # NoArchive}

\* The provenance of one row, linked to sources which have to be there.
AddProvenance(i, row) ==
  /\ phase[i] \in {"sources", "rows"} /\ artifact[i].by = "repository"
  /\ row \in RowsOf[artifact[i].archive] \ traced[i]
  /\ IsTraced(i, row) \/ \A j \in Rivals(i) : row \notin traced[j]
  /\ \/ /\ Sources \subseteq Known(i) /\ ~IsTraced(i, row)
        /\ traced' = [traced EXCEPT ![i] = @ \cup {row}]
        /\ Advance(i, "rows")
        /\ UNCHANGED <<artifact, created, cited>>
     \/ ~(Sources \subseteq Known(i) /\ ~IsTraced(i, row)) /\ Ended(i)
  /\ UNCHANGED committed

\* The loader takes the rows after all sources; one that is there is left alone.
LoadRow(i, row) ==
  /\ phase[i] \in {"sources", "rows"} /\ artifact[i].by = "loader"
  /\ Sources \subseteq Known(i)
  /\ row \in RowsOf[artifact[i].archive] \ traced[i]
  /\ IsTraced(i, row) \/ \A j \in Rivals(i) : row \notin traced[j]
  /\ traced' = [traced EXCEPT ![i] = @ \cup {row}]
  /\ Advance(i, "rows")
  /\ UNCHANGED <<committed, artifact, created, cited>>

\* The rows whose provenance it brings; what the loader left alone is not its own.
Brought(i) == {row \in traced[i] : ~IsTraced(i, row)}

\* The script has come to its end.
CommitImport(i) ==
  LET w == artifact[i].workbook  a == artifact[i].archive IN
  /\ phase[i] = "rows" /\ traced[i] = RowsOf[a]
  /\ batch' = IF created[i] THEN [batch EXCEPT ![w] = a] ELSE batch
  /\ source' = [ws \in DOMAIN source |->
                  IF ws \in {w} \X cited[i] THEN a ELSE source[ws]]
  /\ provenance' = provenance \cup [workbook : {w}, row : Brought(i), from : {a}]
  /\ Ended(i)

ImportsNext ==
  \E i \in Imports :
    \/ BeginImport(i) \/ RollBackImport(i)
    \/ ResolveBatch(i) \/ CreateBatch(i) \/ LoadBatch(i)
    \/ \E s \in Sources : EnsureSource(i, s)
    \/ \E row \in WorkbookRows : AddProvenance(i, row) \/ LoadRow(i, row)
    \/ CommitImport(i)

ImportsSpec == ImportsInit /\ [][ImportsNext]_importVars
-----------------------------------------------------------------------------
(* What was accepted for a workbook is of one archive: its sources and its   *)
(* rows come from the archive its batch names, whichever imports raced for   *)
(* the digest (import.h: or every provenance record would misstate its       *)
(* origin).                                                                  *)
OriginIsStated ==
  /\ \A p \in provenance : p.from = batch[p.workbook]
  /\ \A ws \in DOMAIN source : source[ws] \in {NoArchive, batch[ws[1]]}

(* One import is one transaction: a workbook is there with all its sources   *)
(* and rows, or not at all, also when an import fails late or is repeated.   *)
WholeOrNothing ==
  \A w \in Workbooks :
    batch[w] # NoArchive =>
      /\ \A row \in RowsOf[batch[w]] : \E p \in provenance : p.workbook = w /\ p.row = row
      /\ \A s \in Sources : source[<<w, s>>] # NoArchive
=============================================================================
