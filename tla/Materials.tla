----------------------------- MODULE Materials -----------------------------
(***************************************************************************)
(* Uploaded materials: the file kept in object storage, the row of         *)
(* `materials`, the background asyncio task that parses, chunks, embeds    *)
(* and stores (services/materials.py), and the requests that delete or     *)
(* reprocess a material while such a task may be running.                  *)
(*                                                                         *)
(* A text is what the parser makes of the file: a sequence of sections     *)
(* (pages, slides, headed parts), each a sequence of sentence lengths.  A  *)
(* chunk is a range of sentences of one section.                           *)
(***************************************************************************)
EXTENDS Integers, Sequences, SequencesExt

CONSTANTS
    Uploads,        \* the materials ever uploaded
    Runs,           \* background tasks alive at once
    Texts,          \* what the parser can return
    ChunkSize, Overlap, MinChunk,   \* MinChunk <= Overlap < ChunkSize
    Reprocesses,    \* BOUND: reprocess requests in a behaviour
    MaterialFaults  \* BOUND: refusals of a service and crashes

VARIABLES
    material,   \* the row: [status, count], and the text the parser finds in its file
    rows,       \* its rows of material_chunks, in order of insertion
    files,      \* the materials whose file is in storage
    run,        \* the background tasks
    redoing,    \* how many reprocess requests are between their deletion and their task
    closing,    \* materials whose row is deleted and whose file is not yet
    spoiled,    \* materials whose last processing is not alone, or did not run through
    asked, slips

(* The sizes of services/chunking.py: a chunk that is too small to keep is *)
(* no longer than what the next one carries.                               *)
ASSUME MaterialConstants ==
    /\ "none" \notin Uploads /\ Texts \subseteq Seq(Seq(Nat))
    /\ ChunkSize \in Nat /\ Overlap \in Nat /\ MinChunk \in Nat \ {0} /\ MinChunk <= Overlap

materialVars == <<material, rows, files, run, redoing, closing, spoiled, asked, slips>>

NoRun == [of |-> "none", at |-> "idle", made |-> <<>>, saved |-> 0]
Busy(m) == \E r \in Runs : run[r].of = m
Row(m) == material[m].status \in {"pending", "processing", "ready", "failed"}

----------------------------------------------------------------------------
(* services/chunking.py                                                    *)

(* The characters of sentences a .. b joined by single spaces.             *)
Span(sizes, a, b) == IF a > b THEN 0 ELSE SumFunctionOnSet(sizes, a .. b) + (b - a)

(* A new chunk starts with the sentence that did not fit.                  *)
CarryNothing(sizes, a, i) == i

(* Where the chunk that is being filled starts when sentence i joins it:   *)
(* a chunk that i would overfill is closed, and its longest tail of at     *)
(* most Overlap characters opens the next.                                 *)
Overfull(sizes, a, i) == a < i /\ Span(sizes, a, i - 1) + 1 + sizes[i] > ChunkSize
Carried(sizes, a, i) == Min({k \in a .. i : Span(sizes, k, i - 1) <= Overlap})
Starts(sizes) ==
    LET start[i \in DOMAIN sizes] ==
          IF i = 1 THEN 1
          ELSE LET a == start[i - 1]
               IN  IF Overfull(sizes, a, i) THEN Carried(sizes, a, i) ELSE a
    IN  start

(* _chunk_sliding_window: one chunk for each closing, and the last.        *)
SlidingWindow(sizes) ==
    LET start == Starts(sizes)
        Closed(i) == IF i > 1 /\ Overfull(sizes, start[i - 1], i)
                     THEN <<<<start[i - 1], i - 1>>>> ELSE <<>>
    IN  FlattenSeq([i \in DOMAIN sizes |-> Closed(i)])
          \o <<<<start[Len(sizes)], Len(sizes)>>>>

(* _chunk_by_sections: a section that fits is one chunk.                   *)
OfSection(sizes) ==
    IF Span(sizes, 1, Len(sizes)) > ChunkSize THEN SlidingWindow(sizes)
    ELSE <<<<1, Len(sizes)>>>>

(* chunk_document: chunks of fewer than MinChunk characters are dropped.   *)
Kept(text, s) ==
    LET made == OfSection(text[s])
        IsKept(c) == Span(text[s], made[c][1], made[c][2]) >= MinChunk
    IN  FlattenSeq([c \in DOMAIN made |-> IF IsKept(c) THEN <<<<s, made[c]>>>> ELSE <<>>])
Chunks(text) == FlattenSeq([s \in DOMAIN text |-> Kept(text, s)])

(* The sentences of section s that are in no chunk.                        *)
Lost(text, s) ==
    {i \in DOMAIN text[s] :
        \A c \in Range(Chunks(text)) : c[1] = s => i \notin c[2][1] .. c[2][2]}

----------------------------------------------------------------------------
MaterialInit ==
    /\ material \in [Uploads -> {[status |-> "absent", count |-> 0, text |-> t] : t \in Texts}]
    /\ rows = [m \in Uploads |-> <<>>]
    /\ files = {} /\ closing = {} /\ spoiled = {}
    /\ run = [r \in Runs |-> NoRun]
    /\ redoing = [m \in Uploads |-> 0]
    /\ asked = 0 /\ slips = 0

Slip == slips < MaterialFaults /\ slips' = slips + 1

(* update_material_status: an UPDATE that finds no row changes nothing,    *)
(* and chunk_count goes back to 0 unless it is given.                      *)
Status(m, status, count) ==
    material' = IF Row(m) THEN [material EXCEPT ![m].status = status, ![m].count = count]
                ELSE material

(* asyncio.create_task(self._process_material_safe(...))                   *)
Spawn(m) ==
    \E r \in Runs :
        run[r] = NoRun /\ run' = [run EXCEPT ![r] = [NoRun EXCEPT !.of = m, !.at = "start"]]

(* upload_material: the file is stored before its row exists.              *)
StoreFile(m) ==
    /\ material[m].status = "absent"
    /\ files' = files \cup {m}
    /\ material' = [material EXCEPT ![m].status = "stored"]
    /\ UNCHANGED <<rows, run, redoing, closing, spoiled, asked, slips>>

CreateMaterial(m) ==
    /\ material[m].status = "stored"
    /\ material' = [material EXCEPT ![m].status = "pending"]
    /\ Spawn(m)
    /\ UNCHANGED <<rows, files, redoing, closing, spoiled, asked, slips>>

(* create_material raises: the upload fails, and its file stays.           *)
UploadFails(m) ==
    /\ material[m].status = "stored"
    /\ Slip
    /\ material' = [material EXCEPT ![m].status = "gone"]
    /\ UNCHANGED <<rows, files, run, redoing, closing, spoiled, asked>>

(* process_material                                                        *)
Begin(r) ==
    /\ run[r].at = "start"
    /\ Status(run[r].of, "processing", 0)
    /\ run' = [run EXCEPT ![r].at = "parse"]
    /\ UNCHANGED <<rows, files, redoing, closing, spoiled, asked, slips>>

(* A text that makes no chunk ends the run as failed.                      *)
ParseAndChunk(r) ==
    /\ run[r].at = "parse"
    /\ LET m == run[r].of  made == Chunks(material[m].text) IN
         IF made = <<>>
         THEN Status(m, "failed", 0) /\ run' = [run EXCEPT ![r] = NoRun]
         ELSE run' = [run EXCEPT ![r].at = "embed", ![r].made = made] /\ UNCHANGED material
    /\ UNCHANGED <<rows, files, redoing, closing, spoiled, asked, slips>>

(* embed_batch: zip pairs the chunks with as many embeddings as came.      *)
Embed(r) ==
    /\ run[r].at = "embed"
    /\ \E n \in 0 .. Len(run[r].made) :
         /\ run' = [run EXCEPT ![r].at = "save", ![r].made = SubSeq(@, 1, n)]
         /\ IF n = Len(run[r].made) THEN UNCHANGED <<slips, spoiled>>
            ELSE Slip /\ spoiled' = spoiled \cup {run[r].of}
    /\ UNCHANGED <<material, rows, files, redoing, closing, asked>>

(* save_chunks: one INSERT a chunk, each committed by itself, for which    *)
(* the foreign key wants the material's row; then the material is ready.   *)
SaveChunk(r) ==
    /\ run[r].at = "save" /\ run[r].saved < Len(run[r].made) /\ Row(run[r].of)
    /\ rows' = [rows EXCEPT ![run[r].of] = Append(@, run[r].made[run[r].saved + 1])]
    /\ run' = [run EXCEPT ![r].saved = @ + 1]
    /\ UNCHANGED <<material, files, redoing, closing, spoiled, asked, slips>>

MarkReady(r) ==
    /\ run[r].at = "save" /\ run[r].saved = Len(run[r].made)
    /\ Status(run[r].of, "ready", Len(run[r].made))
    /\ run' = [run EXCEPT ![r] = NoRun]
    /\ UNCHANGED <<rows, files, redoing, closing, spoiled, asked, slips>>

(* _process_material_safe: a step that raises (a parser or the embedding   *)
(* service refuses, the material was deleted) ends the run as failed.      *)
MarkFailed(r) ==
    /\ run[r].at # "idle"
    /\ IF run[r].at = "save" /\ run[r].saved < Len(run[r].made) /\ ~ Row(run[r].of)
       THEN UNCHANGED slips ELSE Slip
    /\ Status(run[r].of, "failed", 0)
    /\ run' = [run EXCEPT ![r] = NoRun]
    /\ UNCHANGED <<rows, files, redoing, closing, spoiled, asked>>

(* The file is deleted first, and the row after it.                        *)
DeleteFileFirst(m) ==
    /\ Row(m)
    /\ files' = files \ {m}
    /\ closing' = closing \cup {m}
    /\ UNCHANGED <<material, rows, run, redoing, spoiled, asked, slips>>

(* delete_material: the row, and its chunks with it; then the file, whose  *)
(* deletion may fail and is only logged.                                   *)
DeleteRow(m) ==
    /\ Row(m)
    /\ material' = [material EXCEPT ![m].status = "gone"]
    /\ rows' = [rows EXCEPT ![m] = <<>>]
    /\ closing' = closing \cup {m}
    /\ UNCHANGED <<files, run, redoing, spoiled, asked, slips>>

DeleteFile(m) ==
    /\ m \in closing
    /\ closing' = closing \ {m}
    /\ \/ files' = files \ {m} /\ UNCHANGED slips
       \/ Slip /\ UNCHANGED files
    /\ UNCHANGED <<material, rows, run, redoing, spoiled, asked>>

(* Reprocessing keeps what was stored before.                              *)
DropNothing(m) ==
    /\ Row(m)
    /\ asked < Reprocesses /\ asked' = asked + 1
    /\ redoing' = [redoing EXCEPT ![m] = @ + 1]
    /\ spoiled' = IF Busy(m) \/ redoing[m] > 0 THEN spoiled \cup {m} ELSE spoiled \ {m}
    /\ UNCHANGED <<material, rows, files, run, closing, slips>>

(* reprocess_material, whatever the status and whoever else does it: the   *)
(* chunks go, the file is fetched, and a second task may join one that is  *)
(* still running.                                                          *)
DropChunks(m) ==
    /\ Row(m)
    /\ asked < Reprocesses /\ asked' = asked + 1
    /\ rows' = [rows EXCEPT ![m] = <<>>]
    /\ redoing' = [redoing EXCEPT ![m] = @ + 1]
    /\ spoiled' = IF Busy(m) \/ redoing[m] > 0 THEN spoiled \cup {m} ELSE spoiled \ {m}
    /\ UNCHANGED <<material, files, run, closing, slips>>

Respawn(m) ==
    /\ redoing[m] > 0 /\ m \in files
    /\ Spawn(m)
    /\ redoing' = [redoing EXCEPT ![m] = @ - 1]
    /\ UNCHANGED <<material, rows, files, closing, spoiled, asked, slips>>

(* download_file raises and the request ends; the row keeps its status.    *)
DownloadFails(m) ==
    /\ redoing[m] > 0
    /\ IF m \in files THEN Slip ELSE UNCHANGED slips
    /\ spoiled' = spoiled \cup {m}
    /\ redoing' = [redoing EXCEPT ![m] = @ - 1]
    /\ UNCHANGED <<material, rows, files, run, closing, asked>>

(* The process ends: requests and background tasks are gone, no run of     *)
(* them is resumed.                                                        *)
ProcessDies ==
    /\ Slip
    /\ run' = [r \in Runs |-> NoRun]
    /\ redoing' = [m \in Uploads |-> 0]
    /\ closing' = {}
    /\ spoiled' = spoiled \cup {m \in Uploads : Busy(m) \/ redoing[m] > 0}
    /\ material' = [m \in Uploads |->
           IF material[m].status = "stored" THEN [material[m] EXCEPT !.status = "gone"]
           ELSE material[m]]
    /\ UNCHANGED <<rows, files, asked>>

MaterialNext ==
    \/ \E m \in Uploads :
         \/ StoreFile(m) \/ CreateMaterial(m) \/ UploadFails(m)
         \/ DeleteRow(m) \/ DeleteFile(m)
         \/ DropChunks(m) \/ Respawn(m) \/ DownloadFails(m)
    \/ \E r \in Runs :
         Begin(r) \/ ParseAndChunk(r) \/ Embed(r) \/ SaveChunk(r) \/ MarkReady(r) \/ MarkFailed(r)
    \/ ProcessDies

MaterialSpec == MaterialInit /\ [][MaterialNext]_materialVars

----------------------------------------------------------------------------
(* Rows, files and runs keep their types, and an idle run holds nothing.   *)
MaterialTypeOK ==
    /\ \A m \in Uploads :
         /\ material[m].status \in
              {"absent", "stored", "pending", "processing", "ready", "failed", "gone"}
         /\ material[m].count \in Nat
         /\ redoing[m] \in Nat
    /\ \A r \in Runs : run[r].saved \in 0 .. Len(run[r].made) /\ (run[r].of \in Uploads => run[r].at # "idle")
    /\ files \cup closing \cup spoiled \subseteq Uploads

(* A material that has a row has its file: what the page offers to         *)
(* reprocess can be fetched again.                                         *)
FilesOutliveRows == \A m \in Uploads : Row(m) => m \in files

(* A material that is ready, whose last processing ran alone and to its    *)
(* end, is stored once and whole: its chunks in order, as many as its row  *)
(* says; a reprocessing leaves nothing of an earlier one.                  *)
ReadyIsWhole ==
    \A m \in Uploads :
        material[m].status = "ready" /\ ~ Busy(m) /\ redoing[m] = 0 /\ m \notin spoiled
          => /\ rows[m] = Chunks(material[m].text)
             /\ material[m].count = Len(rows[m])

(* Of every section of a document that became ready, whatever its          *)
(* sentences, chunking left out less than one smallest chunk.              *)
SectionsLoseLittle ==
    \A m \in Uploads :
        material[m].status = "ready" =>
            LET text == material[m].text IN
              \A s \in DOMAIN text : SumFunctionOnSet(text[s], Lost(text, s)) < MinChunk

(* A material that has a row has its file, one that is ready is whole, and *)
(* chunking loses less than one smallest chunk of a section                *)
(* (delete_material, process_material, chunk_document).                    *)
MaterialsAreWhole == FilesOutliveRows /\ ReadyIsWhole /\ SectionsLoseLittle

=============================================================================
