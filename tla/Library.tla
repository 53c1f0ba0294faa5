------------------------------- MODULE Library -------------------------------
(***************************************************************************)
(* The music directory and its index: audio files with the files beside    *)
(* them, and the rows of tracks.  Three things change them.  A scan        *)
(* (scan.rs) walks the directory, indexes what it meets, afterwards        *)
(* deletes the rows of files that are gone or lie where the audiobooks     *)
(* are, and may go on to fetch the covers that albums lack (art.rs).  An   *)
(* import (federation.rs) brings in the files of one track: it is begun    *)
(* with a manifest, receives chunks, and is finished by linking the files  *)
(* to their paths and indexing the track; when a step fails, what was      *)
(* linked is removed again, as far as it can be.  And whoever owns the     *)
(* disk removes files.                                                     *)
(*                                                                         *)
(* Only the table of open transfers is locked.  Every file operation and   *)
(* every query is a step of its own.                                       *)
(*                                                                         *)
(* A path is a folder and "song" or "cover".  Two songs of one folder are  *)
(* as independent as songs of two folders.                                 *)
(***************************************************************************)
EXTENDS Naturals, FiniteSets

CONSTANTS Folder,
          Content,      \* what a file may hold, identified by its SHA-256
          Transfer,     \* imports
          Manifest,     \* what they may bring: for "song" and "cover" a content or None
          Found,        \* the files there are at first
          Excluded,     \* the folders below the directory of the audiobooks
          Picture,      \* what the cover archive may have
          None,         \* no file, no row, no hash
          Unhashed,     \* a row without a content hash
          MaxRemovals   \* bound: how often a file is removed from outside

Names == {"song", "cover"}
Path == Folder \X Names
Song(f) == <<f, "song">>
Cover(f) == <<f, "cover">>

ASSUME DistinctAssumption == None \notin Folder \cup Transfer \cup {Unhashed}
ASSUME RemovalsAssumption == MaxRemovals \in Nat
ASSUME FoundAssumption == Found \in [Path -> Content \cup {None}]
ASSUME ScanAssumption == Excluded \subseteq Folder /\ Picture \subseteq Content
ASSUME ManifestAssumption ==
  Manifest \subseteq {w \in [Names -> Content \cup {None}] : w["song"] # None}

VARIABLES
  file,      \* [Path -> Content \cup {None}]
  row,       \* [Folder -> Content \cup {Unhashed, None}]: the song's row, its stored hash
  import,    \* [Transfer -> ...]: where each import is
  scan,      \* where the scan is
  removals,  \* how often a file was removed from outside
  gone,      \* history: paths whose file was removed, from outside or by a failed
             \* import, or replaced by a cover that was fetched
  left,      \* history: paths whose file a failed import could not remove
  unsure,    \* history: songs that changed, or could not be indexed, while the scan runs
  doomed,    \* history: songs whose row the scan found listed but without a file,
             \* or excluded
  by         \* history: [Path -> Transfer \cup {None}], who linked the file

history == <<removals, gone, left, unsure, doomed, by>>
vars == <<file, row, import, scan, history>>

NoManifest == [n \in Names |-> None]

ImportPc == {"idle", "look", "open", "link", "hash", "undo", "imported", "failed"}
NoImport == [pc |-> "idle", want |-> NoManifest, dest |-> None,
             todo |-> {}, exists |-> {}, received |-> {}, linked |-> {}]
NoScan == [pc |-> "off", todo |-> {}, seen |-> {}, cur |-> None, excluded |-> {}]

TypeOK ==
  /\ file \in [Path -> Content \cup {None}]
  /\ row \in [Folder -> Content \cup {Unhashed, None}]
  /\ import \in [Transfer -> [pc: ImportPc, want: Manifest \cup {NoManifest},
                              dest: Folder \cup {None}, todo: SUBSET Names,
                              exists: SUBSET Names, received: SUBSET Names,
                              linked: SUBSET Names]]
  /\ scan \in [pc: {"off", "walk", "prune", "art"}, todo: SUBSET Folder, seen: SUBSET Folder,
               cur: Folder \cup {None}, excluded: SUBSET Folder]
  /\ removals \in 0..MaxRemovals
  /\ gone \subseteq Path /\ left \subseteq Path /\ unsure \subseteq Folder /\ doomed \subseteq Folder
  /\ by \in [Path -> Transfer \cup {None}]

(* A directory that no scan has met yet. *)
Init ==
  /\ file = Found
  /\ row = [f \in Folder |-> None]
  /\ import = [t \in Transfer |-> NoImport]
  /\ scan = NoScan
  /\ removals = 0 /\ gone = {} /\ left = {} /\ unsure = {} /\ doomed = {}
  /\ by = [p \in Path |-> None]

-----------------------------------------------------------------------------
(* Imports *)

At(t, n) == <<import[t].dest, n>>
Files(t) == {n \in Names : import[t].want[n] # None}
Missing(t) == Files(t) \ import[t].exists

(* The scan that runs cannot vouch for this song. *)
Doubt(f) == IF scan.pc \in {"walk", "prune"} THEN unsure \cup {f} ELSE unsure

Now(t, pc) == import' = [import EXCEPT ![t].pc = pc]
Failed == [NoImport EXCEPT !.pc = "failed"]
Fails(t) == import' = [import EXCEPT ![t] = Failed]

(* begin: the manifest is checked, and a track of the library with the      *)
(* song's stored hash decides where the files go.                           *)
Begin(t, w, f) ==
  LET same == {g \in Folder : row[g] = w["song"]} IN
  /\ import[t].pc = "idle"
  /\ \E g \in IF same = {} THEN {f} ELSE same :
       import' = [import EXCEPT ![t] = [NoImport EXCEPT !.pc = "look", !.want = w, !.dest = g,
                                          !.todo = {n \in Names : w[n] # None}]]
  /\ UNCHANGED <<file, row, scan, history>>

(* For each file: is it there already?  Another file at its path ends the   *)
(* import, and so does a file that cannot be read.                          *)
Look(t, n) ==
  /\ import[t].pc = "look" /\ n \in import[t].todo
  /\ \/ /\ file[At(t, n)] = None
        /\ import' = [import EXCEPT ![t].todo = @ \ {n}]
     \/ /\ file[At(t, n)] = import[t].want[n]
        /\ import' = [import EXCEPT ![t].todo = @ \ {n}, ![t].exists = @ \cup {n}]
     \/ Fails(t)
  /\ UNCHANGED <<file, row, scan, history>>

(* The transfer enters the table, and those that are in it for more than an *)
(* hour leave it: which ones is left open.                                  *)
Open(t) ==
  /\ import[t].pc = "look" /\ import[t].todo = {}
  /\ \E old \in SUBSET {u \in Transfer : import[u].pc = "open"} :
       import' = [u \in Transfer |->
                    IF u = t THEN [import[u] EXCEPT !.pc = "open"]
                    ELSE IF u \in old THEN Failed ELSE import[u]]
  /\ UNCHANGED <<file, row, scan, history>>

(* chunk: the data of a file that is missing; one chunk stands for all.     *)
Chunk(t, n) ==
  /\ import[t].pc = "open" /\ n \in Missing(t)
  /\ import' = [import EXCEPT ![t].received = @ \cup {n}]
  /\ UNCHANGED <<file, row, scan, history>>

Cancel(t) ==
  /\ import[t].pc = "open" /\ Fails(t)
  /\ UNCHANGED <<file, row, scan, history>>

(* finish: a complete transfer leaves the table; its files are verified.    *)
Finish(t) ==
  /\ import[t].pc = "open" /\ import[t].received = Missing(t)
  /\ import' = [import EXCEPT ![t].pc = "link", ![t].todo = Missing(t), ![t].received = {}]
  /\ UNCHANGED <<file, row, scan, history>>

FinishFails(t) ==
  /\ import[t].pc = "open" /\ import[t].received = Missing(t) /\ Fails(t)
  /\ UNCHANGED <<file, row, scan, history>>

Put(t, n) ==
  /\ file' = [file EXCEPT ![At(t, n)] = import[t].want[n]]
  /\ by' = [by EXCEPT ![At(t, n)] = t]
  /\ import' = [import EXCEPT ![t].todo = @ \ {n}, ![t].linked = @ \cup {n}]
  /\ left' = left \ {At(t, n)}
  /\ unsure' = IF n = "song" THEN Doubt(import[t].dest) ELSE unsure
  /\ UNCHANGED <<row, scan, removals, gone, doomed>>

\* Mutant: the file is moved to its path, over one that has appeared there.
LinkOver(t, n) ==
  /\ import[t].pc = "link" /\ n \in import[t].todo
  /\ Put(t, n)

(* A hard link is made only where there is no file. *)
Link(t, n) ==
  /\ import[t].pc = "link" /\ n \in import[t].todo
  /\ file[At(t, n)] = None
  /\ Put(t, n)

LinkFails(t) ==
  /\ import[t].pc = "link" /\ import[t].todo # {} /\ Now(t, "undo")
  /\ UNCHANGED <<file, row, scan, history>>

Indexed(f) == IF row[f] = None THEN Unhashed ELSE row[f]

(* The song is indexed even if it is gone again; a row keeps its hash.      *)
Index(t) ==
  /\ import[t].pc = "link" /\ import[t].todo = {}
  /\ row' = [row EXCEPT ![import[t].dest] = Indexed(import[t].dest)]
  /\ unsure' = IF file[At(t, "song")] = None \/ import[t].dest \in scan.excluded
                 THEN Doubt(import[t].dest) ELSE unsure
  /\ Now(t, "hash")
  /\ UNCHANGED <<file, scan, removals, gone, left, doomed, by>>

(* ... and its hash is stored, if the row is still there.                   *)
SetHash(t) ==
  /\ import[t].pc = "hash"
  /\ row' = [row EXCEPT ![import[t].dest] = IF @ = None THEN @ ELSE import[t].want["song"]]
  /\ import' = [import EXCEPT ![t].pc = "imported", ![t].exists = {}, ![t].linked = {}]
  /\ UNCHANGED <<file, scan, history>>

\* Mutant: when indexing fails, the linked files stay.
IndexFailsHalf(t) ==
  /\ \/ import[t].pc = "link" /\ import[t].todo = {}
     \/ import[t].pc = "hash"
  /\ Fails(t)
  /\ UNCHANGED <<file, row, scan, history>>

IndexFails(t) ==
  /\ \/ import[t].pc = "link" /\ import[t].todo = {}
     \/ import[t].pc = "hash"
  /\ Now(t, "undo")
  /\ UNCHANGED <<file, row, scan, history>>

(* What was linked is removed again, whatever lies at its path by now ...   *)
Undo(t, n) ==
  /\ import[t].pc = "undo" /\ n \in import[t].linked
  /\ file' = [file EXCEPT ![At(t, n)] = None]
  /\ import' = [import EXCEPT ![t].linked = @ \ {n}]
  /\ gone' = gone \cup {At(t, n)}
  /\ unsure' = IF n = "song" THEN Doubt(import[t].dest) ELSE unsure
  /\ by' = [by EXCEPT ![At(t, n)] = None]
  /\ UNCHANGED <<row, scan, removals, left, doomed>>

(* ... and stays when it cannot be removed, which nobody is told.           *)
UndoFails(t, n) ==
  /\ import[t].pc = "undo" /\ n \in import[t].linked
  /\ import' = [import EXCEPT ![t].linked = @ \ {n}]
  /\ left' = left \cup {At(t, n)}
  /\ UNCHANGED <<file, row, scan, removals, gone, unsure, doomed, by>>

Undone(t) ==
  /\ import[t].pc = "undo" /\ import[t].linked = {} /\ Fails(t)
  /\ UNCHANGED <<file, row, scan, history>>

ImportStep(t) ==
  \/ Open(t) \/ Cancel(t) \/ Finish(t) \/ FinishFails(t) \/ LinkFails(t)
  \/ Index(t) \/ SetHash(t) \/ IndexFails(t) \/ Undone(t)
  \/ \E n \in Names : Look(t, n) \/ Chunk(t, n) \/ Link(t, n) \/ Undo(t, n) \/ UndoFails(t, n)

-----------------------------------------------------------------------------
(* The scan *)

(* Only one runs at a time.  It leaves the audiobooks out, if there is a    *)
(* directory of them by now.                                                *)
StartScan ==
  /\ scan.pc = "off"
  /\ \E ex \in {{}, Excluded} :
       scan' = [NoScan EXCEPT !.pc = "walk", !.todo = Folder, !.excluded = ex]
  /\ UNCHANGED <<file, row, import, history>>

(* The walk leaves it out, finds no song, or cannot read where it is ...    *)
Pass(f) ==
  /\ scan.pc = "walk" /\ scan.cur = None /\ f \in scan.todo
  /\ scan' = [scan EXCEPT !.todo = @ \ {f}]
  /\ unsure' = IF file[Song(f)] = None \/ f \in scan.excluded THEN unsure ELSE unsure \cup {f}
  /\ UNCHANGED <<file, row, import, removals, gone, left, doomed, by>>

(* ... or meets one ... *)
Meet(f) ==
  /\ scan.pc = "walk" /\ scan.cur = None /\ f \in scan.todo
  /\ file[Song(f)] # None /\ f \notin scan.excluded
  /\ scan' = [scan EXCEPT !.todo = @ \ {f}, !.seen = @ \cup {f}, !.cur = f]
  /\ UNCHANGED <<file, row, import, history>>

(* ... and indexes it, gone or not. *)
IndexMet ==
  /\ scan.pc = "walk" /\ scan.cur # None
  /\ row' = [row EXCEPT ![scan.cur] = Indexed(scan.cur)]
  /\ scan' = [scan EXCEPT !.cur = None]
  /\ UNCHANGED <<file, import, history>>

\* Mutant: an error of the walk is booked for the song it met, if any or not.
IndexFailsAnytime ==
  /\ scan.pc = "walk"
  /\ scan' = [scan EXCEPT !.cur = None]
  /\ unsure' = unsure \cup {scan.cur}
  /\ UNCHANGED <<file, row, import, removals, gone, left, doomed, by>>

IndexMetFails ==
  /\ scan.pc = "walk" /\ scan.cur # None
  /\ scan' = [scan EXCEPT !.cur = None]
  /\ unsure' = unsure \cup {scan.cur}
  /\ UNCHANGED <<file, row, import, removals, gone, left, doomed, by>>

Rows == {f \in Folder : row[f] # None}

(* After the walk the rows of songs it did not meet are listed. *)
ListRows ==
  /\ scan.pc = "walk" /\ scan.cur = None /\ scan.todo = {}
  /\ scan' = [scan EXCEPT !.pc = "prune", !.todo = Rows \ scan.seen]
  /\ UNCHANGED <<file, row, import, history>>

\* Mutant: a song that the walk did not meet is taken for gone.
ProbeNot(f) ==
  /\ scan.pc = "prune" /\ scan.cur = None /\ f \in scan.todo
  /\ scan' = [scan EXCEPT !.todo = @ \ {f}, !.cur = f]
  /\ doomed' = IF file[Song(f)] = None \/ f \in scan.excluded THEN doomed \cup {f} ELSE doomed
  /\ UNCHANGED <<file, row, import, removals, gone, left, unsure, by>>

\* Mutant: every song is taken to be there.
ProbeNever(f) ==
  /\ scan.pc = "prune" /\ scan.cur = None /\ f \in scan.todo
  /\ scan' = [scan EXCEPT !.todo = @ \ {f}]
  /\ UNCHANGED <<file, row, import, history>>

(* Is such a song there after all?  If it is not, or is left out, ...       *)
Probe(f) ==
  /\ scan.pc = "prune" /\ scan.cur = None /\ f \in scan.todo
  /\ IF file[Song(f)] = None \/ f \in scan.excluded
       THEN /\ scan' = [scan EXCEPT !.todo = @ \ {f}, !.cur = f]
            /\ doomed' = doomed \cup {f}
       ELSE /\ scan' = [scan EXCEPT !.todo = @ \ {f}]
            /\ UNCHANGED doomed
  /\ UNCHANGED <<file, row, import, removals, gone, left, unsure, by>>

(* ... its row is deleted. *)
Prune ==
  /\ scan.pc = "prune" /\ scan.cur # None
  /\ row' = [row EXCEPT ![scan.cur] = None]
  /\ scan' = [scan EXCEPT !.cur = None]
  /\ UNCHANGED <<file, import, history>>

(* The scan of a start of the server goes on to fetch covers, if it is      *)
(* configured to.                                                           *)
Over ==
  /\ scan' \in {NoScan, [NoScan EXCEPT !.pc = "art", !.todo = Rows]}
  /\ unsure' = {}
  /\ UNCHANGED <<file, row, import, removals, gone, left, doomed, by>>

PruneFails == scan.pc = "prune" /\ scan.cur # None /\ Over

Complete == scan.pc = "prune" /\ scan.cur = None /\ scan.todo = {}

EndScan == Complete /\ Over

ScanStep ==
  \/ StartScan \/ IndexMet \/ IndexMetFails \/ ListRows \/ Prune \/ PruneFails \/ EndScan
  \/ \E f \in Folder : Pass(f) \/ Meet(f) \/ Probe(f)

-----------------------------------------------------------------------------
(* The covers *)

Fetching == scan.pc = "art"

(* For an album that has a cover neither in the index nor in its folder the *)
(* archive is asked.                                                        *)
SeekCover(f) ==
  /\ Fetching /\ scan.cur = None /\ f \in scan.todo
  /\ file[Cover(f)] = None
  /\ scan' = [scan EXCEPT !.todo = @ \ {f}, !.cur = f]
  /\ UNCHANGED <<file, row, import, history>>

(* What it answers, perhaps much later, is written over whatever there is.  *)
SaveCover ==
  /\ Fetching /\ scan.cur # None
  /\ \E c \in Picture : file' = [file EXCEPT ![Cover(scan.cur)] = c]
  /\ gone' = IF file[Cover(scan.cur)] = None THEN gone ELSE gone \cup {Cover(scan.cur)}
  /\ by' = [by EXCEPT ![Cover(scan.cur)] = None]
  /\ scan' = [scan EXCEPT !.cur = None]
  /\ UNCHANGED <<row, import, removals, left, unsure, doomed>>

NoCover ==
  /\ Fetching /\ scan.cur # None
  /\ scan' = [scan EXCEPT !.cur = None]
  /\ UNCHANGED <<file, row, import, history>>

(* All albums had their turn, or an operation failed. *)
EndFetch ==
  /\ Fetching /\ scan' = NoScan
  /\ UNCHANGED <<file, row, import, history>>

CoverStep ==
  \/ SaveCover \/ NoCover \/ EndFetch
  \/ \E f \in Folder : SeekCover(f)

-----------------------------------------------------------------------------
(* Whoever owns the disk removes a file. *)
Remove(p) ==
  /\ file[p] # None /\ removals < MaxRemovals
  /\ removals' = removals + 1
  /\ file' = [file EXCEPT ![p] = None]
  /\ gone' = gone \cup {p}
  /\ unsure' = IF p[2] = "song" THEN Doubt(p[1]) ELSE unsure
  /\ UNCHANGED <<row, import, scan, left, doomed, by>>

Next ==
  \/ \E t \in Transfer, w \in Manifest, f \in Folder : Begin(t, w, f)
  \/ \E t \in Transfer : ImportStep(t)
  \/ ScanStep
  \/ CoverStep
  \/ \E p \in Path : Remove(p)

Spec == Init /\ [][Next]_vars

-----------------------------------------------------------------------------
(* Properties *)

(* An import that looked for a file long ago does not write over one that   *)
(* has appeared since.  The one thing that replaces a file is a cover that  *)
(* was fetched, and only one that an import brought in since the album was  *)
(* found without.                                                           *)
NothingOverwritten ==
  [][\A p \in Path : file[p] # None /\ file'[p] # file[p] =>
       \/ file'[p] = None
       \/ Fetching /\ scan.cur # None /\ p = Cover(scan.cur) /\ by[p] # None]_file

(* An import that succeeded brought in all of its files and its track, with *)
(* the stored hash, and no scan takes the track away again.  It fails only  *)
(* where a file was removed, from outside or by an import that had linked   *)
(* it and failed, or replaced by a cover that was fetched, and where the    *)
(* scan had met a row without a file just before the file came back, or one *)
(* that it leaves out.                                                      *)
ImportedStays(t) ==
  import[t].pc = "imported" =>
    /\ \A n \in Files(t) : file[At(t, n)] = import[t].want[n] \/ At(t, n) \in gone
    /\ \/ row[import[t].dest] = import[t].want["song"]
       \/ At(t, "song") \in gone \/ import[t].dest \in doomed

(* An import that failed leaves no file behind but those that could not be  *)
(* removed.                                                                 *)
FailedLeavesNothing(t) ==
  import[t].pc = "failed" => \A p \in Path \ left : by[p] = t => file[p] = None

AllOrNothing == \A t \in Transfer : ImportedStays(t) /\ FailedLeavesNothing(t)

(* When a scan is through, the songs that nobody touched meanwhile have a   *)
(* row exactly if they have a file and the scan does not leave them out.    *)
ScanVouches ==
  Complete => \A f \in Folder \ unsure :
                row[f] # None <=> file[Song(f)] # None /\ f \notin scan.excluded
=============================================================================
