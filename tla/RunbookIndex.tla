----------------------------- MODULE RunbookIndex -----------------------------
(***************************************************************************)
(* The re-indexing of the runbooks: the worker of src/rag/reindex_worker.py *)
(* runs ingest_runbooks (src/rag/ingestion.py) over a directory that people *)
(* edit at any time.  One database transaction spans a whole pass.          *)
(***************************************************************************)
EXTENDS Naturals

CONSTANTS Files, Contents,
          Empty, Absent, Unreadable, \* other things a path can hold
          MaxEdits,  \* bound: changes on the disk
          MaxFaults  \* bound: failures of the embedder or the database

Things == Contents \cup {Empty, Absent, Unreadable}

IndexAssumption ==
  /\ Empty # Absent /\ Empty # Unreadable /\ Absent # Unreadable
  /\ Contents \cap {Empty, Absent, Unreadable} = {}
  /\ MaxEdits \in Nat /\ MaxFaults \in Nat

VARIABLES
  disk,
  index,  \* the committed chunks of a path, each with the content it is of
  draft,  \* the chunks as the transaction sees them
  pc,
  todo,   \* md_files that the pass has yet to read
  cur,    \* the file that is being embedded: [file, content]
  seen,   \* history: what each path has held since the pass began
  edits, faults

vars == <<disk, index, draft, pc, todo, cur, seen, edits, faults>>

NoFile == [file |-> "none", content |-> Empty]
Indexed == Contents \cup {Empty}

Init == /\ disk \in [Files -> Contents \cup {Absent}]
        /\ index = [f \in Files |-> {}] /\ draft = index
        /\ pc = "asleep" /\ todo = {} /\ cur = NoFile
        /\ seen = [f \in Files |-> {}] /\ edits = 0 /\ faults = 0

-----------------------------------------------------------------------------
Edit(f, x) ==
  /\ edits < MaxEdits /\ edits' = edits + 1
  /\ x # disk[f]
  /\ disk' = [disk EXCEPT ![f] = x]
  /\ seen' = [seen EXCEPT ![f] = @ \cup {x}]
  /\ UNCHANGED <<index, draft, pc, todo, cur, faults>>

\* The interval is over: the directory is listed and the transaction begins.
Wake ==
  /\ pc = "asleep"
  /\ {f \in Files : disk[f] # Absent} # {}
  /\ todo' = {f \in Files : disk[f] # Absent}
  /\ draft' = index
  /\ pc' = "scanning"
  /\ seen' = [f \in Files |-> {disk[f]}]
  /\ UNCHANGED <<disk, index, cur, edits, faults>>

\* Mutant: a path that has chunks is never read again.
HasChunks(f) == draft[f] # {}

\* The hash in the first chunk that is found is the one of the file.
Unchanged(f) == \E c \in draft[f] : c.content = disk[f]

\* What of the old chunks stays when a path is read anew
StaleKept(f) == {}

\* The chunks of a content: two of them stand for several.
ChunksOf(x) == {[content |-> x, part |-> i] : i \in 1 .. 2}

\* The next file is read and compared: unchanged, emptied, or to be embedded.
Skip(f) ==
  /\ pc = "scanning" /\ f \in todo /\ disk[f] \in Indexed
  /\ Unchanged(f)
  /\ todo' = todo \ {f}
  /\ UNCHANGED <<disk, index, draft, pc, cur, seen, edits, faults>>

Replace(f) ==
  /\ pc = "scanning" /\ f \in todo /\ disk[f] \in Indexed
  /\ ~Unchanged(f)
  /\ draft' = [draft EXCEPT ![f] = StaleKept(f)]
  /\ todo' = todo \ {f}
  /\ IF disk[f] = Empty
     THEN UNCHANGED <<pc, cur>>
     ELSE pc' = "embedding" /\ cur' = [file |-> f, content |-> disk[f]]
  /\ UNCHANGED <<disk, index, seen, edits, faults>>

TextEmbedded == cur.content

Embed ==
  /\ pc = "embedding"
  /\ draft' = [draft EXCEPT ![cur.file] = @ \cup ChunksOf(TextEmbedded)]
  /\ pc' = "scanning" /\ cur' = NoFile
  /\ UNCHANGED <<disk, index, todo, seen, edits, faults>>

Commit ==
  /\ pc = "scanning" /\ todo = {}
  /\ index' = draft
  /\ pc' = "asleep"
  /\ UNCHANGED <<disk, draft, todo, cur, seen, edits, faults>>

\* The transaction is rolled back.
Abort ==
  /\ index' = index
  /\ pc' = "asleep" /\ todo' = {} /\ cur' = NoFile
  /\ UNCHANGED <<disk, draft, seen, edits>>

\* A listed file is gone or cannot be read: the whole pass fails.
ReadFails(f) ==
  /\ pc = "scanning" /\ f \in todo /\ disk[f] \in {Absent, Unreadable}
  /\ Abort
  /\ UNCHANGED faults

\* The embedder or the database fails.
Fails ==
  /\ pc # "asleep" /\ faults < MaxFaults /\ faults' = faults + 1
  /\ Abort

Pass == Wake \/ Embed \/ Commit \/ \E f \in Files : Skip(f) \/ Replace(f) \/ ReadFails(f)

Next == Pass \/ Fails \/ \E f \in Files, x \in Things : Edit(f, x)

Spec == Init /\ [][Next]_vars

\* The loop of the worker goes on; people and failures are free.
FairSpec == Spec /\ WF_vars(Pass)

-----------------------------------------------------------------------------
TypeOK ==
  /\ disk \in [Files -> Things]
  /\ {index, draft} \subseteq [Files -> SUBSET [content : Contents, part : 1 .. 2]]
  /\ pc \in {"asleep", "scanning", "embedding"} /\ todo \subseteq Files
  /\ cur \in [file : Files, content : Contents] \cup {NoFile}
  /\ (cur # NoFile) = (pc = "embedding")
  /\ seen \in [Files -> SUBSET Things]
  /\ edits \in 0 .. MaxEdits /\ faults \in 0 .. MaxFaults

\* What a pass may leave of a path: the chunks of something it held since the pass began.
Current(f, stored) ==
  \/ \E x \in seen[f] \cap Contents : stored = ChunksOf(x)
  \/ stored = {} /\ seen[f] \cap {Empty, Absent} # {}
  \/ stored = index[f] /\ Absent \in seen[f]

InHand(f) == pc = "embedding" /\ cur.file = f

\* What the search sees of a path are all the chunks of one content, or none: edits in
\* the middle of a pass and failures half way through a file do not show.
WholeContents ==
  \A f \in Files : index[f] = {} \/ \E x \in Contents : index[f] = ChunksOf(x)

\* The pass is yet to read a path, has read it, or is embedding what it read.
DraftIsCurrent ==
  pc # "asleep" =>
    \A f \in Files :
      /\ disk[f] \in seen[f]
      /\ f \in todo => draft[f] = index[f]
      /\ f \notin todo /\ ~InHand(f) => Current(f, draft[f])
      /\ InHand(f) => f \notin todo /\ draft[f] = {} /\ cur.content \in seen[f]

\* A pass that commits leaves of every path what it held at some moment of the pass: it
\* does not keep what was older, whatever was edited meanwhile.
CommitsWhatItSaw == [][Commit => \A f \in Files : Current(f, index'[f])]_vars

\* Once nobody edits, and if every file can be read, the index comes to hold every file
\* in the form it has.
IndexCatchesUp ==
  <>[](\A f \in Files : disk[f] \in Indexed)
    => <>[](\A f \in Files : index[f] = IF disk[f] = Empty THEN {} ELSE ChunksOf(disk[f]))

-----------------------------------------------------------------------------
(* What the repository says and the code does not do. *)

\* DOCUMENTATION.md:661, "The system chunks them by headers, embeds ..., and stores": a
\* file that can be read gets into the index, whatever the other files are like.
ReadableFileStored ==
  \A f \in Files : <>[](disk[f] \in Contents) => <>(index[f] # {})
=============================================================================
