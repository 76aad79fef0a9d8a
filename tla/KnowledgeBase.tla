----------------------------- MODULE KnowledgeBase -----------------------------
(***************************************************************************)
(* The knowledge store (pkg/context/knowledge_store.go): the files of a     *)
(* directory are cut into chunks, embedded, and put into the semantic store *)
(* under the name of their source.                                          *)
(* A document is the sequence of the lengths of its paragraphs; a chunk is  *)
(* an interval <<from, to>> of the text they make, two more characters      *)
(* after each.                                                              *)
(***************************************************************************)
EXTENDS Integers, Sequences, SequencesExt, FiniteSetsExt

CONSTANTS KbPaths,       \* the paths of each directory, in the order of the walk
          BaseName,      \* path |-> base name, the id of its document
          KbTexts,       \* contents a file may have
          ChunkSize, ChunkOverlap,   \* in tokens of four characters
          MaxKbOps

VARIABLES kbText,        \* path |-> its content
          kbDocs,        \* Documents: base name |-> [path, text, source]
          kbIndex,       \* semantic store: <<source, id, number>> |-> [path, text, chunk]
          kbWalk,        \* the ingestion under way: [source, todo, doc, chunks]
          kbBroken,      \* history: ids whose last ingestion did not store every chunk
          kbOps

knowledgeVars == <<kbText, kbDocs, kbIndex, kbWalk, kbBroken, kbOps>>

NoWalk == [source |-> "none", todo |-> <<>>, left |-> <<>>]
AllPaths == UNION {Range(KbPaths[d]) : d \in DOMAIN KbPaths}

KnowledgeInit ==
  /\ kbText = [p \in AllPaths |-> CHOOSE t \in KbTexts : TRUE]
  /\ kbDocs = <<>> /\ kbIndex = <<>> /\ kbWalk = NoWalk /\ kbBroken = {} /\ kbOps = 0

EditFile(p, t) ==
  /\ kbOps < MaxKbOps /\ kbOps' = kbOps + 1 /\ t # kbText[p] /\ kbText' = [kbText EXCEPT ![p] = t]
  /\ UNCHANGED <<kbDocs, kbIndex, kbWalk, kbBroken>>

-----------------------------------------------------------------------------
(* chunkDocument                                                           *)

ChunkChars == ChunkSize * 4
OverlapChars == ChunkOverlap * 4
TextLength(t) == FoldSeq(LAMBDA n, sum : sum + n + 2, 0, t)

\* Mutant: the front of the chunk is cut off, not all but its end.
KeptFrontCut(from, to) == IF to - from > OverlapChars THEN from + OverlapChars ELSE to
\* The overlap that the next chunk begins with.
Kept(from, to) == IF to - from > OverlapChars THEN to - OverlapChars ELSE to

\* A paragraph that does not fit closes the chunk before it.
AddParagraph(c, n) ==
  IF (c.to - c.from) + n > ChunkChars /\ c.to # c.from
  THEN [done |-> Append(c.done, <<c.from, c.to>>), from |-> Kept(c.from, c.to), to |-> c.to + n + 2]
  ELSE [c EXCEPT !.to = @ + n + 2]

\* A text of no more than a chunk is one, even when it is empty.
chunkDocument(t) ==
  IF (TextLength(t) - 2) \div 4 <= ChunkSize THEN <<<<0, TextLength(t)>>>>
  ELSE LET c == FoldLeft(AddParagraph, [done |-> <<>>, from |-> 0, to |-> 0], t)
       IN  IF c.to = c.from THEN c.done ELSE Append(c.done, <<c.from, c.to>>)

-----------------------------------------------------------------------------
(* IngestDirectory, under the lock of the store                            *)

Ingest(dir, source) ==
  /\ kbWalk = NoWalk /\ kbOps < MaxKbOps /\ kbOps' = kbOps + 1
  /\ kbWalk' = [source |-> source, todo |-> KbPaths[dir], left |-> <<>>]
  /\ UNCHANGED <<kbText, kbDocs, kbIndex, kbBroken>>

\* The next file: read, chunked and embedded as a whole, then entered.
IngestFile ==
  LET p == Head(kbWalk.todo)
      id == BaseName[p]
      chunks == chunkDocument(kbText[p])
  IN  /\ kbWalk.todo # <<>> /\ kbWalk.left = <<>>
      /\ kbDocs' = [i \in DOMAIN kbDocs \cup {id} |->
                      IF i # id THEN kbDocs[i]
                      ELSE [path |-> p, text |-> kbText[p], source |-> kbWalk.source]]
      /\ kbWalk' = [kbWalk EXCEPT !.todo = Tail(@),
                                  !.left = [k \in DOMAIN chunks |->
                                              [key |-> <<kbWalk.source, id, k>>,
                                               row |-> [path |-> p, text |-> kbText[p],
                                                        chunk |-> chunks[k]]]]]
      /\ kbBroken' = kbBroken \cup {id}
      /\ UNCHANGED <<kbText, kbIndex, kbOps>>

\* Upsert of the next chunk; the last one makes the document whole.
StoreChunk ==
  LET c == Head(kbWalk.left)
  IN  /\ kbWalk.left # <<>>
      /\ kbIndex' = [k \in DOMAIN kbIndex \cup {c.key} |-> IF k = c.key THEN c.row ELSE kbIndex[k]]
      /\ kbWalk' = [kbWalk EXCEPT !.left = Tail(@)]
      /\ kbBroken' = IF Len(kbWalk.left) = 1 THEN kbBroken \ {c.key[2]} ELSE kbBroken
      /\ UNCHANGED <<kbText, kbDocs, kbOps>>

\* A file that cannot be read or embedded, or a chunk that cannot be stored, ends the
\* walk; what was entered stays.
IngestFails ==
  /\ kbWalk.todo # <<>> \/ kbWalk.left # <<>>
  /\ kbWalk' = NoWalk
  /\ UNCHANGED <<kbText, kbDocs, kbIndex, kbBroken, kbOps>>

IngestEnds ==
  /\ kbWalk # NoWalk /\ kbWalk.todo = <<>> /\ kbWalk.left = <<>> /\ kbWalk' = NoWalk
  /\ UNCHANGED <<kbText, kbDocs, kbIndex, kbBroken, kbOps>>

\* Clear forgets the documents; the semantic store keeps their chunks.
ClearKnowledge ==
  /\ kbWalk = NoWalk /\ kbDocs # <<>> /\ kbOps < MaxKbOps /\ kbOps' = kbOps + 1
  /\ kbDocs' = <<>> /\ UNCHANGED <<kbText, kbIndex, kbWalk, kbBroken>>

KnowledgeNext ==
  \/ \E p \in AllPaths, t \in KbTexts : EditFile(p, t)
  \/ \E d \in DOMAIN KbPaths, s \in {"knowledge", "other"} : Ingest(d, s)
  \/ IngestFile \/ StoreChunk \/ IngestFails \/ IngestEnds \/ ClearKnowledge

-----------------------------------------------------------------------------
Longest(t) == Max({0} \cup Range(t))

\* IngestDirectory and chunkDocument (knowledge_store.go): the chunks of a text follow
\* each other without a gap from its start to its end and share no more than the overlap,
\* none longer than the chunk size, rounded up to a token, or than a paragraph behind the
\* overlap; a listed document whose ingestion was not cut
\* short has all its chunks in the store, from one reading of one file, whatever files
\* of its name were ingested before, under its source or another.
KnowledgeWhole ==
  \A id \in DOMAIN kbDocs :
    LET d == kbDocs[id]
        cs == chunkDocument(d.text)
    IN  /\ cs[1][1] = 0 /\ cs[Len(cs)][2] = TextLength(d.text)
        /\ \A k \in 1..Len(cs) - 1 : cs[k][2] - cs[k + 1][1] \in 0..OverlapChars
        /\ \A k \in DOMAIN cs :
             cs[k][2] - cs[k][1] - 2 <= Max({ChunkChars + 3, OverlapChars + Longest(d.text)})
        /\ id \notin kbBroken =>
             \A k \in DOMAIN cs :
               LET key == <<d.source, id, k>>
               IN  /\ key \in DOMAIN kbIndex
                   /\ kbIndex[key] = [path |-> d.path, text |-> d.text, chunk |-> cs[k]]
=============================================================================
