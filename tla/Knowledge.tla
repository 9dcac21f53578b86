------------------------------- MODULE Knowledge -------------------------------
(***************************************************************************)
(* The knowledge base: the chunks a document is cut into, the requests     *)
(* that create, delete and index it again, and the searches beside them.   *)
(*                                                                         *)
(* A request reads committed rows whenever it reads, and what it writes is *)
(* there from its commit on.  The rows of one document are written by one  *)
(* transaction at a time (their locks), so what a transaction has updated  *)
(* appears at its commit as a whole.                                       *)
(*                                                                         *)
(* A text is a sequence of lines, a line a kind and a sequence of          *)
(* sentences, and a sentence a sequence of words, each of a number of      *)
(* characters, with one blank between two of them.                         *)
(***************************************************************************)
EXTENDS Naturals, Sequences, SequencesExt, FiniteSetsExt, Functions

CONSTANTS
  Clients,    \* requests at one time
  Words,      \* the words of a text, each told apart by its place
  Chars,      \* their lengths in characters
  Texts,      \* documents that may be uploaded
  ChunkSize,  \* RAG_CHUNK_SIZE, in tokens
  Overlap,    \* RAG_CHUNK_OVERLAP, in words
  TopK,       \* results of a search
  RrfK,       \* RAG_RRF_K
  MaxCalls,   \* bound on requests, and the ids of documents
  Plots       \* what behaviours may be about

VARIABLES
  plot,       \* what this behaviour is about
  docs,       \* knowledge_documents, each with its knowledge_chunks
  originals,  \* documents whose original is in the storage
  call,       \* the request of each client
  calls       \* requests so far

kvars == <<plot, docs, originals, call, calls>>

-------------------------------------------------------------------------------
(* chunk_text.                                                             *)

LineKinds == {"paragraph", "list", "indented", "table", "h1", "h2", "h3", "blank", "page"}
Line == [kind : LineKinds, sentences : Seq(Seq(Words))]

(* The words of a text, without those of its page breaks.                  *)
WordsOf(text) ==
  FlattenSeq([i \in DOMAIN text |-> IF text[i].kind = "page" THEN <<>> ELSE FlattenSeq(text[i].sentences)])

(* A line goes on with the open block if it is of its kind; a blank line   *)
(* goes on with a table, an indented one with a list, and either with the  *)
(* paragraph otherwise.  A page break ends a block and is none.            *)
AddLine(acc, line) ==
  LET kind == IF line.kind = "blank" /\ acc.open = "table" THEN "table"
              ELSE IF line.kind = "indented" /\ acc.open = "list" THEN "list"
              ELSE IF line.kind \in {"blank", "indented"} THEN "paragraph" ELSE line.kind IN
    IF kind = "page" THEN [acc EXCEPT !.open = "none"]
    ELSE IF kind = acc.open /\ kind \in {"table", "list", "paragraph"}
    THEN [acc EXCEPT !.blocks[Len(acc.blocks)].sentences = @ \o line.sentences]
    ELSE [blocks |-> Append(acc.blocks, [kind |-> kind, sentences |-> line.sentences]), open |-> kind]

(* Blocks without a word are left out, and a text of nothing but page      *)
(* breaks is a paragraph of them.                                          *)
ExtractBlocks(text) ==
  LET all == FoldLeft(AddLine, [blocks |-> <<>>, open |-> "none"], text).blocks
      blocks == FlattenSeq([i \in DOMAIN all |->
                              IF FlattenSeq(all[i].sentences) = <<>> THEN <<>> ELSE <<all[i]>>]) IN
    IF blocks # <<>> \/ text = <<>> THEN blocks
    ELSE <<[kind |-> "paragraph", sentences |-> FlattenSeq([i \in DOMAIN text |-> text[i].sentences])]>>

Plus(a, b) == a + b

(* The characters of words, each with the blank behind it; and the tokens  *)
(* they count as, four characters to a token, together or one by one.      *)
Span(words) == FoldLeft(Plus, 0, [i \in DOMAIN words |-> Chars[words[i]] + 1])
Tokens(words) == IF Span(words) < 5 THEN 1 ELSE (Span(words) - 1) \div 4
TokensOfEach(words) == FoldLeft(Plus, 0, [i \in DOMAIN words |-> Tokens(<<words[i]>>)])

LastWords(words, n) == SubSeq(words, Len(words) - (IF n < Len(words) THEN n ELSE Len(words)) + 1, Len(words))

(* The words that are whole in the last n characters: one that is cut in   *)
(* two is a word no more.                                                  *)
LastChars(words, n) ==
  LET from == Min({i \in 1 .. Len(words) + 1 : Span(SubSeq(words, i, Len(words))) <= n + 1}) IN
    SubSeq(words, from, Len(words))

(* A cut in progress: the chunks, the parts collected for the next one,    *)
(* and the tokens they are counted as.                                     *)
Cut == [chunks |-> <<>>, parts |-> <<>>, tokens |-> 0]

Emit(cut, parts) ==
  IF FlattenSeq(parts) = <<>> THEN cut ELSE [cut EXCEPT !.chunks = Append(@, FlattenSeq(parts))]

Own(cut, words) == Emit([Emit(cut, cut.parts) EXCEPT !.parts = <<>>, !.tokens = 0], <<words>>)

(* The blocks collected are full: they become a chunk, and its last words  *)
(* begin the next.                                                         *)
Overflow(cut) ==
  IF cut.parts = <<>> THEN cut
  ELSE LET tail == LastWords(Last(cut.parts), Overlap) IN
         [Emit(cut, cut.parts) EXCEPT !.parts = IF tail = <<>> THEN <<>> ELSE <<tail>>,
                                      !.tokens = IF tail = <<>> THEN 0 ELSE Tokens(tail)]

(* The sentences collected are: the next chunk begins with the last        *)
(* characters of the last one, four for each word of the overlap.          *)
OverflowSentences(b) ==
  [Emit(b, b.parts) EXCEPT
     !.parts = IF Overlap = 0 THEN <<>> ELSE <<LastChars(Last(b.parts), 4 * Overlap)>>,
     !.tokens = IF Overlap = 0 THEN 0 ELSE Min({Tokens(Last(b.parts)), Overlap})]

(* A sentence longer than a chunk is cut between its words; b is a cut of  *)
(* the sentences of one block, and what CutWord collects are words.        *)
CutWord(acc, w) ==
  LET tail == LastWords(acc.parts, Overlap) IN
    IF acc.tokens + Tokens(<<w>>) > ChunkSize /\ acc.parts # <<>>
    THEN [Emit(acc, <<acc.parts>>) EXCEPT !.parts = Append(tail, w),
                                          !.tokens = TokensOfEach(tail) + Tokens(<<w>>)]
    ELSE [acc EXCEPT !.parts = Append(@, w), !.tokens = @ + Tokens(<<w>>)]

CutWords(b, sentence) ==
  LET acc == FoldLeft(CutWord, [Emit(b, b.parts) EXCEPT !.parts = <<>>, !.tokens = 0], sentence) IN
    [acc EXCEPT !.parts = <<acc.parts>>]

(* Mutant: the sentences collected before a long one are not emitted.      *)
CutSentenceUnflushed(b, sentence) ==
  IF Tokens(sentence) > ChunkSize THEN CutWords([b EXCEPT !.parts = <<>>], sentence)
  ELSE LET full == b.tokens + Tokens(sentence) > ChunkSize /\ b.parts # <<>>
           next == IF full THEN OverflowSentences(b) ELSE b IN
         [next EXCEPT !.parts = Append(@, sentence), !.tokens = @ + Tokens(sentence)]

CutSentence(b, sentence) ==
  IF Tokens(sentence) > ChunkSize THEN CutWords(b, sentence)
  ELSE LET full == b.tokens + Tokens(sentence) > ChunkSize /\ b.parts # <<>>
           next == IF full THEN OverflowSentences(b) ELSE b IN
         [next EXCEPT !.parts = Append(@, sentence), !.tokens = @ + Tokens(sentence)]

(* A block too large for a chunk: what is left of its sentences joins the  *)
(* overlap, which is no longer counted.                                    *)
CutBlock(cut, sentences) ==
  LET b == FoldLeft(CutSentence, [cut EXCEPT !.parts = <<>>, !.tokens = 0], sentences) IN
    IF b.parts = <<>> THEN [cut EXCEPT !.chunks = b.chunks]
    ELSE [b EXCEPT !.parts = cut.parts \o @]

AddBlock(cut, block) ==
  LET words == FlattenSeq(block.sentences)
      next == Overflow(cut) IN
    IF block.kind \in {"h1", "h2", "table"} THEN Own(cut, words)
    ELSE IF cut.tokens + Tokens(words) <= ChunkSize
    THEN [cut EXCEPT !.parts = Append(@, words), !.tokens = @ + Tokens(words)]
    ELSE IF Tokens(words) <= ChunkSize
    THEN [next EXCEPT !.parts = Append(@, words), !.tokens = @ + Tokens(words)]
    ELSE CutBlock(next, block.sentences)

ChunkText(text) ==
  LET cut == FoldLeft(AddBlock, Cut, ExtractBlocks(text)) IN Emit(cut, cut.parts).chunks

-------------------------------------------------------------------------------
Ops == {"create", "deactivate", "delete", "reindex", "search"}
Ids == 1 .. MaxCalls

ASSUME KnowledgeAssumption ==
  /\ {ChunkSize, Overlap, TopK, RrfK, MaxCalls} \subseteq Nat /\ ChunkSize > 0
  /\ Chars \in [Words -> Nat \ {0}]
  /\ \A p \in DOMAIN Plots : /\ Plots[p] \in [ops : Seq(Ops), texts : SUBSET Texts]
                             /\ Len(Plots[p].ops) <= MaxCalls
  /\ \A text \in Texts : text \in Seq(Line) /\ IsInjective(WordsOf(text))

NoDocument == [text |-> <<>>, active |-> FALSE, chunks |-> <<>>]
Idle == [pc |-> "idle"]

KnowledgeInit ==
  /\ plot \in DOMAIN Plots
  /\ docs = [d \in Ids |-> NoDocument]
  /\ originals = {}
  /\ call = [c \in Clients |-> Idle]
  /\ calls = 0

Active == {d \in Ids : docs[d].active}

(* The requests of a plot, each on any free connection.  A new document    *)
(* has the number of its request; so has what an embedding run writes.     *)
Call(c) ==
  /\ call[c] = Idle /\ calls < Len(Plots[plot].ops)
  /\ calls' = calls + 1
  /\ LET op == Plots[plot].ops[calls']
         Request(d, text) == [pc |-> op, id |-> calls', doc |-> d, text |-> text, done |-> {}, fts |-> <<>>,
                              hits |-> <<>>, before |-> {n \in Ids \ Active : docs[n] # NoDocument}]
         requests == CASE op = "create" -> {Request(calls', text) : text \in Plots[plot].texts}
                       [] op = "search" -> {Request(calls', <<>>)}
                       [] OTHER -> {Request(d, <<>>) : d \in {n \in Ids : docs[n] # NoDocument}} IN
       \E r \in requests : call' = [call EXCEPT ![c] = r]
  /\ UNCHANGED <<plot, docs, originals>>

Goes(c, pc) == call' = [call EXCEPT ![c].pc = pc]
End(c) == call' = [call EXCEPT ![c] = Idle]

(* Extraction and embedding fail, a document of the same content is there, *)
(* the storage is out of reach, the connection is lost: whatever a request *)
(* has written is rolled back, but not what it has stored.                 *)
Fail(c) ==
  /\ call[c] # Idle
  /\ End(c)
  /\ UNCHANGED <<plot, docs, originals, calls>>

(* embed_documents or embed_query: all vectors, or an error.               *)
Embeds(c, pc) == Goes(c, pc) \/ End(c)

(* run_extraction_pipeline; a text without a word is refused.              *)
Extract(c) ==
  /\ call[c].pc = "create"
  /\ IF call[c].text = <<>> THEN End(c) ELSE Embeds(c, "deduplicate")
  /\ UNCHANGED <<plot, docs, originals, calls>>

(* The content is looked up without a lock.                                *)
Deduplicate(c) ==
  /\ call[c].pc = "deduplicate"
  /\ IF \E d \in Ids : docs[d].text = call[c].text THEN End(c) ELSE Goes(c, "store")
  /\ UNCHANGED <<plot, docs, originals, calls>>

(* Mutant: the document is created without its original if the storage is  *)
(* out of reach.                                                           *)
StoreOrNot(c) ==
  /\ call[c].pc = "store"
  /\ originals' \in {originals, originals \cup {call[c].doc}}
  /\ Goes(c, "commit")
  /\ UNCHANGED <<plot, docs, calls>>

(* put_object, which may store the original and fail all the same.         *)
Store(c) ==
  /\ call[c].pc = "store"
  /\ originals' = originals \cup {call[c].doc}
  /\ Goes(c, "commit") \/ End(c)
  /\ UNCHANGED <<plot, docs, calls>>

(* The rows of the document, active if it has a chunk, and of its chunks.  *)
CommitDocument(c) ==
  /\ call[c].pc = "commit"
  /\ LET chunks == ChunkText(call[c].text)
         rows == [i \in DOMAIN chunks |-> [words |-> chunks[i], run |-> call[c].id]] IN
       docs' = [docs EXCEPT ![call[c].doc] =
                  [text |-> call[c].text, active |-> rows # <<>>, chunks |-> rows]]
  /\ End(c)
  /\ UNCHANGED <<plot, originals, calls>>

(* DELETE, with physical or without; the original stays in the storage.    *)
RemoveDocument(c) ==
  /\ call[c].pc \in {"deactivate", "delete"}
  /\ LET d == call[c].doc IN
       docs' = IF docs[d] = NoDocument THEN docs
               ELSE IF call[c].pc = "delete" THEN [docs EXCEPT ![d] = NoDocument]
               ELSE [docs EXCEPT ![d].active = FALSE]
  /\ End(c)
  /\ UNCHANGED <<plot, originals, calls>>

(* The chunks are read, then embedded; a document that is gone has none.   *)
ReadChunks(c) ==
  /\ call[c].pc = "reindex"
  /\ IF docs[call[c].doc].chunks = <<>> THEN End(c) ELSE Embeds(c, "update")
  /\ UNCHANGED <<plot, docs, originals, calls>>

Rest(c) == DOMAIN docs[call[c].doc].chunks \ call[c].done

(* One UPDATE after the other, in the order of the chunks.  One that fails *)
(* is counted, but it has aborted the transaction, and so has the request. *)
Update(c) ==
  /\ call[c].pc = "update" /\ Rest(c) # {}
  /\ call' = [call EXCEPT ![c].done = @ \cup {Min(Rest(c))}] \/ End(c)
  /\ UNCHANGED <<plot, docs, originals, calls>>

(* An UPDATE of a chunk that is gone changes no row, and counts too.       *)
CommitChunks(c) ==
  /\ call[c].pc = "update" /\ Rest(c) = {}
  /\ docs' = [docs EXCEPT ![call[c].doc].chunks =
                [i \in DOMAIN @ |-> IF i \in call[c].done THEN [@[i] EXCEPT !.run = call[c].id] ELSE @[i]]]
  /\ End(c)
  /\ UNCHANGED <<plot, originals, calls>>

-------------------------------------------------------------------------------
(* HybridRetriever.                                                        *)

(* Mutant: chunks of any document that is there.                           *)
FoundAnywhere == UNION {{<<d, i>> : i \in DOMAIN docs[d].chunks} : d \in Ids}

(* What a query sees: the chunks of active documents.                      *)
Found == UNION {{<<d, i>> : i \in DOMAIN docs[d].chunks} : d \in Active}

(* What matches, in the order of its rank.                                 *)
Rankings(S) == UNION {SetToSeqs(T) : T \in SUBSET S}

(* 1 / (k + rank) in a list that has it, as a numerator over a             *)
(* denominator, and the sum over both lists.                               *)
Share(list, x) ==
  IF x \in ToSet(list) THEN <<1, RrfK + SelectInSeq(list, LAMBDA y : y = x)>> ELSE <<0, 1>>

Score(fts, vector, x) ==
  LET a == Share(fts, x)
      b == Share(vector, x) IN
    <<a[1] * b[2] + b[1] * a[2], a[2] * b[2]>>

(* Equal scores keep their order of insertion.                             *)
Before(fts, vector, x, y) ==
  LET Above(v, w) == Score(fts, vector, v)[1] * Score(fts, vector, w)[2]
      At(v) == IF v \in ToSet(fts) THEN SelectInSeq(fts, LAMBDA w : w = v)
               ELSE Len(fts) + SelectInSeq(vector, LAMBDA w : w = v) IN
    Above(x, y) > Above(y, x) \/ (Above(x, y) = Above(y, x) /\ At(x) < At(y))

(* reciprocal_rank_fusion, cut to the top.                                 *)
Fuse(fts, vector) ==
  LET fused == CHOOSE s \in SetToSeqs(ToSet(fts) \cup ToSet(vector)) :
                 \A i, j \in DOMAIN s : i < j => Before(fts, vector, s[i], s[j]) IN
    SubSeq(fused, 1, IF Len(fused) < TopK THEN Len(fused) ELSE TopK)

(* expand_query, and the vector of the query.                              *)
Expand(c) ==
  /\ call[c].pc = "search"
  /\ Embeds(c, "fts")
  /\ UNCHANGED <<plot, docs, originals, calls>>

FullText(c) ==
  /\ call[c].pc = "fts"
  /\ \E fts \in Rankings(Found) : call' = [call EXCEPT ![c].fts = fts, ![c].pc = "vector"]
  /\ UNCHANGED <<plot, docs, originals, calls>>

(* Every active chunk has a distance to the query; what is nearest is      *)
(* ranked and fused with the first list, which may be older.               *)
Vector(c) ==
  /\ call[c].pc = "vector"
  /\ \E vector \in SetToSeqs(Found) :
       LET near == SubSeq(vector, 1, IF Len(vector) < 2 * TopK THEN Len(vector) ELSE 2 * TopK) IN
         call' = [call EXCEPT ![c].hits = Fuse(call[c].fts, near), ![c].pc = "answer"]
  /\ UNCHANGED <<plot, docs, originals, calls>>

Answer(c) ==
  /\ call[c].pc = "answer"
  /\ End(c)
  /\ UNCHANGED <<plot, docs, originals, calls>>

KnowledgeNext ==
  \E c \in Clients :
    \/ Call(c) \/ Fail(c) \/ Extract(c) \/ Deduplicate(c) \/ Store(c) \/ CommitDocument(c)
    \/ RemoveDocument(c) \/ ReadChunks(c) \/ Update(c) \/ CommitChunks(c)
    \/ Expand(c) \/ FullText(c) \/ Vector(c) \/ Answer(c)

-------------------------------------------------------------------------------
(* An active document has its original in the storage, and all its chunks  *)
(* were embedded by one run, whatever fails in between.                    *)
ActiveIsComplete ==
  \A d \in Active : /\ d \in originals /\ docs[d].chunks # <<>>
                    /\ \A i, j \in DOMAIN docs[d].chunks : docs[d].chunks[i].run = docs[d].chunks[j].run

(* The chunks of a document hold its text, whatever lines it is made of:   *)
(* every word, for the first time in the order of the text.  A table and a *)
(* heading are each a chunk of their own, in one piece, and no other chunk *)
(* has a word of them; chunking.py says so of both where it emits them.    *)
(* How long a chunk may be is not said: no bound on it holds.              *)
TextIsKept ==
  \A d \in Ids : docs[d] # NoDocument =>
    LET words == WordsOf(docs[d].text)
        chunks == [i \in DOMAIN docs[d].chunks |-> docs[d].chunks[i].words]
        kept == FlattenSeq(chunks)
        First(w) == SelectInSeq(kept, LAMBDA v : v = w)
        intact == {b \in ToSet(ExtractBlocks(docs[d].text)) : b.kind \in {"h1", "h2", "table"}}
        whole == {FlattenSeq(b.sentences) : b \in intact} IN
      /\ \A i, j \in DOMAIN words : First(words[i]) > 0 /\ (i < j => First(words[i]) < First(words[j]))
      /\ \A i \in DOMAIN chunks : \/ chunks[i] \in whole
                                 \/ \A s \in whole : ToSet(chunks[i]) \cap ToSet(s) = {}

(* A document that was deactivated before a search began is not in its     *)
(* answer, although two queries at two times feed it, and no chunk is      *)
(* there twice.                                                            *)
HitsAreActive ==
  \A c \in Clients : call[c].pc = "answer" =>
    /\ \A i \in DOMAIN call[c].hits : call[c].hits[i][1] \notin call[c].before
    /\ IsInjective(call[c].hits) /\ Len(call[c].hits) <= TopK

Chunked(doc) == [i \in DOMAIN doc.chunks |-> doc.chunks[i].words]

(* A document keeps its text and the words of its chunks until it is       *)
(* deleted, and one that was deactivated never comes back, although a      *)
(* reindexing writes over chunks it has read long before.                  *)
DocumentsStay ==
  [][\A d \in Ids : docs[d] # NoDocument =>
       \/ docs'[d] = NoDocument
       \/ /\ docs'[d].text = docs[d].text /\ Chunked(docs'[d]) = Chunked(docs[d])
          /\ docs'[d].active => docs[d].active]_kvars
===============================================================================
