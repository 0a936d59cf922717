---------------------------- MODULE SourceIndexing ----------------------------
(***************************************************************************)
(* What KnowledgeIngestion does to the text of a source, from the parser   *)
(* to the rows of knowledge_chunks: image_ocr_tool and pdf_parser_tool,    *)
(* _build_ordered_image_parts, chunk_text_document, EmbeddingBatchService  *)
(* over OpenAIEmbeddingClient, KnowledgeIndexingService.                   *)
(*                                                                         *)
(* Every step is a step of KnowledgeIngestion with the text it handles, or *)
(* one batch of embeddings more.  A vector is named by the text it embeds. *)
(***************************************************************************)
EXTENDS KnowledgeIngestion, Lists, SequencesExt

CONSTANTS
  PagesOf,       \* PagesOf[h]: the pages or images of a source, each a sequence
                 \* of words [len, mark]; mark is n when the word is a line that
                 \* reads "[Image n: ...]", and 0 otherwise
  NameOf,        \* NameOf[h]: how the file name of each image reads: "plain",
                 \* "bracketed" (it has a "]"), or "browser" (the line it
                 \* stands in is taken for browser chrome)
  HeaderLength,  \* length of the line "[Image n: name]"
  MaxChunk,      \* max_chunk_chars, 1200
  MaxInputs,     \* max_inputs of a batch, 512
  MaxTokens,     \* max_aggregate_tokens of a batch, 250000
  MaxAttempts    \* max_attempts of a batch, 3

ASSUME IndexingAssumption ==
  /\ {HeaderLength, MaxChunk, MaxInputs, MaxTokens, MaxAttempts} \subseteq Nat \ {0}
  /\ MaxChunk <= MaxTokens

ASSUME SourcesAssumption ==
  \A h \in Identities :
    /\ PagesOf[h] \in Seq(Seq([len : Nat \ {0}, mark : Nat]))
    /\ NameOf[h] \in [DOMAIN PagesOf[h] -> {"plain", "bracketed", "browser"}]

VARIABLES
  work,  \* work[r]: the embedding call of request r, None when it makes none
  rows   \* rows[r]: the rows of the document of request r, in chunk_index order

indexingVars == <<vars, work, rows>>

IndexingInit ==
  /\ Init
  /\ work = [r \in Requests |-> None]
  /\ rows = [r \in Requests |-> <<>>]

-------------------------------------------------------------------------------
(* The parsed text: a sequence of words that know where they come from.    *)

Word(page, at, len, mark) == [page |-> page, at |-> at, len |-> len, mark |-> mark]

Page(h, p) ==
  [k \in DOMAIN PagesOf[h][p] |-> Word(p, k, PagesOf[h][p][k].len, PagesOf[h][p][k].mark)]

(* The line the OCR tool puts before the text of an image, as it survives  *)
(* preprocess_screenshot_ocr_text and IMAGE_SECTION_HEADER_PATTERN.        *)
Header(h, p) ==
  CASE NameOf[h][p] = "plain"     -> <<Word(p, 0, HeaderLength, p)>>
    [] NameOf[h][p] = "bracketed" -> <<Word(p, 0, HeaderLength, 0)>>
    [] NameOf[h][p] = "browser"   -> <<>>

(* One text for all images; an image without text leaves no section.       *)
OcrText(h) ==
  FlattenSeq([p \in DOMAIN PagesOf[h] |->
                IF PagesOf[h][p] = <<>> THEN <<>> ELSE Header(h, p) \o Page(h, p)])

(* The lines _build_ordered_image_parts takes for section headers.         *)
Marks(text) == {i \in DOMAIN text : text[i].mark # 0}

SectionAt(text, i) ==
  SubSeq(text, i + 1, Min({j \in Marks(text) : j > i} \cup {Len(text) + 1}) - 1)

(* Sections are needed when there are several images, and each must carry  *)
(* the index of one image.                                                 *)
Sectioned(h) ==
  LET text == OcrText(h)
  IN  /\ Marks(text) = {} => Len(PagesOf[h]) = 1 \/ text = <<>>
      /\ \A i \in Marks(text) : text[i].mark \in DOMAIN PagesOf[h]
      /\ \A i, j \in Marks(text) : text[i].mark = text[j].mark => i = j

ImagePart_ByPosition(h, p) ==  \* mutant: the n-th section is the n-th image's
  LET text == OcrText(h)
      nth == {i \in Marks(text) : Cardinality({j \in Marks(text) : j <= i}) = p}
  IN  IF nth = {} THEN <<>> ELSE SectionAt(text, CHOOSE i \in nth : TRUE)

ImagePart(h, p) ==
  LET text == OcrText(h)
      own == {i \in Marks(text) : text[i].mark = p}
  IN  IF Marks(text) = {} THEN IF Len(PagesOf[h]) = 1 THEN text ELSE <<>>
      ELSE IF own = {} THEN <<>>
      ELSE SectionAt(text, CHOOSE i \in own : TRUE)

(* What each kind hands to the chunker.  The PDF parser keeps blank pages, *)
(* so that page numbers stay right; an article has no pages.               *)
PagesFor(kind, h) ==
  CASE kind = "image" -> [p \in DOMAIN PagesOf[h] |-> ImagePart(h, p)]
    [] kind = "pdf"   -> [p \in DOMAIN PagesOf[h] |-> Page(h, p)]
    [] kind = "url"   -> <<FlattenSeq([p \in DOMAIN PagesOf[h] |-> Page(h, p)])>>

(* Parsing succeeds: the sections are in order and some text is legible.   *)
(* A section header is no text.                                            *)
Parsed(kind, h) ==
  kind \in Searchable =>
    /\ kind = "image" => Sectioned(h)
    /\ \E p \in DOMAIN PagesFor(kind, h) : \E w \in ToSet(PagesFor(kind, h)[p]) : w.at # 0

-------------------------------------------------------------------------------
(* chunk_text_document.  A chunk is a sequence of pieces of words.         *)

Piece(word, from, upto) == [page |-> word.page, at |-> word.at, from |-> from, upto |-> upto]

(* Its length, one blank between two words.                                *)
Length(chunk) ==
  Total([i \in DOMAIN chunk |-> (IF i = 1 THEN 0 ELSE 1) + chunk[i].upto - chunk[i].from + 1])

(* A word longer than a chunk is cut.                                      *)
Cuts(word) ==
  [k \in 1..((word.len + MaxChunk - 1) \div MaxChunk) |->
     <<Piece(word, (k - 1) * MaxChunk + 1, Min({k * MaxChunk, word.len}))>>]

Begun == [done |-> <<>>, open |-> <<>>]

Closed(split) ==
  IF split.open = <<>> THEN split.done ELSE Append(split.done, split.open)

Place(split, word) ==
  LET full == split.open # <<>> /\ Length(split.open) + 1 + word.len > MaxChunk
  IN  IF word.len > MaxChunk
      THEN [done |-> Closed(split) \o Cuts(word), open |-> <<>>]
      ELSE IF full
      THEN [done |-> Closed(split), open |-> <<Piece(word, 1, word.len)>>]
      ELSE [split EXCEPT !.open = Append(@, Piece(word, 1, word.len))]

(* _split_bounded_text                                                     *)
Split(words) ==
  LET split[n \in 0..Len(words)] == IF n = 0 THEN Begun ELSE Place(split[n - 1], words[n])
  IN  Closed(split[Len(words)])

(* What a reader is told about where a chunk is from.                      *)
Locator(kind, p, k) ==
  CASE kind = "image" -> [page |-> p, chunk |-> k]
    [] kind = "pdf"   -> [page |-> p, chunk |-> 0]
    [] kind = "url"   -> [page |-> 0, chunk |-> k]

DraftsOfPage(kind, p, words) ==
  LET pieces == Split(words)
  IN  [k \in DOMAIN pieces |-> [text |-> pieces[k], locator |-> Locator(kind, p, k)]]

DraftsOf(kind, h) ==
  FlattenSeq([p \in DOMAIN PagesFor(kind, h) |-> DraftsOfPage(kind, p, PagesFor(kind, h)[p])])

Drafts == [kind \in Searchable |-> [h \in Identities |-> DraftsOf(kind, h)]]

-------------------------------------------------------------------------------
(* EmbeddingBatchService.                                                  *)

Tokens(drafts, batch) == Total([i \in DOMAIN batch |-> Length(drafts[batch[i]].text)])

Add(drafts, split, k) ==
  IF /\ split.open # <<>>
     /\ \/ Len(split.open) + 1 > MaxInputs
        \/ Tokens(drafts, split.open) + Length(drafts[k].text) > MaxTokens
  THEN [done |-> Closed(split), open |-> <<k>>]
  ELSE [split EXCEPT !.open = Append(@, k)]

(* plan: the drafts in order, in batches within both limits.               *)
PlanOf(drafts) ==
  LET split[n \in 0..Len(drafts)] == IF n = 0 THEN Begun ELSE Add(drafts, split[n - 1], n)
  IN  Closed(split[Len(drafts)])

Plans == [kind \in Searchable |-> [h \in Identities |-> PlanOf(Drafts[kind][h])]]

DraftsFor(r) == Drafts[req[r].kind][req[r].identity]
PlanFor(r) == Plans[req[r].kind][req[r].identity]
BatchOf(r) == PlanFor(r)[work[r].batch]

(* What the provider may return for n inputs: some of their indices.  The  *)
(* vector beside index i embeds input i.                                   *)
Responses(n) == UNION {[1..m -> 1..n] : m \in 0..n}

(* The client accepts every input once and in order, and nothing else;     *)
(* _validate_response asks for the same again.                             *)
Accepted(response, n) == response = [k \in 1..n |-> k]

NewCall == [batch |-> 1, attempt |-> 1, vectors |-> <<>>]

LastBatch(r) == work[r].batch = Len(PlanFor(r))

(* _execute_batch returns.  After the last batch the call is over.         *)
BatchArrives(r) ==
  /\ At(r, "embed")
  /\ \E response \in Responses(Len(BatchOf(r))) :
       /\ Accepted(response, Len(BatchOf(r)))
       /\ work' = [work EXCEPT ![r] =
                     [batch |-> @.batch + (IF LastBatch(r) THEN 0 ELSE 1),
                      attempt |-> 1,
                      vectors |-> @.vectors \o
                        [k \in DOMAIN response |->
                           DraftsFor(r)[BatchOf(r)[response[k]]].text]]]
  /\ IF LastBatch(r) THEN Embed(r) ELSE UNCHANGED vars
  /\ UNCHANGED rows

(* A retryable error, and an attempt is left.  Every other error ends the  *)
(* request (StepFails).                                                    *)
BatchRetried(r) ==
  /\ At(r, "embed")
  /\ work[r].attempt < MaxAttempts
  /\ work' = [work EXCEPT ![r].attempt = @ + 1]
  /\ UNCHANGED <<vars, rows>>

-------------------------------------------------------------------------------
(* The steps of the request, with the text.                                *)

ParseText(r) ==
  /\ Parse(r)
  /\ Parsed(req[r].kind, req[r].identity)
  /\ UNCHANGED <<work, rows>>

(* The document is created and the text is cut and planned.                *)
CreateAndChunk(r) ==
  /\ Create(r)
  /\ work' = [work EXCEPT ![r] = IF req[r].kind \in Searchable THEN NewCall ELSE None]
  /\ UNCHANGED rows

(* Drafts and vectors are paired by position.                              *)
StoreRows(r) ==
  /\ Store(r)
  /\ rows' = [rows EXCEPT ![r] =
                [k \in DOMAIN DraftsFor(r) |->
                   [text |-> DraftsFor(r)[k].text, locator |-> DraftsFor(r)[k].locator,
                    vector |-> work[r].vectors[k]]]]
  /\ work' = [work EXCEPT ![r] = None]

Ends(r) ==
  /\ StepFails(r) \/ Crash(r)
  /\ work' = [work EXCEPT ![r] = None]
  /\ UNCHANGED rows

Elsewhere(r) ==
  /\ \/ \E kind \in Kinds, identity \in Identities : Start(r, kind, identity)
     \/ Duplicate(r) \/ NoDuplicate(r) \/ Close(r) \/ Undo(r) \/ UndoFails(r) \/ Fail(r)
  /\ UNCHANGED <<work, rows>>

IndexingNext ==
  \E r \in Requests :
    \/ ParseText(r) \/ CreateAndChunk(r) \/ BatchArrives(r) \/ BatchRetried(r)
    \/ StoreRows(r) \/ Ends(r) \/ Elsewhere(r)

IndexingSpec == IndexingInit /\ [][IndexingNext]_indexingVars

-------------------------------------------------------------------------------
(* Properties.                                                             *)

(* The text of a page, letter by letter, as the source has it, and as the  *)
(* rows that cite the page have it.                                        *)
Letters(pieces) ==
  FlattenSeq([i \in DOMAIN pieces |->
    [k \in 1..(pieces[i].upto - pieces[i].from + 1) |->
       <<pieces[i].page, pieces[i].at, pieces[i].from + k - 1>>]])

SourceLetters(h, p) ==
  Letters([k \in DOMAIN Page(h, p) |-> Piece(Page(h, p)[k], 1, Page(h, p)[k].len)])

CitedLetters(r, p) ==
  Letters(FlattenSeq([k \in DOMAIN rows[r] |->
    IF rows[r][k].locator.page = p THEN rows[r][k].text ELSE <<>>]))

(* The names and the text of the images leave no doubt about the sections. *)
Unambiguous(h) ==
  /\ \A p \in DOMAIN PagesOf[h] : NameOf[h][p] = "plain"
  /\ \A p \in DOMAIN PagesOf[h] : \A w \in ToSet(PagesOf[h][p]) : w.mark = 0

(* The rows retrieval will find are the source: every row is within the    *)
(* size limit and carries the vector of its own text, and what the rows    *)
(* that cite a page or an image say is the whole text of that page, in     *)
(* order, however it was cut, batched and retried.  For images this needs  *)
(* names and texts that do not themselves look like section headers.       *)
RowsTrue ==
  \A r \in Requests :
    LET h == req[r].identity
    IN  /\ rows[r] # <<>> <=> docs[r] = "indexed"
        /\ \A k \in DOMAIN rows[r] :
             rows[r][k].vector = rows[r][k].text /\ Length(rows[r][k].text) <= MaxChunk
        /\ docs[r] = "indexed" /\ (req[r].kind = "image" => Unambiguous(h)) =>
             IF req[r].kind = "url"
             THEN CitedLetters(r, 0) =
                    FlattenSeq([p \in DOMAIN PagesOf[h] |-> SourceLetters(h, p)])
             ELSE \A p \in DOMAIN PagesOf[h] : CitedLetters(r, p) = SourceLetters(h, p)
===============================================================================
