----------------------------- MODULE NotionReader -----------------------------
(***************************************************************************)
(* What NotionIndex calls reading and storing a page, request by request:  *)
(* NotionAPIReaderClient (attempts, pages of a listing, children),         *)
(* build_block_paths and chunk_notion_page.                                *)
(*                                                                         *)
(* Every step is a step of NotionIndex with the blocks it handles, or one  *)
(* more page of a listing.  The blocks of a page and the lines below them  *)
(* keep their order; what people change are texts and where a block is.    *)
(***************************************************************************)
EXTENDS NotionIndex, Lists, SequencesExt

CONSTANTS
  Layout,         \* Layout[p]: top-level blocks in the order in which p shows them; one
                  \* in Blocks is shown while it is on p, any other always
  Lines,          \* Lines[b]: block b and all blocks below it in reading order, each
                  \* [type, len, depth]: its type, the length of its text, its depth
  SearchResults,  \* what a search for all pages may return, repetitions included
  PageSize,       \* page_size, 100
  MaxAttempts,    \* max_attempts, 3
  MaxChunk        \* max_chunk_chars, 1200

LineRecords == [type : STRING, len : Nat, depth : Nat]

\* A block has one place on a page, and the lines below it are in preorder.
ASSUME ReaderAssumption ==
  /\ {PageSize, MaxAttempts, MaxChunk} \subseteq Nat \ {0}
  /\ Lines \in [DOMAIN Lines -> Seq(LineRecords)]
  /\ \A b \in DOMAIN Lines : \A i \in DOMAIN Lines[b] : Lines[b][i].depth < i
  /\ \A p \in Pages :
       /\ Layout[p] \in Seq(DOMAIN Lines)
       /\ \A i, j \in DOMAIN Layout[p] : Layout[p][i] = Layout[p][j] => i = j
       /\ \A b \in Blocks : \E i \in DOMAIN Layout[p] : Layout[p][i] = b

VARIABLES
  reader, \* reader[r]: the listing request r is going through, and what it has found
  listed  \* listed[p]: the top-level blocks stored of p, in block_order

readerVars == <<vars, reader, listed>>

NoReader == [next |-> 0, cursors |-> {}, found |-> <<>>]

ReaderInit ==
  /\ Init
  /\ reader = [r \in Runs |-> NoReader]
  /\ listed = [p \in Pages |-> <<>>]

-------------------------------------------------------------------------------
(* _request_json: what comes of one request, its attempts included.        *)

Answers == {"object", "no_object", "denied", "absent", "busy", "unreachable", "refused"}

Retryable == {"busy", "unreachable"}

Outcome(answers, mayMiss) ==
  LET answer == answers[Min({i \in 1..MaxAttempts :
                               i = MaxAttempts \/ answers[i] \notin Retryable})]
  IN  CASE answer = "object"             -> "object"
        [] answer = "denied"             -> "auth_failed"
        [] answer = "absent" /\ mayMiss  -> "not_found"
        [] OTHER                         -> "fetch_failed"

Outcomes == [mayMiss \in BOOLEAN |->
               {Outcome(answers, mayMiss) : answers \in [1..MaxAttempts -> Answers]}]

-------------------------------------------------------------------------------
(* The pages of a listing.                                                 *)

(* What of Layout[p] is there when these blocks are on p.                  *)
Shown(blocks, b) == b \in Blocks => b \in blocks

Listing(p, blocks) ==
  Kept(Layout[p], {k \in DOMAIN Layout[p] : Shown(blocks, Layout[p][k])})

(* The places of one page of the listing from place i, and the cursor to   *)
(* the rest of it, 0 when there is none.                                   *)
ShownFrom(p, i) == {k \in i..Len(Layout[p]) : Shown(Current(p).blocks, Layout[p][k])}

PageFrom(p, i) ==
  {k \in ShownFrom(p, i) : Cardinality({j \in ShownFrom(p, i) : j < k}) < PageSize}

CursorAfter(p, i) ==
  LET rest == ShownFrom(p, i) \ PageFrom(p, i)
  IN  IF rest = {} THEN 0 ELSE Min(rest)

Fresh_Any(r, cursor) == TRUE  \* mutant: a repeated cursor is followed

(* A cursor that was followed before would never lead to the end.          *)
Fresh(r, cursor) == cursor \notin reader[r].cursors

(* list_pages: a page that turns up again is skipped.                      *)
FirstSeen(results) ==
  FoldLeft(LAMBDA seen, p : IF Contains(seen, p) THEN seen ELSE Append(seen, p), <<>>, results)

-------------------------------------------------------------------------------
(* The blocks below a block, and their paths.                              *)

Line(l) == Lines[l[1]][l[2]]

PageReferences == {"child_page", "link_to_page"}

(* _build_block_node: what a reference refers to is a page of its own, and *)
(* nothing below the reference is asked for.                               *)
Below(walk, l) ==
  IF Line(l).depth > walk.closed THEN walk
  ELSE [lines |-> Append(walk.lines, l),
        closed |-> IF Line(l).type \in PageReferences THEN Line(l).depth ELSE Len(Lines[l[1]])]

BlockLines(b) ==
  LET walk[n \in 0..Len(Lines[b])] ==
        IF n = 0 THEN [lines |-> <<>>, closed |-> Len(Lines[b])]
        ELSE Below(walk[n - 1], <<b, n>>)
  IN  walk[Len(Lines[b])].lines

(* l is below k, or is k.                                                  *)
Within(l, k) ==
  /\ l[1] = k[1] /\ k[2] <= l[2]
  /\ \A j \in k[2] + 1..l[2] : Lines[l[1]][j].depth > Line(k).depth

(* build_block_paths: the texts of the blocks above, and its own.          *)
LinesOf(b) == [i \in DOMAIN Lines[b] |-> <<b, i>>]

Path(l) ==
  Kept(LinesOf(l[1]),
       {i \in 1..l[2] : Within(l, <<l[1], i>>) /\ Line(<<l[1], i>>).len > 0})

-------------------------------------------------------------------------------
(* chunk_notion_page                                                       *)

Boundaries == {"heading_1", "heading_2", "heading_3", "toggle", "child_page"}

(* The lines of a chunk are joined by line breaks.                         *)
Length(lines) ==
  Total([i \in DOMAIN lines |-> (IF i = 1 THEN 0 ELSE 1) + Line(lines[i]).len])

(* _flush_chunk: a chunk without text is dropped.                          *)
Flushed(split) ==
  IF split.open.lines = <<>> THEN split.done ELSE Append(split.done, split.open)

Opened(split, path) == [done |-> Flushed(split), open |-> [path |-> path, lines |-> <<>>]]

Place(split, l) ==
  LET here == IF Line(l).type \in Boundaries THEN Opened(split, Path(l)) ELSE split
      full == here.open.lines # <<>> /\ Length(here.open.lines) + 1 + Line(l).len > MaxChunk
      room == IF full THEN Opened(here, here.open.path) ELSE here
  IN  IF Line(l).len = 0 THEN here
      ELSE [room EXCEPT !.open.lines = Append(@, l)]

ChunksOf(blocks) ==
  LET lines == FlattenSeq([k \in DOMAIN blocks |-> BlockLines(blocks[k])])
      first == IF lines = <<>> THEN <<>> ELSE Path(lines[1])
      split[n \in 0..Len(lines)] ==
        IF n = 0 THEN [done |-> <<>>, open |-> [path |-> first, lines |-> <<>>]]
        ELSE Place(split[n - 1], lines[n])
  IN  Flushed(split[Len(lines)])

-------------------------------------------------------------------------------
(* The steps of a request, with the blocks.                                *)

GiveUp(r) ==
  /\ StepFails(r)
  /\ reader' = [reader EXCEPT ![r] = NoReader]
  /\ UNCHANGED listed

DiscoverPages(r) ==
  /\ Discover(r)
  /\ \E results \in SearchResults : run'[r].todo = FirstSeen(results)
  /\ UNCHANGED <<reader, listed>>

FetchPage(r) ==
  /\ run[r].pc = "page"
  /\ \E outcome \in Outcomes[TRUE] :
       IF outcome # "object" THEN GiveUp(r)
       ELSE /\ ReadPage(r)
            /\ reader' = [reader EXCEPT ![r] = [NoReader EXCEPT !.next = 1]]
            /\ UNCHANGED listed

(* _fetch_children.  Notion answers with the cursor to the rest, or with   *)
(* one it has given before.                                                *)
FetchList(r) ==
  LET p == Page(r)
      from == reader[r].next
  IN  /\ run[r].pc \in {"blocks", "children"} /\ from # 0
      /\ \E outcome \in Outcomes[FALSE], cursor \in {CursorAfter(p, from)} \cup reader[r].cursors :
           IF outcome # "object" \/ ~Fresh(r, cursor) THEN GiveUp(r)
           ELSE /\ reader' = [reader EXCEPT ![r] =
                     [next |-> cursor, cursors |-> @.cursors \cup ({cursor} \ {0}),
                      found |-> @.found \o Kept(Layout[p], PageFrom(p, from))]]
                /\ IF run[r].pc = "blocks" THEN ListBlocks(r) ELSE UNCHANGED vars
                /\ UNCHANGED listed

(* The children of what was found, block by block; then the tree is there. *)
FetchChildren(r) ==
  /\ run[r].pc = "children" /\ reader[r].next = 0
  /\ \E outcome \in Outcomes[FALSE] :
       IF outcome # "object" THEN GiveUp(r)
       ELSE /\ ReadBlocks(r)
            /\ run'[r].snapshot.blocks = ToSet(reader[r].found) \cap Blocks
            /\ UNCHANGED <<reader, listed>>

PersistTree(r) ==
  /\ Persist(r)
  /\ listed' = [listed EXCEPT ![Page(r)] = reader[r].found]
  /\ reader' = [reader EXCEPT ![r] = NoReader]

Ends(r) ==
  /\ StepFails(r) \/ RefuseStale(r) \/ RefuseTaken(r) \/ Crash(r)
  /\ reader' = [reader EXCEPT ![r] = NoReader]
  /\ UNCHANGED listed

Elsewhere ==
  /\ \/ \E p \in Pages : Edit(p)
     \/ \E b \in Blocks, p, q \in Pages : Move(b, p, q)
     \/ \E r \in Runs :
          (\E order \in Orders : Start(r, order)) \/ StartFull(r) \/ Embed(r) \/ Close(r)
  /\ UNCHANGED <<reader, listed>>

ReaderNext ==
  \/ Elsewhere
  \/ \E r \in Runs :
       \/ DiscoverPages(r) \/ FetchPage(r) \/ FetchList(r) \/ FetchChildren(r)
       \/ PersistTree(r) \/ Ends(r)

ReaderSpec == ReaderInit /\ [][ReaderNext]_readerVars

-------------------------------------------------------------------------------
(* Properties.                                                             *)

(* The places of the lines of a block that are its own: not those of a     *)
(* page it refers to.                                                      *)
Own(b) ==
  {i \in DOMAIN Lines[b] :
     \A j \in 1..i - 1 : Lines[b][j].type \in PageReferences => ~Within(<<b, i>>, <<b, j>>)}

OwnLines(blocks) ==
  FlattenSeq([k \in DOMAIN blocks |-> Kept(LinesOf(blocks[k]), Own(blocks[k]))])

(* The place where the section of line l begins, 0 if it is in none.       *)
SectionOf(lines, l) ==
  LET at == CHOOSE i \in DOMAIN lines : lines[i] = l
  IN  Max({0} \cup {i \in 1..at : Line(lines[i]).type \in Boundaries})

(* The chunks are the texts of the page and its blocks, in order, each     *)
(* once.  A chunk is within one section and bears its path; it is longer   *)
(* than the limit only if it is one line, and another chunk of the section *)
(* begins only where the next line no longer fits.                         *)
ChunksTrue(blocks) ==
  LET chunked == ChunksOf(blocks)
      lines == OwnLines(blocks)
      section == [k \in DOMAIN chunked |-> SectionOf(lines, chunked[k].lines[1])]
  IN  /\ FlattenSeq([k \in DOMAIN chunked |-> chunked[k].lines]) =
           Kept(lines, {i \in DOMAIN lines : Line(lines[i]).len > 0})
      /\ \A k \in DOMAIN chunked :
           /\ chunked[k].lines # <<>>
           /\ Length(chunked[k].lines) <= MaxChunk \/ Len(chunked[k].lines) = 1
           /\ \A l \in ToSet(chunked[k].lines) : SectionOf(lines, l) = section[k]
           /\ chunked[k].path = Path(lines[Max({1, section[k]})])
           /\ k > 1 /\ section[k] = section[k - 1] =>
                Length(Append(chunked[k - 1].lines, chunked[k].lines[1])) > MaxChunk

AllChunked == \A p \in Pages, blocks \in SUBSET Blocks : ChunksTrue(Listing(p, blocks))

(* What is stored of a page, and found by retrieval, is its own text and   *)
(* no other page's, in the order of the page, however many requests it     *)
(* took to read it and whatever was moved meanwhile: no block is read      *)
(* twice, none that stayed is missed, and the chunks keep it all.          *)
TextKept ==
  /\ \A r \in Runs : run[r].pc = "children" /\ reader[r].next = 0 =>
       ToSet(reader[r].found) \cap Blocks \in
         Between(notion[Page(r)], run[r].snapshot.version, Version(Page(r)))
  /\ \A p \in Pages : pageRow[p] # None => listed[p] = Listing(p, pageRow[p].blocks)
  /\ AllChunked
===============================================================================
