----------------------------- MODULE NotionIndex -----------------------------
(***************************************************************************)
(* The index of Notion pages: NotionPageIndexOrchestrator,                 *)
(* NotionIncrementalIndexOrchestrator and NotionFullIndexOrchestrator with *)
(* the repositories of notion_pages, notion_blocks and knowledge_chunks.   *)
(*                                                                         *)
(* A run reads one page after the other from Notion (first the page, then  *)
(* its blocks, in several requests), embeds the chunks and replaces the    *)
(* rows of the page in one transaction, which an advisory lock serializes  *)
(* with the other writers of that page.  Runs of any processes interleave  *)
(* with each other and with the people who edit Notion, who may also edit  *)
(* a page between two requests of one reading; any process may die.        *)
(***************************************************************************)
EXTENDS Naturals, Sequences, FiniteSets

CONSTANTS
  Pages,
  Blocks,    \* block ids, unique in the whole workspace
  Home,      \* [Blocks -> Pages], where each block is at first
  Runs,      \* indexing requests
  Orders,    \* sequences of pages a request may name
  MaxEdits,  \* bound: changes people make in Notion
  None

\* What a run has read of a page: its time, the versions it was at when its blocks
\* were first and last asked for, and the blocks.
Snapshots == [edited : Nat, version : Nat, last : Nat, blocks : SUBSET Blocks]

Audits == {"running", "succeeded", "failed"}

ASSUME NotionIndexAssumption ==
  /\ Home \in [Blocks -> Pages]
  /\ Orders \subseteq Seq(Pages) \ {<<>>}
  /\ MaxEdits \in Nat
  /\ None \notin Snapshots \cup Audits

VARIABLES
  notion,  \* notion[p]: what page p was, version after version; the last is current
  clock,   \* the time Notion puts on an edit, to the minute
  pageRow, \* pageRow[p]: row of notion_pages, None while there is none
  rows,    \* rows of notion_blocks
  chunks,  \* knowledge_chunks of kind "notion"
  run      \* run[r]: where request r stands

stored == <<notion, clock, pageRow, rows, chunks>>
vars == <<stored, run>>

Version(p) == Len(notion[p])
Current(p) == notion[p][Version(p)]

NoSnapshot == [edited |-> 0, version |-> 0, last |-> 0, blocks |-> {}]

NewRun == [pc |-> "new", todo |-> <<>>, at |-> 0, snapshot |-> NoSnapshot,
           began |-> [p \in Pages |-> 0], audit |-> None, reason |-> None]

Init ==
  /\ notion = [p \in Pages |->
                 << [edited |-> 1, blocks |-> {b \in Blocks : Home[b] = p}] >>]
  /\ clock = 1
  /\ pageRow = [p \in Pages |-> None]
  /\ rows = {}
  /\ chunks = {}
  /\ run = [r \in Runs |-> NewRun]

------------------------------------------------------------------------------
(* People edit Notion.                                                     *)

Edits == {e \in Pages \X (2..MaxEdits + 1) : e[2] <= Version(e[1])}

Put(p, t, blocks) == Append(notion[p], [edited |-> t, blocks |-> blocks])

(* The text of p changes, in the same minute or later.                     *)
Edit(p) ==
  /\ Cardinality(Edits) < MaxEdits
  /\ clock' \in {clock, clock + 1}
  /\ notion' = [notion EXCEPT ![p] = Put(p, clock', Current(p).blocks)]
  /\ UNCHANGED <<pageRow, rows, chunks, run>>

(* A block, which may be the reference to a subpage, moves with its id.    *)
Move(b, p, q) ==
  /\ Cardinality(Edits) < MaxEdits
  /\ p # q /\ b \in Current(p).blocks
  /\ clock' \in {clock, clock + 1}
  /\ notion' = [notion EXCEPT ![p] = Put(p, clock', Current(p).blocks \ {b}),
                              ![q] = Put(q, clock', Current(q).blocks \cup {b})]
  /\ UNCHANGED <<pageRow, rows, chunks, run>>

------------------------------------------------------------------------------
(* A request starts its workflow.                                          *)

Page(r) == run[r].todo[run[r].at]

Began == [p \in Pages |-> Current(p).edited]

(* index_page and sync_pages: the request names its pages.                 *)
Start(r, order) ==
  /\ run[r].pc = "new"
  /\ run' = [run EXCEPT ![r] = [@ EXCEPT !.pc = "page", !.todo = order, !.at = 1,
                                        !.audit = "running", !.began = Began]]
  /\ UNCHANGED stored

(* index_all: the pages are discovered first, in any order.                *)
StartFull(r) ==
  /\ run[r].pc = "new"
  /\ run' = [run EXCEPT ![r] = [@ EXCEPT !.pc = "discover", !.audit = "running",
                                        !.began = Began]]
  /\ UNCHANGED stored

Discover(r) ==
  /\ run[r].pc = "discover"
  /\ \E order \in Orders :
       /\ {order[i] : i \in 1..Len(order)} = Pages
       /\ run' = [run EXCEPT ![r] = [@ EXCEPT !.pc = "page", !.todo = order, !.at = 1]]
  /\ UNCHANGED stored

(* fetch_page_tree: the page with its last_edited_time, then its blocks.   *)
ReadPage(r) ==
  /\ run[r].pc = "page"
  /\ run' = [run EXCEPT ![r].pc = "blocks",
                        ![r].snapshot.edited = Current(Page(r)).edited]
  /\ UNCHANGED stored

ListBlocks(r) ==
  /\ run[r].pc = "blocks"
  /\ run' = [run EXCEPT ![r].pc = "children",
                        ![r].snapshot.version = Version(Page(r))]
  /\ UNCHANGED stored

(* What requests made while h went from version i to version j can find: a *)
(* block that was there all the time, and perhaps one that came or went.   *)
Between(h, i, j) ==
  {found \in SUBSET Blocks :
     /\ \A b \in found : \E v \in i..j : b \in h[v].blocks
     /\ \A b \in Blocks : (\A v \in i..j : b \in h[v].blocks) => b \in found}

(* The rest of the blocks and their children, request by request.          *)
ReadBlocks(r) ==
  LET p == Page(r)
  IN  /\ run[r].pc = "children"
      /\ \E found \in Between(notion[p], run[r].snapshot.version, Version(p)) :
           run' = [run EXCEPT ![r].pc = "embedding",
                              ![r].snapshot = [@ EXCEPT !.last = Version(p),
                                                        !.blocks = found]]
      /\ UNCHANGED stored

Embed(r) ==
  /\ run[r].pc = "embedding"
  /\ run' = [run EXCEPT ![r].pc = "persist"]
  /\ UNCHANGED stored

------------------------------------------------------------------------------
(* persist_prepared_page_snapshot                                          *)

(* upsert_page_snapshot refuses a snapshot older than the stored one.      *)
Stale_Unchecked(r) == FALSE  \* mutant: the time is not compared

Stale(r) ==
  /\ pageRow[Page(r)] # None
  /\ run[r].snapshot.edited < pageRow[Page(r)].edited

SnapshotBlocks(r) == run[r].snapshot.blocks

(* ix_notion_blocks_notion_block_id: one row per block id, of any page.    *)
BlockTaken(r) ==
  \E row \in rows : row.page # Page(r) /\ row.block \in SnapshotBlocks(r)

(* delete_page_chunks finds the chunks of a page through its block rows,   *)
(* so it has to come before replace_page_blocks.                           *)
KeptChunks_RowsFirst(p) == chunks  \* mutant: the rows are replaced first

KeptChunks(p) ==
  {c \in chunks : \A row \in rows : row.page = p => c.block # row.block}

Advance_TooFar(r) ==  \* mutant: one page past the last one
  run' = [run EXCEPT ![r].at = @ + 1, ![r].snapshot = NoSnapshot,
                     ![r].pc = IF run[r].at > Len(run[r].todo) THEN "close" ELSE "page"]

Advance(r) ==
  run' = [run EXCEPT ![r].at = @ + 1, ![r].snapshot = NoSnapshot,
                     ![r].pc = IF run[r].at = Len(run[r].todo) THEN "close" ELSE "page"]

Persist(r) ==
  LET p == Page(r)
      version == run[r].snapshot.version
  IN  /\ run[r].pc = "persist"
      /\ ~Stale(r)
      /\ ~BlockTaken(r)
      /\ pageRow' = [pageRow EXCEPT ![p] = run[r].snapshot]
      /\ rows' = {row \in rows : row.page # p}
                   \cup {[block |-> b, page |-> p] : b \in SnapshotBlocks(r)}
      /\ chunks' = KeptChunks(p)
                     \cup {[block |-> b, page |-> p, version |-> version] :
                             b \in SnapshotBlocks(r)}
      /\ Advance(r)
      /\ UNCHANGED <<notion, clock>>

------------------------------------------------------------------------------
(* How a run ends.  Pages that were replaced before stay replaced.         *)

(* mark_workflow_failed is best effort: if the database fails under it the *)
(* workflow stays "running".                                               *)
Fail(r, reason) ==
  /\ \E audit \in {"failed", "running"} :
       run' = [run EXCEPT ![r] = [@ EXCEPT !.pc = "done", !.snapshot = NoSnapshot,
                                           !.audit = audit, !.reason = reason]]
  /\ UNCHANGED stored

(* The reader, the embedding provider or the database.                     *)
StepFails(r) ==
  run[r].pc \in {"discover", "page", "blocks", "children", "embedding", "persist"}
    /\ Fail(r, "failed")

RefuseStale(r) == run[r].pc = "persist" /\ Stale(r) /\ Fail(r, "stale")

RefuseTaken(r) ==
  run[r].pc = "persist" /\ ~Stale(r) /\ BlockTaken(r) /\ Fail(r, "block_taken")

(* mark_workflow_succeeded, or WorkflowRunAuditUpdateError.                *)
Close(r) ==
  /\ run[r].pc = "close"
  /\ \E audit \in {"succeeded", "running"} :
       run' = [run EXCEPT ![r].pc = "done", ![r].audit = audit]
  /\ UNCHANGED stored

(* The process dies, and with it the run; the workflow stays "running".    *)
Crash(r) ==
  /\ run[r].pc \notin {"new", "done"}
  /\ run' = [run EXCEPT ![r] = [@ EXCEPT !.pc = "done", !.snapshot = NoSnapshot,
                                        !.reason = "failed"]]
  /\ UNCHANGED stored

------------------------------------------------------------------------------

Next ==
  \/ \E p \in Pages : Edit(p)
  \/ \E b \in Blocks, p, q \in Pages : Move(b, p, q)
  \/ \E r \in Runs :
       \/ \E order \in Orders : Start(r, order)
       \/ StartFull(r) \/ Discover(r)
       \/ ReadPage(r) \/ ListBlocks(r) \/ ReadBlocks(r) \/ Embed(r) \/ Persist(r)
       \/ StepFails(r) \/ RefuseStale(r) \/ RefuseTaken(r) \/ Close(r) \/ Crash(r)

Spec == Init /\ [][Next]_vars

------------------------------------------------------------------------------
(* Properties.                                                             *)

Versions == [edited : Nat, blocks : SUBSET Blocks]

RunStates ==
  [pc : {"new", "discover", "page", "blocks", "children", "embedding", "persist",
         "close", "done"},
   todo : Seq(Pages), at : Nat, snapshot : Snapshots,
   began : [Pages -> Nat], audit : Audits \cup {None},
   reason : {None, "failed", "stale", "block_taken"}]

AtPage == {"page", "blocks", "children", "embedding", "persist"}

(* Every variable keeps the shape the code gives it, a run at work is at   *)
(* one of its pages, and a stored page names versions the page has had.    *)
TypeOK ==
  /\ notion \in [Pages -> Seq(Versions)]
  /\ clock \in Nat
  /\ pageRow \in [Pages -> Snapshots \cup {None}]
  /\ rows \subseteq [block : Blocks, page : Pages]
  /\ chunks \subseteq [block : Blocks, page : Pages, version : Nat]
  /\ run \in [Runs -> RunStates]
  /\ \A p \in Pages : pageRow[p] # None =>
       pageRow[p].version \in 1..Version(p) /\ pageRow[p].last \in 1..Version(p)
  /\ \A r \in Runs : run[r].pc \in AtPage => run[r].at \in 1..Len(run[r].todo)

(* Since when none of the stored content of p was out of date.             *)
ContentTime(p) == notion[p][pageRow[p].version].edited

(* Once a snapshot with some last_edited_time is stored, no run, however   *)
(* late it writes what it read before, takes the page back to content      *)
(* older than that time (upsert_page_snapshot reads the time before the    *)
(* blocks and refuses an older one).  Two snapshots with one time, or two  *)
(* contents later than both times, may still replace each other.           *)
NeverFallsBehind ==
  [][\A p \in Pages : pageRow[p] # None =>
        pageRow'[p] # None /\ ContentTime(p)' >= pageRow[p].edited]_vars

(* What retrieval can see of a page is what one run has read of it: every  *)
(* block of that reading has its row and its chunk, there is nothing else, *)
(* and no block is found under two pages.  If nobody edited the page while *)
(* it was read, the reading is one version of it.  Otherwise it may mix    *)
(* versions: a block that was on the page throughout is there, and a block *)
(* that is there was on the page at some moment of the reading.            *)
WholeSnapshots ==
  /\ \A p \in Pages :
       LET blocks == IF pageRow[p] = None THEN {} ELSE pageRow[p].blocks
       IN  /\ pageRow[p] # None =>
                blocks \in Between(notion[p], pageRow[p].version, pageRow[p].last)
           /\ pageRow[p] # None /\ pageRow[p].version = pageRow[p].last =>
                blocks = notion[p][pageRow[p].version].blocks
           /\ {row \in rows : row.page = p} = {[block |-> b, page |-> p] : b \in blocks}
           /\ {c \in chunks : c.page = p} =
                {[block |-> b, page |-> p, version |-> pageRow[p].version] : b \in blocks}
  /\ \A x, y \in rows : x.block = y.block => x = y

(* A page a run reports as indexed is stored, and stays stored, with       *)
(* content at least as new as when the run began; a run audited as         *)
(* succeeded has indexed all its pages.                                    *)
ReportsHold ==
  \A r \in Runs :
    /\ \A i \in 1..Len(run[r].todo) : i < run[r].at =>
         LET p == run[r].todo[i]
         IN  pageRow[p] # None /\ ContentTime(p) >= run[r].began[p]
    /\ run[r].audit = "succeeded" => run[r].at > Len(run[r].todo)

(* Retrieval sees whole readings, and those the runs have reported.        *)
PagesHonest == WholeSnapshots /\ ReportsHold

(* docs/03-workflows.md says of a sync "read current page tree ...         *)
(* atomically replace derived rows": no run fails because of the rows      *)
(* another page has left behind.                                           *)
TreeReplaced == \A r \in Runs : run[r].reason # "block_taken"
==============================================================================
