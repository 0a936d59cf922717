--------------------------- MODULE NotionIndexProof ---------------------------
(***************************************************************************)
(* Proofs about NotionIndex for any pages, blocks, runs and edits.  Nothing*)
(* orders the runs, so what they store must order itself: the invariant    *)
(* says that the times of a page's versions never decrease, that the time  *)
(* a run has read is at least the one its request began at and at most     *)
(* that of the blocks it reads after it, and that a stored label is at     *)
(* most the time of the stored content.                                    *)
(*                                                                         *)
(* Then about NotionReader: it implements NotionIndex, and what is stored  *)
(* of a page keeps its text.  A listing in progress has gathered every     *)
(* block before the cursor that was on the page all the time, and none     *)
(* that was not (ReaderInv); going down a block leaves out what is below   *)
(* its references and no more (BlockLinesAre); and each line is placed in  *)
(* a chunk of its section, a new one only when it must be (PlaceOK).       *)
(***************************************************************************)
EXTENDS NotionReader, ListLemmas, TLAPS

(* The versions of one page: each is edited no earlier than the one before.*)
Growing(h) ==
  /\ Len(h) >= 1
  /\ \A i, j \in 1..Len(h) : i <= j => h[i].edited <= h[j].edited

Latest(h) == h[Len(h)].edited

Extends(h, g) ==
  /\ Len(h) <= Len(g)
  /\ \A i \in 1..Len(h) : g[i] = h[i]

Timed(edits, now) ==
  \A p \in Pages : Growing(edits[p]) /\ Latest(edits[p]) <= now

(* What is stored of p is what was read of it, whole.                      *)
Stored(indexed) == IF indexed = None THEN {} ELSE indexed.blocks

Whole(indexed, blockRows, stock) ==
  /\ \A p \in Pages :
       /\ {row \in blockRows : row.page = p}
            = {[block |-> b, page |-> p] : b \in Stored(indexed[p])}
       /\ {c \in stock : c.page = p}
            = {[block |-> b, page |-> p, version |-> indexed[p].version] :
                 b \in Stored(indexed[p])}
  /\ \A x, y \in blockRows : x.block = y.block => x = y

(* A reading s of the page with versions h, up to now.                     *)
ReadFrom(s, h) ==
  /\ s.version \in 1..Len(h) /\ s.last \in 1..Len(h)
  /\ s.edited <= h[s.version].edited
  /\ s.blocks \in Between(h, s.version, s.last)

Labelled(h, indexed) == indexed # None => ReadFrom(indexed, h)

(* What the request of run state x has read, and has stored so far.        *)
Reading(x, h, begin) ==
  /\ x.pc # "page" => begin <= x.snapshot.edited
  /\ x.pc = "blocks" => x.snapshot.edited <= Latest(h)
  /\ x.pc = "children" =>
       /\ x.snapshot.version \in 1..Len(h)
       /\ x.snapshot.edited <= h[x.snapshot.version].edited
  /\ x.pc \in {"embedding", "persist"} => ReadFrom(x.snapshot, h)

Indexed(x, i, indexed) ==
  indexed[x.todo[i]] # None /\ x.began[x.todo[i]] <= indexed[x.todo[i]].edited

RunOK(x, edits, indexed) ==
  /\ \A p \in Pages : x.began[p] <= Latest(edits[p])
  /\ x.pc \in AtPage =>
       /\ x.at \in 1..Len(x.todo)
       /\ Reading(x, edits[x.todo[x.at]], x.began[x.todo[x.at]])
  /\ \A i \in 1..Len(x.todo) : i < x.at => Indexed(x, i, indexed)
  /\ x.pc = "close" \/ x.audit = "succeeded" => x.at > Len(x.todo)
  /\ x.pc \in {"new", "discover"} => x.at = 0
  /\ x.audit = "succeeded" => x.pc = "done"

IInv ==
  /\ TypeOK
  /\ Timed(notion, clock)
  /\ Whole(pageRow, rows, chunks)
  /\ \A p \in Pages : Labelled(notion[p], pageRow[p])
  /\ \A r \in Runs : RunOK(run[r], notion, pageRow)

(* No step takes the label of a page back.                                 *)
Forward ==
  \A p \in Pages : pageRow[p] # None =>
    pageRow'[p] # None /\ pageRow[p].edited <= pageRow'[p].edited

------------------------------------------------------------------------------

LEMMA InitInvariant == Init => IInv
<1> SUFFICES ASSUME Init PROVE IInv
  OBVIOUS
<1>1. ASSUME NEW p \in Pages
      PROVE  /\ notion[p] \in Seq(Versions) /\ Len(notion[p]) = 1
             /\ notion[p][1].edited = 1 /\ pageRow[p] = None
  BY DEF Init, Versions
<1>2. TypeOK
  <2>1. NewRun \in RunStates /\ NewRun.pc \notin AtPage
    BY DEF NewRun, RunStates, Snapshots, Audits, NoSnapshot, AtPage
  <2> QED BY <1>1, <2>1 DEF Init, TypeOK, Versions, Snapshots
<1>3. Timed(notion, clock)
  BY <1>1 DEF Init, Timed, Growing, Latest
<1>4. Whole(pageRow, rows, chunks)
  BY <1>1 DEF Init, Whole, Stored
<1>5. \A p \in Pages : Labelled(notion[p], pageRow[p])
  BY <1>1 DEF Labelled
<1>6. ASSUME NEW r \in Runs PROVE RunOK(run[r], notion, pageRow)
  <2>1. run[r] = NewRun
    BY DEF Init
  <2>2. \A p \in Pages : 0 <= Latest(notion[p])
    BY <1>1 DEF Latest
  <2>3. NewRun.audit # "succeeded"
    BY NotionIndexAssumption DEF NewRun, Audits
  <2> QED BY <2>1, <2>2, <2>3 DEF NewRun, RunOK, AtPage
<1> QED BY <1>2, <1>3, <1>4, <1>5, <1>6 DEF IInv

------------------------------------------------------------------------------
(* Edits.                                                                  *)

LEMMA LatestNat ==
  ASSUME NEW h \in Seq(Versions), Growing(h)
  PROVE  Latest(h) \in Nat
<1>1. h[Len(h)] \in Versions
  BY DEF Growing
<1> QED BY <1>1 DEF Latest, Versions

LEMMA AppendExtends ==
  ASSUME NEW h \in Seq(Versions), Growing(h), NEW v \in Versions, Latest(h) <= v.edited
  PROVE  /\ Append(h, v) \in Seq(Versions)
         /\ Growing(Append(h, v))
         /\ Latest(Append(h, v)) = v.edited
         /\ Extends(h, Append(h, v))
         /\ Latest(h) <= Latest(Append(h, v))
<1>1. /\ Len(h) \in Nat /\ Len(h) >= 1
      /\ Len(Append(h, v)) = Len(h) + 1
      /\ Append(h, v)[Len(h) + 1] = v
      /\ \A i \in 1..Len(h) : Append(h, v)[i] = h[i]
  BY DEF Growing
<1>2. \A i \in 1..Len(h) : h[i].edited \in Nat
  <2>1. ASSUME NEW i \in 1..Len(h) PROVE h[i] \in Versions
    OBVIOUS
  <2> QED BY <2>1 DEF Versions
<1>3. v.edited \in Nat
  BY DEF Versions
<1>4. \A i \in 1..Len(h) : h[i].edited <= v.edited
  BY <1>1, <1>2, <1>3 DEF Growing, Latest
<1>5. ASSUME NEW i \in 1..Len(h) + 1, NEW j \in 1..Len(h) + 1, i <= j
      PROVE  Append(h, v)[i].edited <= Append(h, v)[j].edited
  <2>1. CASE j = Len(h) + 1
    <3>1. CASE i = j
      BY <1>1, <1>3, <2>1, <3>1
    <3>2. CASE i # j
      BY <1>1, <1>4, <2>1, <3>2
    <3> QED BY <3>1, <3>2
  <2>2. CASE j # Len(h) + 1
    BY <1>1, <1>5, <2>2 DEF Growing
  <2> QED BY <2>1, <2>2
<1>6. Growing(Append(h, v))
  BY <1>1, <1>5 DEF Growing
<1>7. Latest(Append(h, v)) = v.edited
  BY <1>1 DEF Latest
<1> QED BY <1>1, <1>6, <1>7 DEF Extends

(* What was read of a page stays so as the page gets new versions.         *)
LEMMA ReadFromExtends ==
  ASSUME NEW h \in Seq(Versions), NEW g \in Seq(Versions), Extends(h, g),
         NEW s \in Snapshots, ReadFrom(s, h)
  PROVE  ReadFrom(s, g)
<1>1. Len(h) \in Nat /\ Len(g) \in Nat /\ Len(h) <= Len(g)
  BY DEF Extends
<1>2. s.version \in 1..Len(g) /\ s.last \in 1..Len(g)
  BY <1>1 DEF ReadFrom
<1>3. ASSUME NEW v \in s.version..s.last PROVE v \in 1..Len(h) /\ g[v] = h[v]
  BY <1>1 DEF ReadFrom, Extends
<1>4. g[s.version] = h[s.version]
  BY DEF ReadFrom, Extends
<1>5. s.blocks \in Between(g, s.version, s.last)
  BY <1>3 DEF ReadFrom, Between
<1> QED BY <1>2, <1>4, <1>5 DEF ReadFrom

(* What is known of a run stays known as the pages get new versions.       *)
LEMMA RunOKExtends ==
  ASSUME NEW x \in RunStates,
         NEW edits \in [Pages -> Seq(Versions)], NEW later \in [Pages -> Seq(Versions)],
         \A p \in Pages : Extends(edits[p], later[p]) /\ Latest(edits[p]) <= Latest(later[p])
                            /\ Growing(edits[p]) /\ Growing(later[p]),
         NEW indexed, RunOK(x, edits, indexed)
  PROVE  RunOK(x, later, indexed)
<1>1. \A p \in Pages : Latest(edits[p]) \in Nat /\ Latest(later[p]) \in Nat
  BY LatestNat
<1>2. \A p \in Pages : x.began[p] \in Nat
  BY DEF RunStates
<1>3. \A p \in Pages : x.began[p] <= Latest(later[p])
  BY <1>1, <1>2 DEF RunOK
<1>4. ASSUME x.pc \in AtPage
      PROVE  Reading(x, later[x.todo[x.at]], x.began[x.todo[x.at]])
  <2>1. PICK p \in Pages : p = x.todo[x.at]
    BY <1>4 DEF RunOK, RunStates
  <2>2. Reading(x, edits[p], x.began[p])
    BY <1>4, <2>1 DEF RunOK
  <2>3. /\ x.snapshot \in Snapshots
        /\ x.snapshot.edited \in Nat /\ x.snapshot.version \in Nat
    BY DEF RunStates, Snapshots
  <2>4. Extends(edits[p], later[p]) /\ Latest(edits[p]) <= Latest(later[p])
    OBVIOUS
  <2>5. Len(edits[p]) \in Nat /\ Len(later[p]) \in Nat
    OBVIOUS
  <2>6. ReadFrom(x.snapshot, edits[p]) => ReadFrom(x.snapshot, later[p])
    BY <2>3, <2>4, ReadFromExtends
  <2>7. Reading(x, later[p], x.began[p])
    BY <1>1, <2>2, <2>3, <2>4, <2>5, <2>6 DEF Reading, Extends
  <2> QED BY <2>1, <2>7
<1> QED BY <1>3, <1>4 DEF RunOK

(* Every page gets new versions or none.                                   *)
LEMMA EditKeeps ==
  ASSUME IInv, UNCHANGED <<pageRow, rows, chunks, run>>,
         clock' \in Nat, clock <= clock', notion' \in [Pages -> Seq(Versions)],
         \A p \in Pages : /\ Growing(notion'[p])
                          /\ Extends(notion[p], notion'[p])
                          /\ Latest(notion[p]) <= Latest(notion'[p])
                          /\ Latest(notion'[p]) <= clock'
  PROVE  IInv' /\ Forward
<1>1. \A p \in Pages : /\ Len(notion[p]) \in Nat /\ Len(notion'[p]) \in Nat
                       /\ Len(notion[p]) <= Len(notion'[p])
  BY DEF IInv, TypeOK, Extends
<1>2. TypeOK'
  BY <1>1 DEF IInv, TypeOK, Version
<1>3. Timed(notion', clock')
  BY DEF Timed
<1>4. ASSUME NEW p \in Pages
      PROVE  Labelled(notion'[p], pageRow[p])
  <2>1. CASE pageRow[p] = None
    BY <2>1 DEF Labelled
  <2>2. CASE pageRow[p] # None
    <3>1. /\ pageRow[p] \in Snapshots
          /\ notion[p] \in Seq(Versions) /\ notion'[p] \in Seq(Versions)
          /\ ReadFrom(pageRow[p], notion[p]) /\ Extends(notion[p], notion'[p])
      BY <2>2 DEF IInv, TypeOK, Labelled
    <3> QED BY <3>1, ReadFromExtends DEF Labelled
  <2> QED BY <2>1, <2>2
<1>5. Whole(pageRow', rows', chunks')
  BY DEF IInv
<1>6. ASSUME NEW r \in Runs PROVE RunOK(run'[r], notion', pageRow')
  <2>1. run[r] \in RunStates /\ RunOK(run[r], notion, pageRow)
    BY DEF IInv, TypeOK
  <2>2. notion \in [Pages -> Seq(Versions)] /\ \A p \in Pages : Growing(notion[p])
    BY DEF IInv, TypeOK, Timed
  <2>3. RunOK(run[r], notion', pageRow)
    BY <2>1, <2>2, RunOKExtends
  <2> QED BY <2>3
<1>7. Forward
  BY DEF Forward, IInv, TypeOK, Snapshots
<1> QED BY <1>2, <1>3, <1>4, <1>5, <1>6, <1>7 DEF IInv

(* An edit appends a version that is not older than the current one.       *)
LEMMA NewVersion ==
  ASSUME IInv, NEW p \in Pages, clock' \in {clock, clock + 1},
         NEW blocks \in SUBSET Blocks
  PROVE  /\ clock' \in Nat /\ clock <= clock'
         /\ Put(p, clock', blocks) \in Seq(Versions)
         /\ Growing(Put(p, clock', blocks))
         /\ Extends(notion[p], Put(p, clock', blocks))
         /\ Latest(notion[p]) <= Latest(Put(p, clock', blocks))
         /\ Latest(Put(p, clock', blocks)) <= clock'
<1> DEFINE v == [edited |-> clock', blocks |-> blocks]
<1>1. clock' \in Nat /\ clock \in Nat /\ clock <= clock'
  BY DEF IInv, TypeOK
<1>2. v \in Versions /\ v.edited = clock'
  BY <1>1 DEF Versions
<1>3. notion[p] \in Seq(Versions) /\ Growing(notion[p]) /\ Latest(notion[p]) <= clock
  BY DEF IInv, TypeOK, Timed
<1>4. Latest(notion[p]) \in Nat
  BY <1>3, LatestNat
<1>5. Latest(notion[p]) <= v.edited
  BY <1>1, <1>2, <1>3, <1>4
<1>6. Put(p, clock', blocks) = Append(notion[p], v)
  BY DEF Put
<1> HIDE DEF v
<1> QED BY <1>1, <1>2, <1>3, <1>5, <1>6, AppendExtends

LEMMA CurrentBlocks ==
  ASSUME IInv, NEW p \in Pages
  PROVE  Current(p).blocks \in SUBSET Blocks
<1>1. notion[p] \in Seq(Versions) /\ Len(notion[p]) >= 1
  BY DEF IInv, TypeOK, Timed, Growing
<1>2. notion[p][Len(notion[p])] \in Versions
  BY <1>1
<1> QED BY <1>2 DEF Current, Version, Versions

(* A page that no edit changes.                                            *)
LEMMA SameVersions ==
  ASSUME IInv, NEW p \in Pages, clock' \in {clock, clock + 1}
  PROVE  /\ notion[p] \in Seq(Versions)
         /\ Growing(notion[p]) /\ Extends(notion[p], notion[p])
         /\ Latest(notion[p]) <= Latest(notion[p])
         /\ Latest(notion[p]) <= clock'
<1>1. notion[p] \in Seq(Versions) /\ Growing(notion[p]) /\ Latest(notion[p]) <= clock
      /\ clock \in Nat
  BY DEF IInv, TypeOK, Timed
<1>2. Latest(notion[p]) \in Nat
  BY <1>1, LatestNat
<1> QED BY <1>1, <1>2 DEF Extends

LEMMA EditStep ==
  ASSUME IInv, NEW p \in Pages, Edit(p)
  PROVE  IInv' /\ Forward
<1>1. PICK blocks \in SUBSET Blocks : blocks = Current(p).blocks
  BY CurrentBlocks
<1>2. notion' = [notion EXCEPT ![p] = Put(p, clock', blocks)] /\ clock' \in {clock, clock + 1}
  BY <1>1 DEF Edit
<1>3. notion'[p] = Put(p, clock', blocks) /\ \A q \in Pages : q # p => notion'[q] = notion[q]
  BY <1>2 DEF IInv, TypeOK
<1>4. ASSUME NEW q \in Pages
      PROVE  /\ notion'[q] \in Seq(Versions)
             /\ Growing(notion'[q]) /\ Extends(notion[q], notion'[q])
             /\ Latest(notion[q]) <= Latest(notion'[q])
             /\ Latest(notion'[q]) <= clock'
  <2>1. CASE q = p
    BY <1>2, <1>3, <2>1, NewVersion
  <2>2. CASE q # p
    BY <1>2, <1>3, <2>2, SameVersions
  <2> QED BY <2>1, <2>2
<1>5. clock' \in Nat /\ clock <= clock'
  BY <1>2, NewVersion
<1>6. notion' \in [Pages -> Seq(Versions)]
  <2>1. notion' = [q \in Pages |-> notion'[q]]
    BY <1>2 DEF IInv, TypeOK
  <2> QED BY <1>4, <2>1
<1> QED BY <1>4, <1>5, <1>6, EditKeeps DEF Edit

LEMMA MoveStep ==
  ASSUME IInv, NEW b \in Blocks, NEW p \in Pages, NEW q \in Pages, Move(b, p, q)
  PROVE  IInv' /\ Forward
<1>1. PICK rest \in SUBSET Blocks, more \in SUBSET Blocks :
        rest = Current(p).blocks \ {b} /\ more = Current(q).blocks \cup {b}
  BY CurrentBlocks
<1>2. /\ notion' = [notion EXCEPT ![p] = Put(p, clock', rest), ![q] = Put(q, clock', more)]
      /\ clock' \in {clock, clock + 1} /\ p # q
  BY <1>1 DEF Move
<1>3. /\ notion'[p] = Put(p, clock', rest) /\ notion'[q] = Put(q, clock', more)
      /\ \A s \in Pages : s # p /\ s # q => notion'[s] = notion[s]
  BY <1>2 DEF IInv, TypeOK
<1>4. ASSUME NEW s \in Pages
      PROVE  /\ notion'[s] \in Seq(Versions)
             /\ Growing(notion'[s]) /\ Extends(notion[s], notion'[s])
             /\ Latest(notion[s]) <= Latest(notion'[s])
             /\ Latest(notion'[s]) <= clock'
  <2>1. CASE s = p
    BY <1>2, <1>3, <2>1, NewVersion
  <2>2. CASE s = q
    BY <1>2, <1>3, <2>2, NewVersion
  <2>3. CASE s # p /\ s # q
    BY <1>2, <1>3, <2>3, SameVersions
  <2> QED BY <2>1, <2>2, <2>3
<1>5. clock' \in Nat /\ clock <= clock'
  BY <1>2, NewVersion
<1>6. notion' \in [Pages -> Seq(Versions)]
  <2>1. notion' = [s \in Pages |-> notion'[s]]
    BY <1>2 DEF IInv, TypeOK
  <2> QED BY <1>4, <2>1
<1> QED BY <1>4, <1>5, <1>6, EditKeeps DEF Move

------------------------------------------------------------------------------
(* Steps of a run that store nothing.                                      *)

LEMMA RunStep ==
  ASSUME IInv, NEW r \in Runs, NEW x \in RunStates, run' = [run EXCEPT ![r] = x],
         UNCHANGED stored, RunOK(x, notion, pageRow)
  PROVE  IInv' /\ Forward
<1>1. UNCHANGED <<notion, clock, pageRow, rows, chunks>>
  BY DEF stored
<1>2. \A s \in Runs : run'[s] = IF s = r THEN x ELSE run[s]
  BY DEF IInv, TypeOK
<1>3. \A s \in Runs : RunOK(run'[s], notion, pageRow)
  BY <1>2 DEF IInv
<1>4. run' \in [Runs -> RunStates]
  BY DEF IInv, TypeOK
<1>5. TypeOK'
  BY <1>1, <1>3, <1>4 DEF IInv, TypeOK, RunOK, Version
<1>6. Forward
  BY <1>1 DEF Forward, IInv, TypeOK, Snapshots
<1> QED BY <1>1, <1>3, <1>5, <1>6 DEF IInv

(* A run that ends keeps what it has indexed.                              *)
LEMMA EndStep ==
  ASSUME IInv, NEW r \in Runs, NEW x \in RunStates, run' = [run EXCEPT ![r] = x],
         UNCHANGED stored, x.pc = "done", x.todo = run[r].todo, x.at = run[r].at,
         x.began = run[r].began,
         x.audit = "succeeded" => run[r].pc = "close" \/ run[r].audit = "succeeded"
  PROVE  IInv' /\ Forward
<1>1. RunOK(run[r], notion, pageRow)
  BY DEF IInv
<1>2. RunOK(x, notion, pageRow)
  BY <1>1 DEF RunOK, AtPage, Indexed
<1> QED BY <1>2, RunStep

(* What a request finds when it begins, and when it reads a page.          *)
LEMMA Times ==
  ASSUME IInv
  PROVE  /\ Began \in [Pages -> Nat]
         /\ \A p \in Pages : /\ Began[p] = Latest(notion[p])
                             /\ Current(p).edited = Latest(notion[p])
                             /\ Latest(notion[p]) \in Nat
                             /\ Len(notion[p]) \in Nat /\ Len(notion[p]) >= 1
<1>1. ASSUME NEW p \in Pages
      PROVE  /\ Current(p).edited = Latest(notion[p])
             /\ Latest(notion[p]) \in Nat
             /\ Len(notion[p]) \in Nat /\ Len(notion[p]) >= 1
  <2>1. notion[p] \in Seq(Versions) /\ Growing(notion[p])
    BY DEF IInv, TypeOK, Timed
  <2> QED BY <2>1, LatestNat DEF Current, Version, Latest, Growing
<1> QED BY <1>1 DEF Began

LEMMA OrderNonempty ==
  ASSUME NEW order \in Orders
  PROVE  order \in Seq(Pages) /\ Len(order) \in Nat /\ Len(order) >= 1
<1>1. order \in Seq(Pages) /\ order # <<>>
  BY NotionIndexAssumption DEF NotionIndexAssumption
<1> QED BY <1>1, EmptySeq

LEMMA StartStep ==
  ASSUME IInv, NEW r \in Runs, NEW order \in Orders, Start(r, order)
  PROVE  IInv' /\ Forward
<1>1. /\ order \in Seq(Pages) /\ Len(order) \in Nat /\ Len(order) >= 1
      /\ Began \in [Pages -> Nat]
  BY OrderNonempty, Times
<1> DEFINE x == [run[r] EXCEPT !.pc = "page", !.todo = order, !.at = 1,
                               !.audit = "running", !.began = Began]
<1>2. run[r] \in RunStates /\ run' = [run EXCEPT ![r] = x] /\ UNCHANGED stored
  BY DEF Start, IInv, TypeOK
<1>3. x \in RunStates
  BY <1>1, <1>2 DEF RunStates, Audits
<1>4. x.pc = "page" /\ x.at = 1 /\ x.todo = order /\ x.began = Began /\ x.audit = "running"
  BY <1>2 DEF RunStates
<1> HIDE DEF x
<1>5. \A p \in Pages : x.began[p] <= Latest(notion[p])
  BY <1>4, Times
<1>6. RunOK(x, notion, pageRow)
  BY <1>1, <1>4, <1>5 DEF RunOK, Reading
<1> QED BY <1>2, <1>3, <1>6, RunStep

LEMMA StartFullStep ==
  ASSUME IInv, NEW r \in Runs, StartFull(r)
  PROVE  IInv' /\ Forward
<1> DEFINE x == [run[r] EXCEPT !.pc = "discover", !.audit = "running", !.began = Began]
<1>1. /\ run[r] \in RunStates /\ run' = [run EXCEPT ![r] = x] /\ UNCHANGED stored
      /\ RunOK(run[r], notion, pageRow) /\ run[r].pc = "new"
  BY DEF StartFull, IInv, TypeOK
<1>2. x \in RunStates
  BY <1>1, Times DEF RunStates, Audits
<1>3. x.pc = "discover" /\ x.at = 0 /\ x.began = Began /\ x.audit = "running"
  BY <1>1 DEF RunStates, RunOK
<1> HIDE DEF x
<1>4. \A p \in Pages : x.began[p] <= Latest(notion[p])
  BY <1>3, Times
<1>5. RunOK(x, notion, pageRow)
  BY <1>3, <1>4 DEF RunOK, AtPage
<1> QED BY <1>1, <1>2, <1>5, RunStep

LEMMA DiscoverStep ==
  ASSUME IInv, NEW r \in Runs, Discover(r)
  PROVE  IInv' /\ Forward
<1>1. PICK order \in Orders :
        run' = [run EXCEPT ![r] = [@ EXCEPT !.pc = "page", !.todo = order, !.at = 1]]
  BY DEF Discover
<1>2. order \in Seq(Pages) /\ Len(order) \in Nat /\ Len(order) >= 1
  BY OrderNonempty
<1> DEFINE x == [run[r] EXCEPT !.pc = "page", !.todo = order, !.at = 1]
<1>3. /\ run[r] \in RunStates /\ run' = [run EXCEPT ![r] = x] /\ UNCHANGED stored
      /\ RunOK(run[r], notion, pageRow) /\ run[r].pc = "discover"
  BY <1>1 DEF Discover, IInv, TypeOK
<1>4. x \in RunStates
  BY <1>2, <1>3 DEF RunStates
<1>5. x.pc = "page" /\ x.at = 1 /\ x.todo = order /\ x.began = run[r].began
      /\ x.audit = run[r].audit
  BY <1>3 DEF RunStates
<1> HIDE DEF x
<1>6. RunOK(x, notion, pageRow)
  BY <1>2, <1>3, <1>5 DEF RunOK, Reading
<1> QED BY <1>3, <1>4, <1>6, RunStep

(* A run that reads keeps its page and what it has indexed.                *)
LEMMA ReadStep ==
  ASSUME IInv, NEW r \in Runs, NEW p \in Pages, p = Page(r), run[r].pc \in AtPage,
         NEW x \in RunStates, run' = [run EXCEPT ![r] = x], UNCHANGED stored,
         x.pc \in AtPage, x.todo = run[r].todo, x.at = run[r].at, x.began = run[r].began,
         x.audit = run[r].audit,
         Reading(run[r], notion[p], run[r].began[p]) => Reading(x, notion[p], run[r].began[p])
  PROVE  IInv' /\ Forward
<1>1. RunOK(run[r], notion, pageRow)
  BY DEF IInv
<1>2. RunOK(x, notion, pageRow)
  BY <1>1 DEF RunOK, AtPage, Page, Indexed
<1> QED BY <1>2, RunStep

LEMMA PageOf ==
  ASSUME IInv, NEW r \in Runs, run[r].pc \in AtPage
  PROVE  /\ Page(r) \in Pages
         /\ run[r] \in RunStates
         /\ run[r].began[Page(r)] \in Nat
         /\ run[r].began[Page(r)] <= Latest(notion[Page(r)])
         /\ Reading(run[r], notion[Page(r)], run[r].began[Page(r)])
<1>1. run[r] \in RunStates /\ RunOK(run[r], notion, pageRow)
  BY DEF IInv, TypeOK
<1>2. run[r].todo \in Seq(Pages) /\ run[r].at \in 1..Len(run[r].todo)
  BY <1>1 DEF RunOK, RunStates
<1>3. Page(r) \in Pages
  BY <1>2 DEF Page
<1> QED BY <1>1, <1>3 DEF RunOK, RunStates, Page

LEMMA ReadPageStep ==
  ASSUME IInv, NEW r \in Runs, ReadPage(r)
  PROVE  IInv' /\ Forward
<1>0. run[r].pc = "page" /\ run[r].pc \in AtPage
  BY DEF ReadPage, AtPage
<1>1. PICK p \in Pages : p = Page(r)
  BY <1>0, PageOf
<1>2. run[r] \in RunStates /\ run[r].began[p] <= Latest(notion[p])
  BY <1>0, <1>1, PageOf
<1>3. PICK time \in Nat : time = Current(p).edited /\ time = Latest(notion[p])
  BY Times
<1> DEFINE x == [run[r] EXCEPT !.pc = "blocks", !.snapshot = [@ EXCEPT !.edited = time]]
<1>4. run' = [run EXCEPT ![r] = x] /\ UNCHANGED stored
  BY <1>1, <1>2, <1>3 DEF ReadPage, IInv, TypeOK, RunStates, Snapshots
<1>5. x \in RunStates
  BY <1>2 DEF RunStates, Snapshots
<1>6. /\ x.pc = "blocks" /\ x.todo = run[r].todo /\ x.at = run[r].at
      /\ x.began = run[r].began /\ x.audit = run[r].audit /\ x.snapshot.edited = time
  BY <1>2 DEF RunStates, Snapshots
<1> HIDE DEF x
<1>7. Reading(x, notion[p], run[r].began[p])
  BY <1>2, <1>3, <1>6 DEF Reading
<1> QED BY <1>0, <1>1, <1>4, <1>5, <1>6, <1>7, ReadStep DEF AtPage

LEMMA ListBlocksStep ==
  ASSUME IInv, NEW r \in Runs, ListBlocks(r)
  PROVE  IInv' /\ Forward
<1>0. run[r].pc = "blocks" /\ run[r].pc \in AtPage
  BY DEF ListBlocks, AtPage
<1>1. PICK p \in Pages : p = Page(r)
  BY <1>0, PageOf
<1>2. /\ run[r] \in RunStates
      /\ Reading(run[r], notion[p], run[r].began[p])
  BY <1>0, <1>1, PageOf
<1>3. PICK version \in Nat : version = Version(p) /\ version = Len(notion[p]) /\ version >= 1
  BY Times DEF Version
<1> DEFINE x == [run[r] EXCEPT !.pc = "children", !.snapshot = [@ EXCEPT !.version = version]]
<1>4. run' = [run EXCEPT ![r] = x] /\ UNCHANGED stored
  BY <1>1, <1>2, <1>3 DEF ListBlocks, IInv, TypeOK, RunStates, Snapshots
<1>5. x \in RunStates
  BY <1>2 DEF RunStates, Snapshots
<1>6. /\ x.pc = "children" /\ x.todo = run[r].todo /\ x.at = run[r].at
      /\ x.began = run[r].began /\ x.audit = run[r].audit
      /\ x.snapshot.edited = run[r].snapshot.edited /\ x.snapshot.version = version
  BY <1>2 DEF RunStates, Snapshots
<1> HIDE DEF x
<1>7. Reading(x, notion[p], run[r].began[p])
  BY <1>0, <1>2, <1>3, <1>6 DEF Reading, Latest
<1> QED BY <1>0, <1>1, <1>4, <1>5, <1>6, <1>7, ReadStep DEF AtPage

LEMMA ReadBlocksStep ==
  ASSUME IInv, NEW r \in Runs, ReadBlocks(r)
  PROVE  IInv' /\ Forward
<1>0. run[r].pc = "children" /\ run[r].pc \in AtPage
  BY DEF ReadBlocks, AtPage
<1>1. PICK p \in Pages : p = Page(r)
  BY <1>0, PageOf
<1>2. /\ run[r] \in RunStates /\ run[r].snapshot \in Snapshots
      /\ Reading(run[r], notion[p], run[r].began[p])
  BY <1>0, <1>1, PageOf DEF RunStates
<1>3. PICK last \in Nat : last = Version(p) /\ last = Len(notion[p]) /\ last >= 1
  BY Times DEF Version
<1>4. PICK found \in Between(notion[p], run[r].snapshot.version, last) :
        run' = [run EXCEPT ![r].pc = "embedding",
                           ![r].snapshot = [@ EXCEPT !.last = last, !.blocks = found]]
  BY <1>1, <1>3 DEF ReadBlocks
<1>5. found \in SUBSET Blocks
  BY DEF Between
<1> DEFINE y == [run[r].snapshot EXCEPT !.last = last, !.blocks = found]
           x == [run[r] EXCEPT !.pc = "embedding", !.snapshot = y]
<1>6. run' = [run EXCEPT ![r] = x] /\ UNCHANGED stored
  BY <1>1, <1>2, <1>4 DEF ReadBlocks, IInv, TypeOK, RunStates, Snapshots
<1>7. /\ y \in Snapshots
      /\ y.edited = run[r].snapshot.edited /\ y.version = run[r].snapshot.version
      /\ y.last = last /\ y.blocks = found
  BY <1>2, <1>5 DEF Snapshots
<1> HIDE DEF y
<1>8. x \in RunStates
  BY <1>2, <1>7 DEF RunStates
<1>9. /\ x.pc = "embedding" /\ x.todo = run[r].todo /\ x.at = run[r].at
      /\ x.began = run[r].began /\ x.audit = run[r].audit /\ x.snapshot = y
  BY <1>2 DEF RunStates
<1> HIDE DEF x
<1>10. ReadFrom(y, notion[p])
  BY <1>0, <1>2, <1>3, <1>4, <1>7 DEF Reading, ReadFrom
<1>11. Reading(x, notion[p], run[r].began[p])
  BY <1>0, <1>2, <1>7, <1>9, <1>10 DEF Reading
<1> QED BY <1>0, <1>1, <1>6, <1>8, <1>9, <1>11, ReadStep DEF AtPage

LEMMA EmbedStep ==
  ASSUME IInv, NEW r \in Runs, Embed(r)
  PROVE  IInv' /\ Forward
<1>0. run[r].pc = "embedding" /\ run[r].pc \in AtPage
  BY DEF Embed, AtPage
<1>1. PICK p \in Pages : p = Page(r)
  BY <1>0, PageOf
<1> DEFINE x == [run[r] EXCEPT !.pc = "persist"]
<1>2. run[r] \in RunStates /\ run' = [run EXCEPT ![r] = x] /\ UNCHANGED stored
  BY DEF Embed, IInv, TypeOK
<1>3. x \in RunStates
  BY <1>2 DEF RunStates
<1>4. /\ x.pc = "persist" /\ x.todo = run[r].todo /\ x.at = run[r].at
      /\ x.began = run[r].began /\ x.audit = run[r].audit /\ x.snapshot = run[r].snapshot
  BY <1>2 DEF RunStates
<1> HIDE DEF x
<1>5. Reading(run[r], notion[p], run[r].began[p]) => Reading(x, notion[p], run[r].began[p])
  BY <1>0, <1>4 DEF Reading
<1> QED BY <1>0, <1>1, <1>2, <1>3, <1>4, <1>5, ReadStep DEF AtPage

(* Failures, the audit and the crash.                                      *)
LEMMA FailStep ==
  ASSUME IInv, NEW r \in Runs, NEW reason \in {"failed", "stale", "block_taken"},
         Fail(r, reason)
  PROVE  IInv' /\ Forward
<1>1. PICK audit \in {"failed", "running"} :
        run' = [run EXCEPT ![r] = [@ EXCEPT !.pc = "done", !.snapshot = NoSnapshot,
                                            !.audit = audit, !.reason = reason]]
  BY DEF Fail
<1> DEFINE x == [run[r] EXCEPT !.pc = "done", !.snapshot = NoSnapshot,
                               !.audit = audit, !.reason = reason]
<1>2. run[r] \in RunStates /\ run' = [run EXCEPT ![r] = x] /\ UNCHANGED stored
  BY <1>1 DEF Fail, IInv, TypeOK
<1>3. x \in RunStates
  BY <1>2 DEF RunStates, Audits, NoSnapshot, Snapshots
<1>4. x.pc = "done" /\ x.todo = run[r].todo /\ x.at = run[r].at /\ x.began = run[r].began
      /\ x.audit # "succeeded"
  BY <1>2 DEF RunStates
<1> HIDE DEF x
<1> QED BY <1>2, <1>3, <1>4, EndStep

LEMMA CloseStep ==
  ASSUME IInv, NEW r \in Runs, Close(r)
  PROVE  IInv' /\ Forward
<1>1. PICK audit \in {"succeeded", "running"} :
        run' = [run EXCEPT ![r].pc = "done", ![r].audit = audit]
  BY DEF Close
<1> DEFINE x == [run[r] EXCEPT !.pc = "done", !.audit = audit]
<1>2. /\ run[r] \in RunStates /\ run' = [run EXCEPT ![r] = x] /\ UNCHANGED stored
      /\ run[r].pc = "close"
  BY <1>1 DEF Close, IInv, TypeOK
<1>3. x \in RunStates
  BY <1>2 DEF RunStates, Audits
<1>4. x.pc = "done" /\ x.todo = run[r].todo /\ x.at = run[r].at /\ x.began = run[r].began
  BY <1>2 DEF RunStates
<1> HIDE DEF x
<1> QED BY <1>2, <1>3, <1>4, EndStep

LEMMA CrashStep ==
  ASSUME IInv, NEW r \in Runs, Crash(r)
  PROVE  IInv' /\ Forward
<1> DEFINE x == [run[r] EXCEPT !.pc = "done", !.snapshot = NoSnapshot, !.reason = "failed"]
<1>1. run[r] \in RunStates /\ run' = [run EXCEPT ![r] = x] /\ UNCHANGED stored
  BY DEF Crash, IInv, TypeOK
<1>2. x \in RunStates
  BY <1>1 DEF RunStates, NoSnapshot, Snapshots
<1>3. x.pc = "done" /\ x.todo = run[r].todo /\ x.at = run[r].at /\ x.began = run[r].began
      /\ x.audit = run[r].audit
  BY <1>1 DEF RunStates
<1> HIDE DEF x
<1> QED BY <1>1, <1>2, <1>3, EndStep

------------------------------------------------------------------------------
(* The replacing transaction.                                              *)

(* A label that moves forward leaves every page a run has indexed indexed. *)
LEMMA RunOKForward ==
  ASSUME NEW x \in RunStates, NEW edits,
         NEW indexed \in [Pages -> Snapshots \cup {None}],
         NEW newer \in [Pages -> Snapshots \cup {None}],
         \A p \in Pages : indexed[p] # None =>
           newer[p] # None /\ indexed[p].edited <= newer[p].edited,
         RunOK(x, edits, indexed)
  PROVE  RunOK(x, edits, newer)
<1>1. ASSUME NEW i \in 1..Len(x.todo), i < x.at
      PROVE  Indexed(x, i, newer)
  <2>1. PICK p \in Pages : p = x.todo[i]
    BY DEF RunStates
  <2>2. indexed[p] # None /\ x.began[p] <= indexed[p].edited
    BY <1>1, <2>1 DEF RunOK, Indexed
  <2>3. newer[p] # None /\ indexed[p].edited <= newer[p].edited
    BY <2>2
  <2>4. indexed[p].edited \in Nat /\ newer[p].edited \in Nat /\ x.began[p] \in Nat
    BY <2>2, <2>3 DEF Snapshots, RunStates
  <2> QED BY <2>1, <2>2, <2>3, <2>4 DEF Indexed
<1> QED BY <1>1 DEF RunOK

(* Rows and chunks of p are replaced, chunks first found through the rows. *)
LEMMA Replaced ==
  ASSUME NEW indexed, NEW blockRows, NEW stock,
         blockRows \subseteq [block : Blocks, page : Pages],
         stock \subseteq [block : Blocks, page : Pages, version : Nat],
         Whole(indexed, blockRows, stock),
         NEW p \in Pages, NEW new, NEW version \in Nat,
         \A row \in blockRows : row.page # p => row.block \notin new,
         NEW later,
         \A q \in Pages : q # p => later[q] = indexed[q],
         Stored(later[p]) = new, later[p].version = version,
         NEW newRows, NEW newStock,
         newRows = {row \in blockRows : row.page # p} \cup {[block |-> b, page |-> p] : b \in new},
         newStock = {c \in stock : \A row \in blockRows : row.page = p => c.block # row.block}
                      \cup {[block |-> b, page |-> p, version |-> version] : b \in new}
  PROVE  Whole(later, newRows, newStock)
<1>1. ASSUME NEW q \in Pages
      PROVE  /\ {row \in newRows : row.page = q}
                  = {[block |-> b, page |-> q] : b \in Stored(later[q])}
             /\ {c \in newStock : c.page = q}
                  = {[block |-> b, page |-> q, version |-> later[q].version] :
                       b \in Stored(later[q])}
  <2>1. CASE q = p
    <3>1. {row \in newRows : row.page = p} = {[block |-> b, page |-> p] : b \in new}
      OBVIOUS
    <3>2. ASSUME NEW c \in stock, c.page = p
          PROVE  \E row \in blockRows : row.page = p /\ c.block = row.block
      <4>1. c \in {d \in stock : d.page = p}
        BY <3>2
      <4>2. PICK b \in Stored(indexed[p]) :
              c = [block |-> b, page |-> p, version |-> indexed[p].version]
        BY <4>1 DEF Whole
      <4>3. [block |-> b, page |-> p] \in {row \in blockRows : row.page = p}
        BY <4>2 DEF Whole
      <4> QED BY <4>2, <4>3
    <3>3. {c \in newStock : c.page = p}
            = {[block |-> b, page |-> p, version |-> version] : b \in new}
      BY <3>2
    <3> QED BY <2>1, <3>1, <3>3
  <2>2. CASE q # p
    <3>1. {row \in newRows : row.page = q} = {row \in blockRows : row.page = q}
      BY <2>2
    <3>2. ASSUME NEW c \in stock, c.page = q, NEW row \in blockRows, row.page = p
          PROVE  c.block # row.block
      <4>1. c \in {d \in stock : d.page = q}
        BY <3>2
      <4>2. PICK b \in Stored(indexed[q]) :
              c = [block |-> b, page |-> q, version |-> indexed[q].version]
        BY <4>1 DEF Whole
      <4>3. [block |-> b, page |-> q] \in {d \in blockRows : d.page = q}
        BY <4>2 DEF Whole
      <4> QED BY <2>2, <3>2, <4>2, <4>3 DEF Whole
    <3>3. {c \in newStock : c.page = q} = {c \in stock : c.page = q}
      BY <2>2, <3>2
    <3> QED BY <2>2, <3>1, <3>3 DEF Whole
  <2> QED BY <2>1, <2>2
<1>2. ASSUME NEW x \in newRows, NEW y \in newRows, x.block = y.block
      PROVE  x = y
  <2>1. CASE x.page = p /\ y.page = p
    <3>1. x \in {row \in newRows : row.page = p} /\ y \in {row \in newRows : row.page = p}
      BY <2>1
    <3>2. {row \in newRows : row.page = p} = {[block |-> b, page |-> p] : b \in new}
      OBVIOUS
    <3> QED BY <1>2, <3>1, <3>2
  <2>2. CASE x.page # p /\ y.page # p
    BY <1>2, <2>2 DEF Whole
  <2>3. CASE x.page # p /\ y.page = p
    BY <1>2, <2>3
  <2>4. CASE x.page = p /\ y.page # p
    BY <1>2, <2>4
  <2> QED BY <2>1, <2>2, <2>3, <2>4
<1> QED BY <1>1, <1>2 DEF Whole

LEMMA PersistStep ==
  ASSUME IInv, NEW r \in Runs, Persist(r)
  PROVE  IInv' /\ Forward
<1>0. run[r].pc = "persist" /\ run[r].pc \in AtPage
  BY DEF Persist, AtPage
<1>1. PICK p \in Pages : p = Page(r)
  BY <1>0, PageOf
<1>2. /\ run[r] \in RunStates
      /\ run[r].began[p] \in Nat
      /\ Reading(run[r], notion[p], run[r].began[p])
  BY <1>0, <1>1, PageOf
<1>3. PICK s \in Snapshots : s = run[r].snapshot
  BY <1>2 DEF RunStates
<1>4. /\ s.edited \in Nat /\ s.version \in Nat /\ s # None
      /\ ReadFrom(s, notion[p])
      /\ run[r].began[p] <= s.edited
  BY <1>0, <1>2, <1>3, NotionIndexAssumption DEF Snapshots, Reading
<1>5. /\ pageRow \in [Pages -> Snapshots \cup {None}]
      /\ pageRow' = [pageRow EXCEPT ![p] = s]
      /\ notion' = notion /\ clock' = clock
  BY <1>1, <1>3 DEF Persist, IInv, TypeOK
<1>6. pageRow' \in [Pages -> Snapshots \cup {None}] /\ pageRow'[p] = s
      /\ \A q \in Pages : q # p => pageRow'[q] = pageRow[q]
  BY <1>5
<1>7. Forward
  <2>1. ASSUME NEW q \in Pages, pageRow[q] # None
        PROVE  pageRow'[q] # None /\ pageRow[q].edited <= pageRow'[q].edited
    <3>1. pageRow[q].edited \in Nat
      BY <1>5, <2>1 DEF Snapshots
    <3>2. CASE q = p
      BY <1>1, <1>3, <1>4, <1>6, <2>1, <3>1, <3>2 DEF Persist, Stale
    <3>3. CASE q # p
      BY <1>6, <2>1, <3>1, <3>3
    <3> QED BY <3>2, <3>3
  <2> QED BY <2>1 DEF Forward
<1>8. \A q \in Pages : Labelled(notion[q], pageRow'[q])
  BY <1>4, <1>6 DEF Labelled, IInv
<1>9. PICK new \in SUBSET Blocks : new = SnapshotBlocks(r) /\ new = s.blocks
  BY <1>3 DEF SnapshotBlocks, Snapshots
<1>10. /\ rows' = {row \in rows : row.page # p} \cup {[block |-> b, page |-> p] : b \in new}
       /\ chunks' = {c \in chunks : \A row \in rows : row.page = p => c.block # row.block}
                      \cup {[block |-> b, page |-> p, version |-> s.version] : b \in new}
       /\ \A row \in rows : row.page # p => row.block \notin new
  BY <1>1, <1>3, <1>9 DEF Persist, KeptChunks, BlockTaken
<1>11. Whole(pageRow', rows', chunks')
  <2>1. PICK indexed, later : indexed = pageRow /\ later = pageRow'
    OBVIOUS
  <2>2. PICK old, stock, newRows, newStock :
          old = rows /\ stock = chunks /\ newRows = rows' /\ newStock = chunks'
    OBVIOUS
  <2>3. /\ old \subseteq [block : Blocks, page : Pages]
        /\ stock \subseteq [block : Blocks, page : Pages, version : Nat]
        /\ Whole(indexed, old, stock)
    BY <2>1, <2>2 DEF IInv, TypeOK
  <2>4. /\ \A row \in old : row.page # p => row.block \notin new
        /\ newRows = {row \in old : row.page # p} \cup {[block |-> b, page |-> p] : b \in new}
        /\ newStock = {c \in stock : \A row \in old : row.page = p => c.block # row.block}
                        \cup {[block |-> b, page |-> p, version |-> s.version] : b \in new}
    BY <1>10, <2>2
  <2>5. /\ Stored(later[p]) = new /\ later[p].version = s.version
        /\ \A q \in Pages : q # p => later[q] = indexed[q]
    BY <1>4, <1>6, <1>9, <2>1 DEF Stored
  <2>6. s.version \in Nat
    BY <1>4
  <2>7. Whole(later, newRows, newStock)
    BY <2>3, <2>4, <2>5, <2>6, Replaced
  <2> QED BY <2>1, <2>2, <2>7
<1> DEFINE next == IF run[r].at = Len(run[r].todo) THEN "close" ELSE "page"
           x == [run[r] EXCEPT !.at = @ + 1, !.snapshot = NoSnapshot, !.pc = next]
<1>12. run' = [run EXCEPT ![r] = x]
  BY DEF Persist, Advance, IInv, TypeOK
<1>13. x \in RunStates
  <2>1. PICK label \in {"close", "page"}, at \in Nat : label = next /\ at = run[r].at + 1
    BY <1>2 DEF RunStates
  <2>2. [run[r] EXCEPT !.at = at, !.snapshot = NoSnapshot, !.pc = label] \in RunStates
    BY <1>2 DEF RunStates, NoSnapshot, Snapshots
  <2> QED BY <2>1, <2>2
<1>14. /\ x.pc = next /\ x.at = run[r].at + 1 /\ x.todo = run[r].todo
       /\ x.began = run[r].began /\ x.audit = run[r].audit
  BY <1>2 DEF RunStates
<1>15. ASSUME NEW t \in Runs PROVE RunOK(run[t], notion, pageRow')
  <2>1. run[t] \in RunStates /\ RunOK(run[t], notion, pageRow)
    BY DEF IInv, TypeOK
  <2>2. PICK newer : newer = pageRow'
    OBVIOUS
  <2>3. RunOK(run[t], notion, newer)
    BY <1>5, <1>6, <1>7, <2>1, <2>2, RunOKForward DEF Forward
  <2> QED BY <2>2, <2>3
<1>16. RunOK(x, notion, pageRow')
  <2>1. RunOK(run[r], notion, pageRow')
    BY <1>15
  <2>2. run[r].at \in 1..Len(run[r].todo) /\ Len(run[r].todo) \in Nat
    BY <1>0, <1>2, <2>1 DEF RunOK, RunStates
  <2>3. Indexed(x, run[r].at, pageRow')
    BY <1>1, <1>4, <1>6, <1>14 DEF Indexed, Page
  <2>4. ASSUME NEW i \in 1..Len(x.todo), i < x.at
        PROVE  Indexed(x, i, pageRow')
    <3>1. CASE i = run[r].at
      BY <2>3, <3>1
    <3>2. CASE i # run[r].at
      <4>1. i \in 1..Len(run[r].todo) /\ i < run[r].at
        BY <1>14, <2>2, <2>4, <3>2
      <4> QED BY <1>14, <2>1, <4>1 DEF RunOK, Indexed
    <3> QED BY <3>1, <3>2
  <2>5. x.audit # "succeeded"
    BY <1>0, <1>14, <2>1 DEF RunOK
  <2>6. \A q \in Pages : x.began[q] <= Latest(notion[q])
    BY <1>14, <2>1 DEF RunOK
  <2>7. CASE run[r].at = Len(run[r].todo)
    <3>1. x.pc = "close" /\ x.at > Len(x.todo)
      BY <1>14, <2>2, <2>7
    <3> HIDE DEF x, next
    <3> QED BY <2>4, <2>5, <2>6, <3>1 DEF RunOK, AtPage
  <2>8. CASE run[r].at # Len(run[r].todo)
    <3>1. x.pc = "page" /\ x.at \in 1..Len(x.todo)
      BY <1>14, <2>2, <2>8
    <3> HIDE DEF x, next
    <3> QED BY <2>4, <2>5, <2>6, <3>1 DEF RunOK, Reading
  <2> QED BY <2>7, <2>8
<1> HIDE DEF x, next
<1>17. \A t \in Runs : run'[t] \in RunStates /\ RunOK(run'[t], notion, pageRow')
  BY <1>12, <1>13, <1>15, <1>16 DEF IInv, TypeOK
<1>18. TypeOK'
  <2>1. run' \in [Runs -> RunStates]
    BY <1>12, <1>13 DEF IInv, TypeOK
  <2>2. rows' \subseteq [block : Blocks, page : Pages]
    BY <1>10 DEF IInv, TypeOK
  <2>3. chunks' \subseteq [block : Blocks, page : Pages, version : Nat]
    BY <1>4, <1>10 DEF IInv, TypeOK
  <2> QED BY <1>5, <1>6, <1>8, <1>17, <2>1, <2>2, <2>3
          DEF IInv, TypeOK, Labelled, ReadFrom, RunOK, Version
<1> QED BY <1>5, <1>7, <1>8, <1>11, <1>17, <1>18 DEF IInv, Timed

------------------------------------------------------------------------------

LEMMA NextKeeps ==
  ASSUME IInv, [Next]_vars
  PROVE  IInv' /\ Forward
<1>1. CASE UNCHANGED vars
  <2>1. IInv'
    BY <1>1 DEF vars, stored, IInv, TypeOK, Version
  <2> QED BY <1>1, <2>1 DEF vars, stored, Forward, IInv, TypeOK, Snapshots
<1>2. ASSUME NEW p \in Pages, Edit(p) PROVE IInv' /\ Forward
  BY <1>2, EditStep
<1>3. ASSUME NEW b \in Blocks, NEW p \in Pages, NEW q \in Pages, Move(b, p, q)
      PROVE  IInv' /\ Forward
  BY <1>3, MoveStep
<1>4. ASSUME NEW r \in Runs, NEW order \in Orders, Start(r, order) PROVE IInv' /\ Forward
  BY <1>4, StartStep
<1>5. ASSUME NEW r \in Runs,
             \/ StartFull(r) \/ Discover(r) \/ ReadPage(r)
             \/ ListBlocks(r) \/ ReadBlocks(r) \/ Embed(r)
      PROVE  IInv' /\ Forward
  BY <1>5, StartFullStep, DiscoverStep, ReadPageStep, ListBlocksStep, ReadBlocksStep,
     EmbedStep
<1>6. ASSUME NEW r \in Runs, Persist(r) PROVE IInv' /\ Forward
  BY <1>6, PersistStep
<1>7. ASSUME NEW r \in Runs, StepFails(r) \/ RefuseStale(r) \/ RefuseTaken(r)
      PROVE  IInv' /\ Forward
  BY <1>7, FailStep DEF StepFails, RefuseStale, RefuseTaken
<1>8. ASSUME NEW r \in Runs, Close(r) \/ Crash(r) PROVE IInv' /\ Forward
  BY <1>8, CloseStep, CrashStep
<1> QED BY <1>1, <1>2, <1>3, <1>4, <1>5, <1>6, <1>7, <1>8 DEF Next

LEMMA Invariance == Spec => []IInv
<1>1. IInv /\ [Next]_vars => IInv'
  BY NextKeeps
<1> QED BY <1>1, InitInvariant, PTL DEF Spec

(* Every variable keeps its shape, and a run at work is at one of its      *)
(* pages: the loop over the pages of a request never runs past the last.   *)
THEOREM TypeCorrect == Spec => []TypeOK
  BY Invariance, PTL DEF IInv

(* The replacing transaction leaves one reading of a page, with the chunks *)
(* of exactly its blocks, whatever runs, edits and crashes happen.  That   *)
(* reading is one version of the page if nobody edited the page while it   *)
(* was read; edits in the midst of it may leave parts of several versions. *)
THEOREM OneReadingStored == Spec => []WholeSnapshots
<1>1. IInv => WholeSnapshots
  <2> SUFFICES ASSUME IInv PROVE WholeSnapshots
    OBVIOUS
  <2>1. ASSUME NEW p \in Pages, pageRow[p] # None, pageRow[p].version = pageRow[p].last
        PROVE  pageRow[p].blocks = notion[p][pageRow[p].version].blocks
    <3> DEFINE v == pageRow[p].version
    <3>1. /\ pageRow[p].blocks \in Between(notion[p], v, v) /\ v \in 1..Len(notion[p])
          /\ notion[p] \in Seq(Versions)
      BY <2>1 DEF IInv, TypeOK, Labelled, ReadFrom
    <3>2. v \in Nat /\ v..v = {v}
      BY <3>1
    <3> HIDE DEF v
    <3>3. notion[p][v].blocks \subseteq Blocks
      <4>1. notion[p][v] \in Versions
        BY <3>1
      <4> QED BY <4>1 DEF Versions
    <3>4. /\ pageRow[p].blocks \subseteq Blocks
          /\ \A b \in pageRow[p].blocks : b \in notion[p][v].blocks
          /\ \A b \in Blocks : b \in notion[p][v].blocks => b \in pageRow[p].blocks
      BY <3>1, <3>2 DEF Between
    <3>5. pageRow[p].blocks = notion[p][v].blocks
      BY <3>3, <3>4
    <3> QED BY <3>5 DEF v
  <2> QED BY <2>1 DEF IInv, Whole, Stored, Labelled, ReadFrom, WholeSnapshots
<1> QED BY <1>1, Invariance, PTL

(* A page that a run counts as indexed stays stored with content no older  *)
(* than the beginning of the run, through every later write of others.     *)
THEOREM ReportsAreTrue == Spec => []ReportsHold
<1>1. ASSUME IInv PROVE ReportsHold
  <2>1. ASSUME NEW r \in Runs, NEW i \in 1..Len(run[r].todo), i < run[r].at
        PROVE  /\ pageRow[run[r].todo[i]] # None
               /\ ContentTime(run[r].todo[i]) >= run[r].began[run[r].todo[i]]
    <3>1. run[r] \in RunStates /\ RunOK(run[r], notion, pageRow)
      BY <1>1 DEF IInv, TypeOK
    <3>2. PICK p \in Pages : p = run[r].todo[i]
      BY <3>1 DEF RunStates
    <3>3. pageRow[p] # None /\ run[r].began[p] <= pageRow[p].edited
      BY <2>1, <3>1, <3>2 DEF RunOK, Indexed
    <3>4. /\ pageRow[p].version \in 1..Len(notion[p])
          /\ pageRow[p].edited <= notion[p][pageRow[p].version].edited
      BY <1>1, <3>3 DEF IInv, Labelled, ReadFrom
    <3>5. notion[p] \in Seq(Versions) /\ pageRow[p] \in Snapshots
      BY <1>1, <3>3 DEF IInv, TypeOK
    <3>6. notion[p][pageRow[p].version] \in Versions
      BY <3>4, <3>5
    <3>7. /\ notion[p][pageRow[p].version].edited \in Nat
          /\ pageRow[p].edited \in Nat /\ run[r].began[p] \in Nat
      BY <3>1, <3>5, <3>6 DEF Versions, Snapshots, RunStates
    <3> QED BY SMTT(30), <3>2, <3>3, <3>4, <3>7 DEF ContentTime
  <2>2. \A r \in Runs : run[r].audit = "succeeded" => run[r].at > Len(run[r].todo)
    BY <1>1 DEF IInv, RunOK
  <2> QED BY <2>1, <2>2 DEF ReportsHold
<1> QED BY <1>1, Invariance, PTL

(* Retrieval sees whole readings, and those the runs have reported.        *)
THEOREM PagesAreHonest == Spec => []PagesHonest
  BY OneReadingStored, ReportsAreTrue, PTL DEF PagesHonest

(* However late a run writes what it read before, and whichever runs       *)
(* overlap, the stale check keeps a page from going back to content older  *)
(* than the time already stored for it.                                    *)
THEOREM NeverBehind == Spec => NeverFallsBehind
<1>1. ASSUME IInv, [Next]_vars
      PROVE  \A p \in Pages : pageRow[p] # None =>
               pageRow'[p] # None /\ ContentTime(p)' >= pageRow[p].edited
  <2>1. IInv' /\ Forward
    BY <1>1, NextKeeps
  <2>2. ASSUME NEW p \in Pages, pageRow[p] # None
        PROVE  pageRow'[p] # None /\ ContentTime(p)' >= pageRow[p].edited
    <3>1. pageRow'[p] # None /\ pageRow[p].edited <= pageRow'[p].edited
      BY <2>1, <2>2 DEF Forward
    <3>2. /\ pageRow'[p].version \in 1..Len(notion'[p])
          /\ pageRow'[p].edited <= notion'[p][pageRow'[p].version].edited
      BY <2>1, <3>1 DEF IInv, Labelled, ReadFrom
    <3>3. /\ notion'[p] \in Seq(Versions) /\ pageRow'[p] \in Snapshots
          /\ pageRow[p] \in Snapshots
      BY <1>1, <2>1, <2>2, <3>1 DEF IInv, TypeOK
    <3>4. notion'[p][pageRow'[p].version] \in Versions
      BY <3>2, <3>3
    <3>5. /\ notion'[p][pageRow'[p].version].edited \in Nat
          /\ pageRow[p].edited \in Nat /\ pageRow'[p].edited \in Nat
      BY <3>3, <3>4 DEF Versions, Snapshots
    <3> QED BY <3>1, <3>2, <3>5 DEF ContentTime
  <2> QED BY <2>2
<1> QED BY <1>1, Invariance, PTL DEF NeverFallsBehind, Spec

------------------------------------------------------------------------------
(***************************************************************************)
(* NotionReader, with its listings, attempts and stored order, implements  *)
(* NotionIndex: every step of it is a step of NotionIndex or leaves its    *)
(* variables alone.  What is proved of the one therefore holds of the      *)
(* other.                                                                  *)
(***************************************************************************)

LEMMA ElsewhereStep ==
  ASSUME Elsewhere
  PROVE  Next
<1>1. CASE \E p \in Pages : Edit(p)
  BY <1>1 DEF Next
<1>2. CASE \E b \in Blocks, p, q \in Pages : Move(b, p, q)
  BY <1>2 DEF Next
<1>3. CASE \E r \in Runs :
             (\E order \in Orders : Start(r, order)) \/ StartFull(r) \/ Embed(r) \/ Close(r)
  BY <1>3 DEF Next
<1>4. QED
  BY <1>1, <1>2, <1>3 DEF Elsewhere

(* A request that is given up fails the run.                               *)
LEMMA GiveUpStep ==
  ASSUME NEW r \in Runs, GiveUp(r)
  PROVE  Next
BY DEF GiveUp, Next

(* The first page of a listing is where NotionIndex lists the blocks; the  *)
(* pages after it are no step of its own.                                  *)
LEMMA FetchListStep ==
  ASSUME NEW r \in Runs, FetchList(r)
  PROVE  [Next]_vars
<1>1. GiveUp(r) \/ ListBlocks(r) \/ UNCHANGED vars
  BY DEF FetchList
<1>2. QED
  BY <1>1, GiveUpStep DEF Next

(* What is left of the reader's steps.                                     *)
LEMMA ReaderStep ==
  ASSUME NEW r \in Runs,
         \/ DiscoverPages(r) \/ FetchPage(r) \/ FetchChildren(r)
         \/ PersistTree(r) \/ Ends(r)
  PROVE  Next
<1>1. CASE DiscoverPages(r)
  BY <1>1 DEF DiscoverPages, Next
<1>2. CASE FetchPage(r)
  <2>1. GiveUp(r) \/ ReadPage(r)
    BY <1>2 DEF FetchPage
  <2>2. QED
    BY <2>1, GiveUpStep DEF Next
<1>3. CASE FetchChildren(r)
  <2>1. GiveUp(r) \/ ReadBlocks(r)
    BY <1>3 DEF FetchChildren
  <2>2. QED
    BY <2>1, GiveUpStep DEF Next
<1>4. CASE PersistTree(r)
  BY <1>4 DEF PersistTree, Next
<1>5. CASE Ends(r)
  BY <1>5 DEF Ends, Next
<1>6. QED
  BY <1>1, <1>2, <1>3, <1>4, <1>5

(* Reading a page request by request, with attempts and cursors, is what   *)
(* NotionIndex calls reading it.                                           *)
THEOREM ImplementsNotionIndex == ReaderSpec => Spec
<1>1. ReaderInit => Init
  BY DEF ReaderInit
<1>2. [ReaderNext]_readerVars => [Next]_vars
  <2>1. CASE ReaderNext
    <3>1. CASE Elsewhere
      BY <3>1, ElsewhereStep
    <3>2. CASE ~Elsewhere
      <4>1. PICK r \in Runs :
              \/ DiscoverPages(r) \/ FetchPage(r) \/ FetchList(r) \/ FetchChildren(r)
              \/ PersistTree(r) \/ Ends(r)
        BY <2>1, <3>2 DEF ReaderNext
      <4>2. CASE FetchList(r)
        BY <4>2, FetchListStep
      <4>3. CASE ~FetchList(r)
        BY <4>1, <4>3, ReaderStep
      <4>4. QED
        BY <4>2, <4>3
    <3>3. QED
      BY <3>1, <3>2
  <2>2. CASE UNCHANGED readerVars
    BY <2>2 DEF readerVars
  <2>3. QED
    BY <2>1, <2>2
<1>3. QED
  BY <1>1, <1>2, PTL DEF ReaderSpec, Spec

(* Whatever the requests of a reading come to, retrieval sees whole pages, *)
(* and those the runs have reported.                                       *)
THEOREM ReadPagesAreHonest == ReaderSpec => []PagesHonest
BY ImplementsNotionIndex, PagesAreHonest, PTL

(* However long a reading takes and however many requests it needs, it     *)
(* takes no page back behind a stored time.                                *)
THEOREM ReadNeverBehind == ReaderSpec => NeverFallsBehind
BY ImplementsNotionIndex, NeverBehind, PTL

------------------------------------------------------------------------------
(***************************************************************************)
(* What a reading finds, request by request: the blocks of the places      *)
(* before the cursor.                                                      *)
(***************************************************************************)

LEMMA LayoutIs ==
  ASSUME NEW p \in Pages
  PROVE  /\ Layout[p] \in Seq(DOMAIN Lines) /\ Len(Layout[p]) \in Nat
         /\ DOMAIN Layout[p] = 1..Len(Layout[p])
         /\ \A i \in 1..Len(Layout[p]) : Layout[p][i] \in DOMAIN Lines
         /\ \A i, j \in 1..Len(Layout[p]) : Layout[p][i] = Layout[p][j] => i = j
         /\ \A b \in Blocks : \E i \in 1..Len(Layout[p]) : Layout[p][i] = b
<1>1. Layout[p] \in Seq(DOMAIN Lines)
  BY ReaderAssumption DEF ReaderAssumption
<1>2. Len(Layout[p]) \in Nat /\ DOMAIN Layout[p] = 1..Len(Layout[p])
  BY <1>1
<1>3. \A i \in 1..Len(Layout[p]) : Layout[p][i] \in DOMAIN Lines
  BY <1>1
<1>4. \A i, j \in DOMAIN Layout[p] : Layout[p][i] = Layout[p][j] => i = j
  BY ReaderAssumption DEF ReaderAssumption
<1>5. \A b \in Blocks : \E i \in DOMAIN Layout[p] : Layout[p][i] = b
  BY ReaderAssumption DEF ReaderAssumption
<1> QED BY <1>1, <1>2, <1>3, <1>4, <1>5

(* The cursor stands after the last place a request has answered.          *)
LEMMA CursorIs ==
  ASSUME NEW p \in Pages, NEW i \in Nat
  PROVE  /\ CursorAfter(p, i) \in Nat
         /\ CursorAfter(p, i) # 0 => CursorAfter(p, i) >= i
         /\ \A k \in ShownFrom(p, i) :
              k \in PageFrom(p, i) <=> CursorAfter(p, i) = 0 \/ k < CursorAfter(p, i)
<1>1. PICK N \in Nat : N = Len(Layout[p])
  BY LayoutIs
<1>2. PICK A : A = ShownFrom(p, i) /\ A \subseteq i..N
  BY <1>1 DEF ShownFrom
<1>3. PICK Q : Q = PageFrom(p, i) /\ Q = {k \in A : Cardinality({j \in A : j < k}) < PageSize}
  BY <1>2 DEF PageFrom
<1>4. A \subseteq Nat /\ IsFiniteSet(A)
  <2>1. IsFiniteSet(i..N)
    BY FS_Interval
  <2> QED BY <1>2, <2>1, FS_Subset
<1>5. PageSize \in Nat
  BY ReaderAssumption DEF ReaderAssumption
<1>6. ASSUME NEW k \in Q, NEW j \in A, j < k PROVE j \in Q
  <2>1. k \in A /\ j \in Nat /\ k \in Nat
    BY <1>3, <1>4
  <2>2. PICK F, G : F = {m \in A : m < j} /\ G = {m \in A : m < k}
    OBVIOUS
  <2>3. F \subseteq G
    <3>1. ASSUME NEW m \in A, m < j PROVE m < k
      <4>1. m \in Nat
        BY <1>4
      <4> QED BY <1>6, <2>1, <3>1, <4>1
    <3> QED BY <2>2, <3>1
  <2>4. IsFiniteSet(G)
    BY <1>4, <2>2, FS_Subset
  <2>5. /\ Cardinality(F) \in Nat /\ Cardinality(G) \in Nat
        /\ Cardinality(F) <= Cardinality(G)
    BY <2>3, <2>4, FS_Subset, FS_CardinalityType
  <2>6. Cardinality(G) < PageSize
    BY <1>3, <2>2
  <2>7. Cardinality(F) < PageSize
    BY <1>5, <2>5, <2>6
  <2> QED BY <1>3, <2>2, <2>7
<1>7. PICK rest : rest = A \ Q
  OBVIOUS
<1>8. CursorAfter(p, i) = IF rest = {} THEN 0 ELSE Min(rest)
  BY <1>2, <1>3, <1>7 DEF CursorAfter
<1>9. CASE rest = {}
  <2>1. CursorAfter(p, i) = 0
    BY <1>8, <1>9
  <2> QED BY <1>2, <1>3, <1>7, <1>9, <2>1
<1>10. CASE rest # {}
  <2>1. \E m \in rest : \A y \in rest : m <= y
    BY <1>4, <1>7, <1>10, Least
  <2>2. Min(rest) \in rest /\ \A y \in rest : Min(rest) <= y
    BY <2>1 DEF Min
  <2>3. PICK c \in rest : c = CursorAfter(p, i) /\ \A y \in rest : c <= y
    BY <1>8, <1>10, <2>2
  <2>4. c \in Nat /\ c \in A /\ c \notin Q /\ c >= i
    BY <1>2, <1>4, <1>7
  <2>5. ASSUME NEW k \in A PROVE k \in Q <=> k < c
    <3>1. k \in Nat
      BY <1>4
    <3>2. CASE k \in Q
      <4>1. ~(c < k) /\ c # k
        BY <1>6, <2>4, <3>2
      <4> QED BY <2>4, <3>1, <3>2, <4>1
    <3>3. CASE k \notin Q
      <4>1. c <= k
        BY <1>7, <2>3, <3>3
      <4> QED BY <2>4, <3>1, <3>3, <4>1
    <3> QED BY <3>2, <3>3
  <2>6. CASE c = 0
    <3>1. \A k \in A : k \notin Q
      BY <1>4, <2>5, <2>6
    <3>2. {m \in A : m < 0} = {}
      <4>1. ASSUME NEW m \in A PROVE ~(m < 0)
        <5>1. m \in Nat
          BY <1>4
        <5> QED BY <5>1
      <4> QED BY <4>1
    <3>3. Cardinality({}) = 0
      BY FS_EmptySet
    <3>4. 0 \in Q
      BY <1>3, <2>4, <2>6, <3>2, <3>3, ReaderAssumption DEF ReaderAssumption
    <3> QED BY <2>4, <2>6, <3>4
  <2> QED BY <1>2, <1>3, <2>3, <2>4, <2>5, <2>6
<1> QED BY <1>9, <1>10

(* The places of p before the cursor; all of them once there is none.      *)
Before(next, k) == next = 0 \/ k < next

(* What a listing of p whose blocks were first asked for at this version   *)
(* has gathered, as places: no block of another page, none that was there  *)
(* all the time is missed, and whatever never moves is there.              *)
Gathered(places, p, h, version, next) ==
  \A k \in 1..Len(Layout[p]) :
    IF ~Before(next, k) THEN k \notin places
    ELSE IF Layout[p][k] \notin Blocks THEN k \in places
    ELSE /\ k \in places => \E v \in version..Len(h) : Layout[p][k] \in h[v].blocks
         /\ (\A v \in version..Len(h) : Layout[p][k] \in h[v].blocks) => k \in places

Readers == [next : Nat, cursors : SUBSET Nat, found : Seq(DOMAIN Lines)]

Listed(read, p, h, version) ==
  \E places \in SUBSET (1..Len(Layout[p])) :
    Gathered(places, p, h, version, read.next) /\ read.found = Kept(Layout[p], places)

(* What the request of run state x, which is at page p, has found.         *)
Finding(x, p, read, h) ==
  /\ x.pc = "blocks" => read.next = 1 /\ read.found = <<>>
  /\ x.pc = "children" => Listed(read, p, h, x.snapshot.version)
  /\ x.pc \in {"embedding", "persist"} => read.found = Listing(p, x.snapshot.blocks)

ReaderInv ==
  /\ IInv
  /\ reader \in [Runs -> Readers]
  /\ listed \in [Pages -> Seq(DOMAIN Lines)]
  /\ \A r \in Runs : run[r].pc \in AtPage => Finding(run[r], Page(r), reader[r], notion[Page(r)])
  /\ \A p \in Pages : pageRow[p] # None => listed[p] = Listing(p, pageRow[p].blocks)

LEMMA GatheredExtends ==
  ASSUME NEW places, NEW p, NEW h \in Seq(Versions), NEW g \in Seq(Versions), Extends(h, g),
         NEW version \in 1..Len(h), NEW next, Gathered(places, p, h, version, next)
  PROVE  Gathered(places, p, g, version, next)
<1>1. Len(h) \in Nat /\ Len(g) \in Nat /\ Len(h) <= Len(g)
  BY DEF Extends
<1>2. \A v \in version..Len(h) : v \in version..Len(g) /\ g[v] = h[v]
  BY <1>1 DEF Extends
<1> QED BY <1>2 DEF Gathered

LEMMA GatheredMore ==
  ASSUME IInv, NEW p \in Pages, NEW version \in 1..Len(notion[p]),
         NEW from \in Nat \ {0}, NEW places \in SUBSET (1..Len(Layout[p])),
         Gathered(places, p, notion[p], version, from)
  PROVE  /\ PageFrom(p, from) \subseteq 1..Len(Layout[p])
         /\ Gathered(places \cup PageFrom(p, from), p, notion[p], version, CursorAfter(p, from))
         /\ Kept(Layout[p], places) \o Kept(Layout[p], PageFrom(p, from))
              = Kept(Layout[p], places \cup PageFrom(p, from))
<1>1. PICK N \in Nat : N = Len(Layout[p]) /\ Layout[p] \in Seq(DOMAIN Lines)
  BY LayoutIs
<1>2. PICK c \in Nat : c = CursorAfter(p, from)
  BY CursorIs
<1>3. PICK h : h = notion[p] /\ Len(h) \in Nat
  BY DEF IInv, TypeOK
<1>4. PICK Q : Q = PageFrom(p, from)
  OBVIOUS
<1>5. ASSUME NEW k \in 1..N
      PROVE  k \in Q <=> /\ k >= from /\ Before(c, k)
                         /\ Layout[p][k] \in Blocks => Layout[p][k] \in h[Len(h)].blocks
  <2>1. k \in ShownFrom(p, from) <=>
          k >= from /\ (Layout[p][k] \in Blocks => Layout[p][k] \in h[Len(h)].blocks)
    BY <1>1, <1>3 DEF ShownFrom, Shown, Current, Version
  <2>2. k \in Q => k \in ShownFrom(p, from)
    BY <1>4 DEF PageFrom
  <2>3. k \in ShownFrom(p, from) => (k \in Q <=> c = 0 \/ k < c)
    BY <1>2, <1>4, CursorIs
  <2> QED BY <2>1, <2>2, <2>3 DEF Before
<1>6. Q \subseteq 1..N /\ \A k \in Q : k >= from
  <2>1. Q \subseteq from..N
    BY <1>1, <1>4 DEF PageFrom, ShownFrom
  <2> QED BY <2>1
<1>7. c # 0 => c >= from
  BY <1>2, CursorIs
<1>8. Len(h) \in version..Len(h)
  BY <1>3
<1>9. ASSUME NEW k \in 1..N
      PROVE  IF ~Before(c, k) THEN k \notin places \cup Q
             ELSE IF Layout[p][k] \notin Blocks THEN k \in places \cup Q
             ELSE /\ k \in places \cup Q =>
                       \E v \in version..Len(h) : Layout[p][k] \in h[v].blocks
                  /\ (\A v \in version..Len(h) : Layout[p][k] \in h[v].blocks) =>
                       k \in places \cup Q
  <2>1. IF ~Before(from, k) THEN k \notin places
        ELSE IF Layout[p][k] \notin Blocks THEN k \in places
        ELSE /\ k \in places => \E v \in version..Len(h) : Layout[p][k] \in h[v].blocks
             /\ (\A v \in version..Len(h) : Layout[p][k] \in h[v].blocks) => k \in places
    BY <1>1, <1>3 DEF Gathered
  <2>2. CASE k < from
    <3>1. Before(from, k) /\ Before(c, k) /\ k \notin Q
      BY <1>6, <1>7, <2>2 DEF Before
    <3> QED BY <2>1, <3>1
  <2>3. CASE ~(k < from)
    <3>1. ~Before(from, k) /\ k >= from
      BY <2>3 DEF Before
    <3>2. k \notin places
      BY <2>1, <3>1
    <3> QED BY <1>5, <1>8, <3>1, <3>2
  <2> QED BY <2>2, <2>3
<1>10. Gathered(places \cup Q, p, h, version, c)
  BY <1>1, <1>9 DEF Gathered
<1>11. \A i \in places : i < from
  BY <1>1 DEF Gathered, Before
<1>12. \A i \in places \cap (1..Len(Layout[p])) : \A j \in Q \cap (1..Len(Layout[p])) : i < j
  <2>1. ASSUME NEW i \in places, NEW j \in Q PROVE i < j
    <3>1. i \in 1..N /\ j \in 1..N
      BY <1>1, <1>6
    <3>2. i < from /\ j >= from
      BY <1>6, <1>11
    <3> QED BY <3>1, <3>2
  <2> QED BY <2>1
<1>13. Kept(Layout[p], places) \o Kept(Layout[p], Q) = Kept(Layout[p], places \cup Q)
  BY <1>1, <1>12, KeptJoin
<1> QED BY <1>1, <1>2, <1>3, <1>4, <1>6, <1>10, <1>13

LEMMA ListingEnds ==
  ASSUME NEW p \in Pages, NEW h, NEW version, NEW places \in SUBSET (1..Len(Layout[p])),
         NEW found, found = Kept(Layout[p], places), Gathered(places, p, h, version, 0)
  PROVE  /\ ToSet(found) \cap Blocks \in Between(h, version, Len(h))
         /\ found = Listing(p, ToSet(found) \cap Blocks)
<1>1. /\ Layout[p] \in Seq(DOMAIN Lines) /\ DOMAIN Layout[p] = 1..Len(Layout[p])
      /\ \A i, j \in 1..Len(Layout[p]) : Layout[p][i] = Layout[p][j] => i = j
      /\ \A b \in Blocks : \E i \in 1..Len(Layout[p]) : Layout[p][i] = b
  BY LayoutIs
<1>2. found \in Seq(DOMAIN Lines)
  BY <1>1, KeptEnum
<1>3. ToSet(found) = {found[i] : i \in 1..Len(found)}
  BY <1>2 DEF ToSet
<1>4. ToSet(found) = {Layout[p][k] : k \in places}
  <2>1. {found[i] : i \in 1..Len(found)} = {Layout[p][k] : k \in places \cap (1..Len(Layout[p]))}
    <3>1. PICK s \in Seq(DOMAIN Lines) : s = Layout[p]
      BY <1>1
    <3>2. {Kept(s, places)[i] : i \in 1..Len(Kept(s, places))}
            = {s[k] : k \in places \cap (1..Len(s))}
      BY KeptRange
    <3> QED BY ZenonT(30), <3>1, <3>2
  <2> QED BY <1>3, <2>1
<1>5. \A k \in 1..Len(Layout[p]) : Layout[p][k] \in ToSet(found) <=> k \in places
  BY <1>1, <1>4
<1>6. \A k \in 1..Len(Layout[p]) :
        IF Layout[p][k] \notin Blocks THEN k \in places
        ELSE /\ k \in places => \E v \in version..Len(h) : Layout[p][k] \in h[v].blocks
             /\ (\A v \in version..Len(h) : Layout[p][k] \in h[v].blocks) => k \in places
  BY DEF Gathered, Before
<1>7. ASSUME NEW b \in Blocks
      PROVE  /\ b \in ToSet(found) => \E v \in version..Len(h) : b \in h[v].blocks
             /\ (\A v \in version..Len(h) : b \in h[v].blocks) => b \in ToSet(found)
  <2>1. PICK k \in 1..Len(Layout[p]) : Layout[p][k] = b
    BY <1>1
  <2> QED BY <1>5, <1>6, <2>1
<1>8. ToSet(found) \cap Blocks \in Between(h, version, Len(h))
  BY <1>7 DEF Between
<1>9. places = {k \in DOMAIN Layout[p] : Shown(ToSet(found) \cap Blocks, Layout[p][k])}
  BY <1>1, <1>5, <1>6 DEF Shown
<1> QED BY <1>8, <1>9 DEF Listing

(* A step of request r, or of people, that keeps what the others found.    *)
LEMMA OneReader ==
  ASSUME ReaderInv, IInv', NEW r \in Runs, UNCHANGED <<notion, pageRow, listed>>,
         \A s \in Runs : s # r => run'[s] = run[s] /\ reader'[s] = reader[s],
         reader' \in [Runs -> Readers],
         run'[r].pc \in AtPage =>
           Finding(run'[r], run'[r].todo[run'[r].at], reader'[r],
                   notion[run'[r].todo[run'[r].at]])
  PROVE  ReaderInv'
<1>1. ASSUME NEW s \in Runs, run'[s].pc \in AtPage
      PROVE  Finding(run'[s], Page(s)', reader'[s], notion'[Page(s)'])
  <2>1. CASE s = r
    BY <1>1, <2>1 DEF Page
  <2>2. CASE s # r
    BY <1>1, <2>2 DEF Page, ReaderInv
  <2> QED BY <2>1, <2>2
<1> QED BY <1>1 DEF ReaderInv

(* A request that is between two pages, or at an end, has found nothing.   *)
LEMMA FoundNothing ==
  ASSUME NEW x, NEW p, NEW read, NEW h,
         x.pc \notin {"blocks", "children", "embedding", "persist"}
  PROVE  Finding(x, p, read, h)
BY DEF Finding

LEMMA NoReaderTyped == NoReader \in Readers
BY EmptySeq DEF NoReader, Readers

LEMMA ReaderEnds ==
  ASSUME ReaderInv, IInv', NEW r \in Runs, UNCHANGED <<stored, listed>>,
         \E reason : Fail(r, reason) \/ Crash(r),
         reader' = [reader EXCEPT ![r] = NoReader]
  PROVE  ReaderInv'
<1>1. run \in [Runs -> RunStates] /\ reader \in [Runs -> Readers]
  BY DEF ReaderInv, IInv, TypeOK
<1>2. /\ \A s \in Runs : s # r => run'[s] = run[s] /\ reader'[s] = reader[s]
      /\ reader' \in [Runs -> Readers]
  BY <1>1, NoReaderTyped DEF Fail, Crash
<1>3. run'[r].pc = "done"
  <2>1. \E x : run' = [run EXCEPT ![r] = x] /\ x.pc = "done"
    <3>1. run[r] \in RunStates
      BY <1>1
    <3>2. ASSUME NEW reason, Fail(r, reason)
          PROVE  \E x : run' = [run EXCEPT ![r] = x] /\ x.pc = "done"
      <4>1. PICK audit :
              run' = [run EXCEPT ![r] = [@ EXCEPT !.pc = "done", !.snapshot = NoSnapshot,
                                                  !.audit = audit, !.reason = reason]]
        BY <3>2 DEF Fail
      <4> DEFINE x == [run[r] EXCEPT !.pc = "done", !.snapshot = NoSnapshot,
                                     !.audit = audit, !.reason = reason]
      <4>2. run' = [run EXCEPT ![r] = x] /\ x.pc = "done"
        BY <1>1, <3>1, <4>1 DEF RunStates
      <4> HIDE DEF x
      <4> QED BY <4>2
    <3>3. ASSUME Crash(r) PROVE \E x : run' = [run EXCEPT ![r] = x] /\ x.pc = "done"
      <4> DEFINE x == [run[r] EXCEPT !.pc = "done", !.snapshot = NoSnapshot, !.reason = "failed"]
      <4>2. run' = [run EXCEPT ![r] = x] /\ x.pc = "done"
        BY <1>1, <3>1, <3>3 DEF Crash, RunStates
      <4> HIDE DEF x
      <4> QED BY <4>2
    <3> QED BY <3>2, <3>3
  <2> QED BY <1>1, <2>1
<1> QED BY <1>2, <1>3, OneReader DEF stored, AtPage

LEMMA GiveUpKeeps ==
  ASSUME ReaderInv, IInv', NEW r \in Runs, GiveUp(r)
  PROVE  ReaderInv'
BY ReaderEnds DEF GiveUp, StepFails, Fail

LEMMA EndsKeeps ==
  ASSUME ReaderInv, IInv', NEW r \in Runs, Ends(r)
  PROVE  ReaderInv'
BY ReaderEnds DEF Ends, StepFails, RefuseStale, RefuseTaken, Fail, Crash

(* Every page gets new versions or none.                                   *)
LEMMA EditsExtend ==
  ASSUME IInv, (\E p \in Pages : Edit(p)) \/ (\E b \in Blocks, p, q \in Pages : Move(b, p, q))
  PROVE  \A p \in Pages : Extends(notion[p], notion'[p])
<1>1. ASSUME NEW p \in Pages, Edit(p), NEW s \in Pages
      PROVE  Extends(notion[s], notion'[s])
  <2>1. PICK blocks \in SUBSET Blocks : blocks = Current(p).blocks
    BY CurrentBlocks
  <2>2. /\ notion' = [notion EXCEPT ![p] = Put(p, clock', blocks)]
        /\ clock' \in {clock, clock + 1}
    BY <1>1, <2>1 DEF Edit
  <2>3. notion'[p] = Put(p, clock', blocks) /\ \A q \in Pages : q # p => notion'[q] = notion[q]
    BY <2>2 DEF IInv, TypeOK
  <2>4. Extends(notion[p], Put(p, clock', blocks)) /\ Extends(notion[s], notion[s])
    BY <2>2, NewVersion, SameVersions
  <2> QED BY <2>3, <2>4
<1>2. ASSUME NEW b \in Blocks, NEW p \in Pages, NEW q \in Pages, Move(b, p, q), NEW s \in Pages
      PROVE  Extends(notion[s], notion'[s])
  <2>1. PICK rest \in SUBSET Blocks, more \in SUBSET Blocks :
          rest = Current(p).blocks \ {b} /\ more = Current(q).blocks \cup {b}
    BY CurrentBlocks
  <2>2. /\ notion' = [notion EXCEPT ![p] = Put(p, clock', rest), ![q] = Put(q, clock', more)]
        /\ clock' \in {clock, clock + 1} /\ p # q
    BY <1>2, <2>1 DEF Move
  <2>3. /\ notion'[p] = Put(p, clock', rest) /\ notion'[q] = Put(q, clock', more)
        /\ \A t \in Pages : t # p /\ t # q => notion'[t] = notion[t]
    BY <2>2 DEF IInv, TypeOK
  <2>4. /\ Extends(notion[p], Put(p, clock', rest)) /\ Extends(notion[q], Put(q, clock', more))
        /\ Extends(notion[s], notion[s])
    BY <2>2, NewVersion, SameVersions
  <2> QED BY <2>3, <2>4
<1> QED BY <1>1, <1>2

LEMMA EditsKeep ==
  ASSUME ReaderInv, IInv', UNCHANGED <<reader, listed>>,
         (\E p \in Pages : Edit(p)) \/ (\E b \in Blocks, p, q \in Pages : Move(b, p, q))
  PROVE  ReaderInv'
<1>1. UNCHANGED <<pageRow, run>>
  BY DEF Edit, Move
<1>2. \A p \in Pages : Extends(notion[p], notion'[p])
  BY EditsExtend DEF ReaderInv
<1>3. ASSUME NEW r \in Runs, run[r].pc \in AtPage
      PROVE  Finding(run[r], Page(r), reader[r], notion'[Page(r)])
  <2>1. PICK p \in Pages : p = Page(r)
    BY <1>3, PageOf DEF ReaderInv
  <2>2. Finding(run[r], p, reader[r], notion[p]) /\ Reading(run[r], notion[p], run[r].began[p])
    BY <1>3, <2>1, PageOf DEF ReaderInv
  <2>3. PICK h \in Seq(Versions), g \in Seq(Versions) :
          h = notion[p] /\ g = notion'[p] /\ Extends(h, g)
    BY <1>2 DEF ReaderInv, IInv, TypeOK
  <2>4. ASSUME run[r].pc = "children"
        PROVE  Listed(reader[r], p, g, run[r].snapshot.version)
    <3>1. run[r].snapshot.version \in 1..Len(h)
      BY <2>2, <2>3, <2>4 DEF Reading
    <3>2. PICK places \in SUBSET (1..Len(Layout[p])) :
            /\ Gathered(places, p, h, run[r].snapshot.version, reader[r].next)
            /\ reader[r].found = Kept(Layout[p], places)
      BY <2>2, <2>3, <2>4 DEF Finding, Listed
    <3>3. Gathered(places, p, g, run[r].snapshot.version, reader[r].next)
      BY <2>3, <3>1, <3>2, GatheredExtends
    <3> QED BY <3>2, <3>3 DEF Listed
  <2> QED BY <2>1, <2>2, <2>3, <2>4 DEF Finding
<1>4. ASSUME NEW r \in Runs, run'[r].pc \in AtPage
      PROVE  Finding(run'[r], Page(r)', reader'[r], notion'[Page(r)'])
  BY <1>1, <1>3, <1>4 DEF Page
<1> QED BY <1>1, <1>4 DEF ReaderInv

LEMMA StartsKeep ==
  ASSUME ReaderInv, IInv', UNCHANGED <<reader, listed>>, NEW r \in Runs,
         (\E order \in Orders : Start(r, order)) \/ StartFull(r) \/ Discover(r) \/ Close(r)
  PROVE  ReaderInv'
<1>1. run \in [Runs -> RunStates] /\ run[r] \in RunStates
  BY DEF ReaderInv, IInv, TypeOK
<1>2. \E x : run' = [run EXCEPT ![r] = x] /\ x.pc \in {"page", "discover", "done"}
  <2>1. ASSUME NEW order \in Orders, Start(r, order)
        PROVE  \E x : run' = [run EXCEPT ![r] = x] /\ x.pc \in {"page", "discover", "done"}
    <3> DEFINE x == [run[r] EXCEPT !.pc = "page", !.todo = order, !.at = 1,
                                   !.audit = "running", !.began = Began]
    <3>1. run' = [run EXCEPT ![r] = x] /\ x.pc = "page"
      BY <1>1, <2>1 DEF Start, RunStates
    <3> HIDE DEF x
    <3> QED BY <3>1
  <2>2. ASSUME StartFull(r)
        PROVE  \E x : run' = [run EXCEPT ![r] = x] /\ x.pc \in {"page", "discover", "done"}
    <3> DEFINE x == [run[r] EXCEPT !.pc = "discover", !.audit = "running", !.began = Began]
    <3>1. run' = [run EXCEPT ![r] = x] /\ x.pc = "discover"
      BY <1>1, <2>2 DEF StartFull, RunStates
    <3> HIDE DEF x
    <3> QED BY <3>1
  <2>3. ASSUME Discover(r)
        PROVE  \E x : run' = [run EXCEPT ![r] = x] /\ x.pc \in {"page", "discover", "done"}
    <3>0. PICK order : run' = [run EXCEPT ![r] = [@ EXCEPT !.pc = "page", !.todo = order, !.at = 1]]
      BY <2>3 DEF Discover
    <3> DEFINE x == [run[r] EXCEPT !.pc = "page", !.todo = order, !.at = 1]
    <3>1. run' = [run EXCEPT ![r] = x] /\ x.pc = "page"
      BY <1>1, <3>0 DEF RunStates
    <3> HIDE DEF x
    <3> QED BY <3>1
  <2>4. ASSUME Close(r)
        PROVE  \E x : run' = [run EXCEPT ![r] = x] /\ x.pc \in {"page", "discover", "done"}
    <3>0. PICK audit : run' = [run EXCEPT ![r].pc = "done", ![r].audit = audit]
      BY <2>4 DEF Close
    <3> DEFINE x == [run[r] EXCEPT !.pc = "done", !.audit = audit]
    <3>1. run' = [run EXCEPT ![r] = x] /\ x.pc = "done"
      BY <1>1, <3>0 DEF RunStates
    <3> HIDE DEF x
    <3> QED BY <3>1
  <2> QED BY <2>1, <2>2, <2>3, <2>4
<1>3. /\ run'[r].pc \in {"page", "discover", "done"}
      /\ \A s \in Runs : s # r => run'[s] = run[s]
  BY <1>1, <1>2
<1>4. run'[r].pc \notin {"blocks", "children", "embedding", "persist"}
  BY <1>3
<1>5. UNCHANGED <<notion, pageRow>>
  BY DEF Start, StartFull, Discover, Close, stored
<1>6. Finding(run'[r], run'[r].todo[run'[r].at], reader'[r], notion[run'[r].todo[run'[r].at]])
  BY <1>4, FoundNothing
<1>7. reader' \in [Runs -> Readers] /\ \A s \in Runs : reader'[s] = reader[s]
  BY DEF ReaderInv
<1> QED BY <1>3, <1>5, <1>6, <1>7, OneReader

LEMMA EmbedKeeps ==
  ASSUME ReaderInv, IInv', UNCHANGED <<reader, listed>>, NEW r \in Runs, Embed(r)
  PROVE  ReaderInv'
<1>1. run \in [Runs -> RunStates] /\ run[r] \in RunStates
  BY DEF ReaderInv, IInv, TypeOK
<1>2. PICK x : /\ run' = [run EXCEPT ![r] = x]
               /\ x.pc = "persist" /\ x.todo = run[r].todo /\ x.at = run[r].at
               /\ x.snapshot = run[r].snapshot
  <2> DEFINE y == [run[r] EXCEPT !.pc = "persist"]
  <2>1. /\ run' = [run EXCEPT ![r] = y]
        /\ y.pc = "persist" /\ y.todo = run[r].todo /\ y.at = run[r].at
        /\ y.snapshot = run[r].snapshot
    BY <1>1 DEF Embed, RunStates
  <2> HIDE DEF y
  <2> QED BY <2>1
<1>3. run'[r] = x /\ \A s \in Runs : s # r => run'[s] = run[s]
  BY <1>1, <1>2
<1>4. run[r].pc = "embedding" /\ run[r].pc \in AtPage
  BY DEF Embed, AtPage
<1>5. Finding(run[r], Page(r), reader[r], notion[Page(r)])
  BY <1>4 DEF ReaderInv
<1>6. Finding(x, run[r].todo[run[r].at], reader[r], notion[run[r].todo[run[r].at]])
  BY <1>2, <1>4, <1>5 DEF Finding, Page
<1>7. reader' \in [Runs -> Readers] /\ \A s \in Runs : reader'[s] = reader[s]
  BY DEF ReaderInv
<1> QED BY <1>2, <1>3, <1>6, <1>7, OneReader DEF Embed, stored

(* The page was read: the listing of its blocks begins.                    *)
LEMMA FetchPageKeeps ==
  ASSUME ReaderInv, IInv', NEW r \in Runs, FetchPage(r)
  PROVE  ReaderInv'
<1>1. CASE GiveUp(r)
  BY <1>1, GiveUpKeeps
<1>2. CASE ~GiveUp(r)
  <2>1. /\ ReadPage(r) /\ UNCHANGED listed
        /\ reader' = [reader EXCEPT ![r] = [NoReader EXCEPT !.next = 1]]
    BY <1>2 DEF FetchPage
  <2>2. run \in [Runs -> RunStates] /\ run[r] \in RunStates /\ reader \in [Runs -> Readers]
    BY DEF ReaderInv, IInv, TypeOK
  <2>3. PICK read \in Readers : /\ reader' = [reader EXCEPT ![r] = read]
                                /\ read.next = 1 /\ read.found = <<>>
    <3>1. [NoReader EXCEPT !.next = 1] \in Readers
      BY NoReaderTyped DEF Readers
    <3> QED BY <2>1, <3>1 DEF NoReader
  <2>4. /\ run'[r].pc = "blocks" /\ \A s \in Runs : s # r => run'[s] = run[s]
        /\ UNCHANGED <<notion, pageRow>>
    BY <2>1, <2>2 DEF ReadPage, stored, RunStates
  <2>5. /\ reader'[r] = read /\ \A s \in Runs : s # r => reader'[s] = reader[s]
        /\ reader' \in [Runs -> Readers]
    BY <2>2, <2>3
  <2>6. Finding(run'[r], run'[r].todo[run'[r].at], reader'[r], notion[run'[r].todo[run'[r].at]])
    BY <2>3, <2>4, <2>5 DEF Finding
  <2> QED BY <2>1, <2>4, <2>5, <2>6, OneReader
<1> QED BY <1>1, <1>2

(* One more page of the listing, from the cursor on.                       *)
LEMMA FetchListKeeps ==
  ASSUME ReaderInv, IInv', NEW r \in Runs, FetchList(r)
  PROVE  ReaderInv'
<1>1. CASE GiveUp(r)
  BY <1>1, GiveUpKeeps
<1>2. CASE ~GiveUp(r)
  <2>1. run[r].pc \in {"blocks", "children"} /\ run[r].pc \in AtPage
    BY DEF FetchList, AtPage
  <2>2. PICK p \in Pages : p = Page(r)
    BY <2>1, PageOf DEF ReaderInv
  <2>3. /\ run \in [Runs -> RunStates] /\ run[r] \in RunStates
        /\ reader \in [Runs -> Readers] /\ reader[r] \in Readers
    BY DEF ReaderInv, IInv, TypeOK
  <2>4. PICK from \in Nat \ {0} : from = reader[r].next
    BY <2>3 DEF FetchList, Readers
  <2>5. PICK cursor \in {CursorAfter(p, from)} \cup reader[r].cursors :
          /\ Fresh(r, cursor)
          /\ reader' = [reader EXCEPT ![r] =
               [next |-> cursor, cursors |-> @.cursors \cup ({cursor} \ {0}),
                found |-> @.found \o Kept(Layout[p], PageFrom(p, from))]]
          /\ IF run[r].pc = "blocks" THEN ListBlocks(r) ELSE UNCHANGED vars
          /\ UNCHANGED listed
    BY <1>2, <2>2, <2>4 DEF FetchList
  <2>6. cursor = CursorAfter(p, from) /\ cursor \in Nat
    BY <2>5, CursorIs DEF Fresh
  <2>7. PICK more \in Seq(DOMAIN Lines) : more = Kept(Layout[p], PageFrom(p, from))
    BY LayoutIs, KeptEnum
  <2>8. PICK read \in Readers :
          /\ reader' = [reader EXCEPT ![r] = read]
          /\ read.next = cursor /\ read.found = reader[r].found \o more
    <3> DEFINE y == [next |-> cursor, cursors |-> reader[r].cursors \cup ({cursor} \ {0}),
                     found |-> reader[r].found \o more]
    <3>1. reader' = [reader EXCEPT ![r] = y]
      BY <2>5, <2>7
    <3>2. reader[r].found \in Seq(DOMAIN Lines) /\ reader[r].cursors \in SUBSET Nat
      BY <2>3 DEF Readers
    <3>3. y \in Readers /\ y.next = cursor /\ y.found = reader[r].found \o more
      BY <2>6, <3>2 DEF Readers
    <3> HIDE DEF y
    <3> QED BY <3>1, <3>3
  <2>9. PICK h \in Seq(Versions) : h = notion[p] /\ Len(h) \in Nat /\ Len(h) >= 1
    BY DEF ReaderInv, IInv, TypeOK, Timed, Growing
  <2>10. Finding(run[r], p, reader[r], h) /\ Reading(run[r], h, run[r].began[p])
    BY <2>1, <2>2, <2>9, PageOf DEF ReaderInv
  <2>11. ASSUME NEW version \in 1..Len(h), NEW places \in SUBSET (1..Len(Layout[p])),
                Gathered(places, p, h, version, from),
                reader[r].found = Kept(Layout[p], places)
         PROVE  Listed(read, p, h, version)
    <3>1. /\ PageFrom(p, from) \subseteq 1..Len(Layout[p])
          /\ Gathered(places \cup PageFrom(p, from), p, h, version, cursor)
          /\ Kept(Layout[p], places) \o more
               = Kept(Layout[p], places \cup PageFrom(p, from))
      BY <2>6, <2>7, <2>9, <2>11, GatheredMore DEF ReaderInv
    <3>2. PICK all \in SUBSET (1..Len(Layout[p])) : all = places \cup PageFrom(p, from)
      BY <3>1
    <3> QED BY <2>8, <2>11, <3>1, <3>2 DEF Listed
  <2>12. /\ run'[r].pc = "children" /\ run'[r].todo = run[r].todo /\ run'[r].at = run[r].at
         /\ \A s \in Runs : s # r => run'[s] = run[s]
         /\ UNCHANGED <<notion, pageRow>>
         /\ Listed(read, p, h, run'[r].snapshot.version)
    <3>1. CASE run[r].pc = "blocks"
      <4>1. PICK version \in Nat : version = Version(p) /\ version = Len(h)
        BY <2>9 DEF Version
      <4> DEFINE x == [run[r] EXCEPT !.pc = "children", !.snapshot = [@ EXCEPT !.version = version]]
      <4>2. run' = [run EXCEPT ![r] = x] /\ UNCHANGED stored
        BY <2>2, <2>3, <2>5, <3>1, <4>1 DEF ListBlocks, RunStates, Snapshots
      <4>3. /\ x.pc = "children" /\ x.todo = run[r].todo /\ x.at = run[r].at
            /\ x.snapshot.version = version
        BY <2>3 DEF RunStates, Snapshots
      <4> HIDE DEF x
      <4>4. from = 1 /\ reader[r].found = <<>>
        BY <2>4, <2>10, <3>1 DEF Finding
      <4>5. Gathered({}, p, h, version, 1)
        <5>1. \A k \in 1..Len(Layout[p]) : ~Before(1, k)
          BY LayoutIs DEF Before
        <5> QED BY <5>1 DEF Gathered
      <4>6. Kept(Layout[p], {}) = <<>>
        <5>1. PICK s \in Seq(DOMAIN Lines) : s = Layout[p] /\ 0 \in 0..Len(s)
          BY LayoutIs
        <5>2. {} \cap (1..Len(s)) = 1..0
          OBVIOUS
        <5>3. Kept(s, {}) = SubSeq(s, 1, 0)
          BY <5>1, <5>2, KeptPrefix
        <5> QED BY <5>1, <5>3
      <4>7. Listed(read, p, h, version)
        BY <2>9, <2>11, <4>1, <4>4, <4>5, <4>6
      <4> QED BY <2>3, <4>2, <4>3, <4>7 DEF stored
    <3>2. CASE run[r].pc = "children"
      <4>1. PICK places \in SUBSET (1..Len(Layout[p])) :
              /\ Gathered(places, p, h, run[r].snapshot.version, from)
              /\ reader[r].found = Kept(Layout[p], places)
        BY <2>4, <2>10, <3>2 DEF Finding, Listed
      <4>2. run[r].snapshot.version \in 1..Len(h)
        BY <2>10, <3>2 DEF Reading
      <4>3. Listed(read, p, h, run[r].snapshot.version)
        BY <2>11, <4>1, <4>2
      <4> QED BY <2>5, <3>2, <4>3 DEF vars, stored
    <3> QED BY <2>1, <3>1, <3>2
  <2>13. /\ reader'[r] = read /\ \A s \in Runs : s # r => reader'[s] = reader[s]
         /\ reader' \in [Runs -> Readers]
    BY <2>3, <2>8
  <2>14. Finding(run'[r], run'[r].todo[run'[r].at], reader'[r], notion[run'[r].todo[run'[r].at]])
    BY <2>2, <2>9, <2>12, <2>13 DEF Finding, Page
  <2> QED BY <2>5, <2>12, <2>13, <2>14, OneReader
<1> QED BY <1>1, <1>2

(* The tree is there: its blocks are those of the listing.                 *)
LEMMA FetchChildrenKeeps ==
  ASSUME ReaderInv, IInv', NEW r \in Runs, FetchChildren(r)
  PROVE  ReaderInv'
<1>1. CASE GiveUp(r)
  BY <1>1, GiveUpKeeps
<1>2. CASE ~GiveUp(r)
  <2>1. /\ run[r].pc = "children" /\ run[r].pc \in AtPage /\ reader[r].next = 0
        /\ ReadBlocks(r) /\ run'[r].snapshot.blocks = ToSet(reader[r].found) \cap Blocks
        /\ UNCHANGED <<reader, listed>>
    BY <1>2 DEF FetchChildren, AtPage
  <2>2. PICK p \in Pages : p = Page(r)
    BY <2>1, PageOf DEF ReaderInv
  <2>3. /\ run \in [Runs -> RunStates] /\ run[r] \in RunStates
        /\ run[r].snapshot \in Snapshots
    BY DEF ReaderInv, IInv, TypeOK, RunStates
  <2>4. PICK last, found : run' = [run EXCEPT ![r].pc = "embedding",
                             ![r].snapshot = [@ EXCEPT !.last = last, !.blocks = found]]
    BY <2>1 DEF ReadBlocks
  <2>5. /\ run'[r].pc = "embedding" /\ run'[r].todo = run[r].todo /\ run'[r].at = run[r].at
        /\ \A s \in Runs : s # r => run'[s] = run[s]
    BY <2>3, <2>4 DEF RunStates
  <2>6. Finding(run[r], p, reader[r], notion[p])
    BY <2>1, <2>2 DEF ReaderInv
  <2>7. PICK places \in SUBSET (1..Len(Layout[p])) :
          /\ Gathered(places, p, notion[p], run[r].snapshot.version, 0)
          /\ reader[r].found = Kept(Layout[p], places)
    BY <2>1, <2>6 DEF Finding, Listed
  <2>8. reader[r].found = Listing(p, run'[r].snapshot.blocks)
    BY <2>1, <2>7, ListingEnds
  <2>9. Finding(run'[r], run'[r].todo[run'[r].at], reader'[r], notion[run'[r].todo[run'[r].at]])
    BY <2>1, <2>2, <2>5, <2>8 DEF Finding, Page
  <2>10. reader' \in [Runs -> Readers] /\ \A s \in Runs : reader'[s] = reader[s]
    BY <2>1 DEF ReaderInv
  <2> QED BY <2>1, <2>5, <2>9, <2>10, OneReader DEF ReadBlocks, stored
<1> QED BY <1>1, <1>2

(* What is stored of the page is the listing of the blocks it is stored    *)
(* with.                                                                   *)
LEMMA PersistKeeps ==
  ASSUME ReaderInv, IInv', NEW r \in Runs, PersistTree(r)
  PROVE  ReaderInv'
<1>1. run[r].pc = "persist" /\ run[r].pc \in AtPage
  BY DEF PersistTree, Persist, AtPage
<1>2. PICK p \in Pages : p = Page(r)
  BY <1>1, PageOf DEF ReaderInv
<1>3. /\ run \in [Runs -> RunStates] /\ run[r] \in RunStates
      /\ reader \in [Runs -> Readers] /\ reader[r] \in Readers
  BY DEF ReaderInv, IInv, TypeOK
<1>4. /\ pageRow' = [pageRow EXCEPT ![p] = run[r].snapshot]
      /\ listed' = [listed EXCEPT ![p] = reader[r].found]
      /\ reader' = [reader EXCEPT ![r] = NoReader]
      /\ Advance(r)
  BY <1>2 DEF PersistTree, Persist
<1>5. /\ pageRow \in [Pages -> Snapshots \cup {None}]
      /\ listed \in [Pages -> Seq(DOMAIN Lines)]
  BY DEF ReaderInv, IInv, TypeOK
<1>6. reader[r].found = Listing(p, run[r].snapshot.blocks) /\ reader[r].found \in Seq(DOMAIN Lines)
  BY <1>1, <1>2, <1>3 DEF ReaderInv, Finding, Readers
<1>7. listed' \in [Pages -> Seq(DOMAIN Lines)]
  BY <1>4, <1>5, <1>6
<1>8. ASSUME NEW q \in Pages, pageRow'[q] # None
      PROVE  listed'[q] = Listing(q, pageRow'[q].blocks)
  <2>1. CASE q = p
    BY <1>4, <1>5, <1>6, <2>1
  <2>2. CASE q # p
    BY <1>4, <1>5, <1>8, <2>2 DEF ReaderInv
  <2> QED BY <2>1, <2>2
<1>9. reader' \in [Runs -> Readers] /\ \A s \in Runs : s # r => reader'[s] = reader[s]
  BY <1>3, <1>4, NoReaderTyped
<1>10. run'[r].pc \in {"close", "page"} /\ \A s \in Runs : s # r => run'[s] = run[s]
  <2> DEFINE next == IF run[r].at = Len(run[r].todo) THEN "close" ELSE "page"
             x == [run[r] EXCEPT !.at = @ + 1, !.snapshot = NoSnapshot, !.pc = next]
  <2>1. run' = [run EXCEPT ![r] = x] /\ next \in {"close", "page"}
    BY <1>3, <1>4 DEF Advance
  <2>2. x.pc = next
    BY <1>3 DEF RunStates
  <2> HIDE DEF x, next
  <2> QED BY <1>3, <2>1, <2>2
<1>11. ASSUME NEW s \in Runs, run'[s].pc \in AtPage
       PROVE  Finding(run'[s], Page(s)', reader'[s], notion'[Page(s)'])
  <2>1. CASE s = r
    BY <1>10, <2>1, FoundNothing
  <2>2. CASE s # r
    <3>1. Page(s)' = Page(s) /\ notion' = notion
      BY <1>10, <2>2 DEF Page, PersistTree, Persist
    <3> QED BY <1>9, <1>10, <1>11, <2>2, <3>1 DEF ReaderInv
  <2> QED BY <2>1, <2>2
<1> QED BY <1>7, <1>8, <1>9, <1>11 DEF ReaderInv

LEMMA ReaderStarts ==
  ASSUME ReaderInit
  PROVE  ReaderInv
<1>1. IInv
  BY InitInvariant DEF ReaderInit
<1>2. reader \in [Runs -> Readers] /\ listed \in [Pages -> Seq(DOMAIN Lines)]
  BY NoReaderTyped, EmptySeq DEF ReaderInit
<1>3. \A r \in Runs : run[r].pc \notin AtPage
  BY DEF ReaderInit, Init, NewRun, AtPage
<1>4. \A p \in Pages : pageRow[p] = None
  BY DEF ReaderInit, Init
<1> QED BY <1>1, <1>2, <1>3, <1>4 DEF ReaderInv

LEMMA ReaderNextKeeps ==
  ASSUME ReaderInv, IInv', [ReaderNext]_readerVars
  PROVE  ReaderInv'
<1>1. CASE UNCHANGED readerVars
  BY <1>1 DEF readerVars, vars, stored, ReaderInv, Page
<1>2. CASE Elsewhere
  <2>1. UNCHANGED <<reader, listed>>
    BY <1>2 DEF Elsewhere
  <2>2. CASE (\E p \in Pages : Edit(p)) \/ (\E b \in Blocks, p, q \in Pages : Move(b, p, q))
    BY <2>1, <2>2, EditsKeep
  <2>3. CASE \E r \in Runs :
               (\E order \in Orders : Start(r, order)) \/ StartFull(r) \/ Embed(r) \/ Close(r)
    BY <2>1, <2>3, StartsKeep, EmbedKeeps
  <2> QED BY <1>2, <2>2, <2>3 DEF Elsewhere
<1>3. ASSUME NEW r \in Runs, DiscoverPages(r) PROVE ReaderInv'
  BY <1>3, StartsKeep DEF DiscoverPages
<1>4. ASSUME NEW r \in Runs,
             FetchPage(r) \/ FetchList(r) \/ FetchChildren(r) \/ PersistTree(r) \/ Ends(r)
      PROVE  ReaderInv'
  BY <1>4, FetchPageKeeps, FetchListKeeps, FetchChildrenKeeps, PersistKeeps, EndsKeeps
<1> QED BY <1>1, <1>2, <1>3, <1>4 DEF ReaderNext

LEMMA ReaderInvariance == ReaderSpec => []ReaderInv
<1>1. ReaderInit => ReaderInv
  BY ReaderStarts
<1>2. ReaderInv /\ IInv' /\ [ReaderNext]_readerVars => ReaderInv'
  BY ReaderNextKeeps
<1> QED BY <1>1, <1>2, ImplementsNotionIndex, Invariance, PTL DEF ReaderSpec

------------------------------------------------------------------------------
(***************************************************************************)
(* The lines of a page.                                                    *)
(***************************************************************************)

LineNames == {l \in (DOMAIN Lines) \X Nat : l[2] \in 1..Len(Lines[l[1]])}

LEMMA LinesAre ==
  /\ \A b \in DOMAIN Lines :
       /\ Len(Lines[b]) \in Nat /\ DOMAIN Lines[b] = 1..Len(Lines[b])
       /\ LinesOf(b) \in Seq(LineNames) /\ Len(LinesOf(b)) = Len(Lines[b])
       /\ \A i \in 1..Len(Lines[b]) : <<b, i>> \in LineNames /\ LinesOf(b)[i] = <<b, i>>
  /\ \A l \in LineNames :
       /\ l[1] \in DOMAIN Lines /\ l[2] \in 1..Len(Lines[l[1]])
       /\ Line(l).len \in Nat /\ Line(l).depth \in Nat /\ Line(l).depth < l[2]
<1>1. ASSUME NEW b \in DOMAIN Lines
      PROVE  /\ Len(Lines[b]) \in Nat /\ DOMAIN Lines[b] = 1..Len(Lines[b])
             /\ \A i \in 1..Len(Lines[b]) : Lines[b][i] \in LineRecords /\ Lines[b][i].depth < i
  <2>1. Lines[b] \in Seq(LineRecords)
    BY ReaderAssumption DEF ReaderAssumption
  <2>2. Len(Lines[b]) \in Nat /\ DOMAIN Lines[b] = 1..Len(Lines[b])
    BY <2>1
  <2>3. \A i \in 1..Len(Lines[b]) : Lines[b][i] \in LineRecords
    BY <2>1
  <2> QED BY <2>2, <2>3, ReaderAssumption DEF ReaderAssumption
<1>2. ASSUME NEW b \in DOMAIN Lines
      PROVE  /\ LinesOf(b) \in Seq(LineNames) /\ Len(LinesOf(b)) = Len(Lines[b])
             /\ \A i \in 1..Len(Lines[b]) : <<b, i>> \in LineNames /\ LinesOf(b)[i] = <<b, i>>
  <2>1. PICK N \in Nat : N = Len(Lines[b]) /\ DOMAIN Lines[b] = 1..N
    BY <1>1
  <2>2. \A i \in 1..N : <<b, i>> \in LineNames
    BY <2>1 DEF LineNames
  <2>3. [i \in 1..N |-> <<b, i>>] \in Seq(LineNames)
    BY <2>2, IsASeq
  <2>4. LinesOf(b) = [i \in 1..N |-> <<b, i>>]
    BY <2>1 DEF LinesOf
  <2>5. Len([i \in 1..N |-> <<b, i>>]) = N
    OBVIOUS
  <2> QED BY <2>1, <2>2, <2>3, <2>4, <2>5
<1>3. ASSUME NEW l \in LineNames
      PROVE  /\ l[1] \in DOMAIN Lines /\ l[2] \in 1..Len(Lines[l[1]])
             /\ Line(l).len \in Nat /\ Line(l).depth \in Nat /\ Line(l).depth < l[2]
  <2>1. l[1] \in DOMAIN Lines /\ l[2] \in 1..Len(Lines[l[1]])
    BY DEF LineNames
  <2> QED BY <1>1, <2>1 DEF Line, LineRecords
<1> QED BY <1>1, <1>2, <1>3

(* Going down a block line by line leaves out what is below a reference,   *)
(* and no more: the closed depth is that of a reference that the next line *)
(* may still be below, and none that it may be below is less deep.         *)
LEMMA BlockLinesAre ==
  ASSUME NEW b \in DOMAIN Lines
  PROVE  BlockLines(b) = Kept(LinesOf(b), Own(b))
<1>1. PICK N \in Nat : N = Len(Lines[b]) /\ DOMAIN Lines[b] = 1..N
  BY LinesAre
<1> DEFINE V == [lines : Seq(LineNames), closed : Nat]
           first == [lines |-> <<>>, closed |-> N]
           Body(f) == [n \in 0..N |-> IF n = 0 THEN first ELSE Below(f[n - 1], <<b, n>>)]
           step == [x \in (1..N) \X V |-> Below(x[2], <<b, x[1]>>)]
           w == CHOOSE f : f = Body(f)
<1>2. first \in V
  BY EmptySeq
<1>3. \A i \in 1..N, v \in V : Below(v, <<b, i>>) \in V
  <2>1. ASSUME NEW i \in 1..N, NEW v \in V PROVE Below(v, <<b, i>>) \in V
    <3>1. /\ <<b, i>> \in LineNames /\ Line(<<b, i>>).depth \in Nat
          /\ <<b, i>>[1] = b
      BY <1>1, LinesAre
    <3>2. PICK l \in LineNames : l = <<b, i>> /\ l[1] = b /\ Line(l).depth \in Nat
      BY <3>1
    <3>3. PICK closed \in Nat :
            closed = IF Line(l).type \in PageReferences THEN Line(l).depth ELSE Len(Lines[l[1]])
      BY <1>1, <3>2
    <3>4. Below(v, l) = IF Line(l).depth > v.closed THEN v
                        ELSE [lines |-> Append(v.lines, l), closed |-> closed]
      BY <3>3 DEF Below
    <3>5. [lines |-> Append(v.lines, l), closed |-> closed] \in V
      OBVIOUS
    <3> QED BY <3>2, <3>4, <3>5
  <2> QED BY <2>1
<1>4. step \in Steps(N, V)
  <2> HIDE DEF V
  <2> QED BY <1>3 DEF Steps
<1>5. \A i \in 1..N, v \in V : step[<<i, v>>] = Below(v, <<b, i>>)
  <2> HIDE DEF V
  <2> QED OBVIOUS
<1>6. BlockLines(b) = w[N].lines
  BY <1>1 DEF BlockLines
<1> HIDE DEF step, w, V, first
<1>7. PICK f : Follows(f, N, V, first, step)
  BY <1>1, <1>2, <1>4, Recursion
<1>8. ASSUME NEW i \in 0..N PROVE f[i] = Body(f)[i]
  <2>1. CASE i = 0
    BY <1>7, <2>1 DEF Follows
  <2>2. CASE i # 0
    <3>1. i \in 1..N /\ i - 1 \in 0..N /\ f[i - 1] \in V
      BY <1>1, <1>7, <2>2 DEF Follows
    <3>2. f[i] = step[<<i, f[i - 1]>>]
      BY <1>7, <3>1 DEF Follows
    <3> QED BY <1>5, <2>2, <3>1, <3>2
  <2> QED BY <2>1, <2>2
<1>9. f = Body(f)
  BY <1>7, <1>8 DEF Follows
<1>10. w = Body(w)
  <2> HIDE DEF Body
  <2> QED BY <1>9 DEF w
<1>11. w[0] = first /\ \A i \in 1..N : w[i] = Below(w[i - 1], <<b, i>>)
  <2>1. \A i \in 0..N : w[i] = IF i = 0 THEN first ELSE Below(w[i - 1], <<b, i>>)
    BY <1>10
  <2>2. ASSUME NEW i \in 1..N PROVE w[i] = Below(w[i - 1], <<b, i>>)
    <3>1. i \in 0..N /\ i # 0
      BY <1>1
    <3> QED BY <2>1, <3>1
  <2>3. w[0] = first
    <3>1. 0 \in 0..N
      BY <1>1
    <3>2. Body(w)[0] = first
      BY <3>1
    <3> QED BY <1>10, <3>2
  <2> QED BY <2>2, <2>3
<1> HIDE DEF Body
<1>12. PICK depth : \A i \in 1..N : /\ depth[i] = Lines[b][i].depth /\ depth[i] = Line(<<b, i>>).depth
                                    /\ depth[i] \in Nat /\ depth[i] < i
  <2>1. \A i \in 1..N : /\ Lines[b][i].depth = Line(<<b, i>>).depth
                        /\ Lines[b][i].depth \in Nat /\ Lines[b][i].depth < i
    <3>1. ASSUME NEW i \in 1..N
          PROVE /\ Lines[b][i].depth = Line(<<b, i>>).depth
                /\ Lines[b][i].depth \in Nat /\ Lines[b][i].depth < i
      <4>1. <<b, i>> \in LineNames /\ <<b, i>>[1] = b /\ <<b, i>>[2] = i
        BY <1>1, LinesAre
      <4> QED BY <4>1, LinesAre DEF Line
    <3> QED BY <3>1
  <2>2. \A i \in 1..N : [j \in 1..N |-> Lines[b][j].depth][i] = Lines[b][i].depth
    OBVIOUS
  <2> QED BY <2>1, <2>2
<1>13. PICK refs : refs = {i \in 1..N : Line(<<b, i>>).type \in PageReferences}
  OBVIOUS
<1>21. PICK under :
         \A i \in 0..N : \A j \in 1..N :
           <<i, j>> \in under <=> \A k \in j + 1..i : depth[k] > depth[j]
  <2>1. PICK D : D = {x \in (0..N) \X (1..N) : \A k \in x[2] + 1..x[1] : depth[k] > depth[x[2]]}
    OBVIOUS
  <2>2. ASSUME NEW i \in 0..N, NEW j \in 1..N
        PROVE  <<i, j>> \in D <=> \A k \in j + 1..i : depth[k] > depth[j]
    BY <2>1
  <2> QED BY <2>2
<1>14. Own(b) = {i \in 1..N : \A j \in refs : j < i => <<i, j>> \notin under}
  <2>1. ASSUME NEW i \in 1..N, NEW j \in 1..i - 1
        PROVE  /\ j \in 1..N /\ (Lines[b][j].type \in PageReferences <=> j \in refs)
               /\ Within(<<b, i>>, <<b, j>>) <=> <<i, j>> \in under
    <3>1. j \in 1..N /\ j <= i /\ j \in Nat /\ i \in Nat
      BY <1>1
    <3>2. \A k \in j + 1..i : k \in 1..N
      BY <1>1, <3>1
    <3>3. Within(<<b, i>>, <<b, j>>) <=> \A k \in j + 1..i : Lines[b][k].depth > depth[j]
      BY <1>12, <3>1 DEF Within
    <3> QED BY <1>12, <1>13, <1>21, <3>1, <3>2, <3>3 DEF Line
  <2>2. ASSUME NEW i \in 1..N, NEW j \in refs, j < i PROVE j \in 1..i - 1
    BY <1>1, <1>13, <2>2
  <2>3. \A i \in 1..N : \A j \in 1..i - 1 : j < i
    BY <1>1
  <2> QED BY <1>1, <2>1, <2>2, <2>3 DEF Own
<1>15. PICK kept \in [0..Len(LinesOf(b)) -> Seq(LineNames)] : Keeps(kept, LinesOf(b), Own(b))
  BY LinesAre, KeptIs
<1>16. /\ kept[0] = <<>> /\ Kept(LinesOf(b), Own(b)) = kept[N]
       /\ \A i \in 1..N :
            kept[i] = IF i \in Own(b) THEN Append(kept[i - 1], <<b, i>>) ELSE kept[i - 1]
  BY <1>1, <1>15, LinesAre DEF Keeps
<1> DEFINE K == {n \in 0..N :
                   /\ w[n].lines = kept[n]
                   /\ \/ w[n].closed = N
                      \/ \E j \in refs : j <= n /\ <<n, j>> \in under /\ w[n].closed = depth[j]
                   /\ \A j \in refs : j <= n /\ <<n, j>> \in under => depth[j] >= w[n].closed
                   /\ w[n].closed \in Nat}
<1>17. 0 \in K
  <2>1. \A j \in refs : ~(j <= 0)
    BY <1>13
  <2> QED BY <1>1, <1>11, <1>16, <2>1 DEF first
<1>18. ASSUME NEW n \in 0..N, n < N, n \in K PROVE n + 1 \in K
  <2>1. PICK m \in 1..N : m = n + 1 /\ m - 1 = n /\ n \in Nat /\ m \in 0..N /\ n < m
    BY <1>1, <1>18
  <2>2. /\ depth[m] \in Nat /\ depth[m] < N /\ depth[m] = Line(<<b, m>>).depth
    BY <1>1, <1>12, <2>1
  <2>3. PICK closed \in Nat : closed = w[n].closed
    BY <1>18
  <2>4. w[m] = IF depth[m] > closed THEN w[n]
               ELSE [lines |-> Append(w[n].lines, <<b, m>>),
                     closed |-> IF m \in refs THEN depth[m] ELSE N]
    BY <1>1, <1>11, <1>13, <2>1, <2>2, <2>3 DEF Below
  <2>5. ASSUME NEW j \in refs, j <= n
        PROVE  <<m, j>> \in under <=> <<n, j>> \in under /\ depth[m] > depth[j]
    <3>1. j \in Nat
      BY <1>13
    <3>2. \A k \in j + 1..m : k \in j + 1..n \/ k = m
      BY <2>1, <3>1
    <3>3. m \in j + 1..m /\ \A k \in j + 1..n : k \in j + 1..m
      BY <2>1, <2>5, <3>1
    <3>4. m \in 0..N /\ n \in 0..N /\ j \in 1..N
      BY <1>13, <2>1
    <3> QED BY <1>21, <3>2, <3>3, <3>4
  <2>6. \A j \in refs : j <= m <=> j <= n \/ j = m
    BY <1>13, <2>1
  <2>7. <<m, m>> \in under
    BY <1>21, <2>1
  <2>8. \A j \in refs : j < m <=> j <= n
    BY <1>13, <2>1
  <2>9. \A j \in refs : depth[j] \in Nat
    BY <1>12, <1>13
  <2>10. CASE depth[m] > closed
    <3>1. closed # N
      BY <1>1, <2>2, <2>3, <2>10
    <3>2. PICK j \in refs : j <= n /\ <<n, j>> \in under /\ closed = depth[j]
      BY <1>18, <2>3, <3>1
    <3>3. <<m, j>> \in under /\ j <= m /\ j < m
      BY <2>5, <2>6, <2>8, <2>10, <3>2
    <3>4. m \notin Own(b)
      BY <1>14, <3>3
    <3>5. w[m] = w[n] /\ kept[m] = kept[n]
      BY <1>16, <2>1, <2>4, <2>10, <3>4
    <3>6. ASSUME NEW i \in refs, i <= m, <<m, i>> \in under PROVE depth[i] >= closed
      <4>1. CASE i = m
        BY <2>2, <2>3, <2>10, <4>1
      <4>2. CASE i # m
        BY <1>18, <2>3, <2>5, <2>6, <3>6, <4>2
      <4> QED BY <4>1, <4>2
    <3> QED BY <1>18, <2>1, <2>3, <3>2, <3>3, <3>5, <3>6
  <2>11. CASE ~(depth[m] > closed)
    <3>1. ASSUME NEW j \in refs, j <= n PROVE <<m, j>> \notin under
      <4>1. <<n, j>> \in under => depth[j] >= closed
        BY <1>18, <2>3, <3>1
      <4> QED BY SMTT(30), <2>2, <2>3, <2>5, <2>9, <2>11, <3>1, <4>1
    <3>2. m \in Own(b)
      BY <1>14, <2>8, <3>1
    <3>3. w[m].lines = kept[m]
      BY <1>16, <1>18, <2>1, <2>4, <2>11, <3>2
    <3>4. w[m].closed = IF m \in refs THEN depth[m] ELSE N
      BY <2>4, <2>11
    <3>5. CASE m \in refs
      <4>1. \A j \in refs : j <= m /\ <<m, j>> \in under => j = m
        BY <2>6, <3>1
      <4>2. w[m].closed = depth[m] /\ m <= m /\ depth[m] >= depth[m]
        BY <2>1, <2>2, <3>4, <3>5
      <4>3. m \in K
        BY <2>1, <2>2, <2>7, <3>3, <3>5, <4>1, <4>2
      <4> QED BY <2>1, <4>3
    <3>6. CASE m \notin refs
      <4>1. \A j \in refs : ~(j <= m /\ <<m, j>> \in under)
        BY <2>6, <3>1, <3>6
      <4> QED BY <1>1, <2>1, <3>3, <3>4, <3>6, <4>1
    <3> QED BY <3>5, <3>6
  <2> QED BY <2>10, <2>11
<1> HIDE DEF K
<1>19. 0..N \subseteq K
  BY <1>1, <1>17, <1>18, UpTo
<1>20. w[N].lines = kept[N]
  BY <1>1, <1>19 DEF K
<1> QED BY <1>6, <1>16, <1>20

------------------------------------------------------------------------------
(***************************************************************************)
(* The chunks of a list of lines.                                          *)
(***************************************************************************)

Chunks == [path : Seq(LineNames), lines : Seq(LineNames)]

Splits == [done : Seq(Chunks), open : Chunks]

LEMMA PathTyped ==
  ASSUME NEW l \in LineNames
  PROVE  Path(l) \in Seq(LineNames)
<1>1. LinesOf(l[1]) \in Seq(LineNames)
  BY LinesAre
<1>2. PICK s \in Seq(LineNames) : s = LinesOf(l[1])
  BY <1>1
<1>3. PICK places : Path(l) = Kept(s, places)
  BY <1>2 DEF Path
<1> QED BY <1>3, KeptEnum

LEMMA LengthIs ==
  ASSUME NEW lines \in Seq(LineNames), NEW l \in LineNames
  PROVE  /\ Length(lines) \in Nat /\ Length(Append(lines, l)) \in Nat
         /\ Length(Append(lines, l))
              = Length(lines) + (IF lines = <<>> THEN 0 ELSE 1) + Line(l).len
<1>1. PICK N \in Nat : N = Len(lines) /\ DOMAIN lines = 1..N
  OBVIOUS
<1>2. /\ Append(lines, l) \in Seq(LineNames) /\ DOMAIN Append(lines, l) = 1..N + 1
      /\ \A i \in 1..N : Append(lines, l)[i] = lines[i]
      /\ Append(lines, l)[N + 1] = l
      /\ \A i \in 1..N : lines[i] \in LineNames
  BY <1>1
<1>3. PICK size : \A k \in LineNames : size[k] = Line(k).len /\ size[k] \in Nat
  <2>1. \A k \in LineNames : [m \in LineNames |-> Line(m).len][k] = Line(k).len
    OBVIOUS
  <2> QED BY <2>1, LinesAre
<1>4. \A i \in 1..N + 1 : (IF i = 1 THEN 0 ELSE 1) + size[Append(lines, l)[i]] \in Nat
  <2>1. ASSUME NEW i \in 1..N + 1
        PROVE  (IF i = 1 THEN 0 ELSE 1) + size[Append(lines, l)[i]] \in Nat
    <3>1. PICK k \in LineNames : k = Append(lines, l)[i]
      BY <1>1, <1>2
    <3>2. PICK d \in Nat, e \in {0, 1} : d = size[k] /\ e = IF i = 1 THEN 0 ELSE 1
      BY <1>3
    <3>3. e + d \in Nat
      OBVIOUS
    <3> QED BY <3>1, <3>2, <3>3
  <2> QED BY <2>1
<1>5. [i \in 1..N |-> (IF i = 1 THEN 0 ELSE 1) + size[lines[i]]] \in Seq(Nat)
  <2>1. \A i \in 1..N : (IF i = 1 THEN 0 ELSE 1) + size[lines[i]] \in Nat
    BY <1>2, <1>3
  <2> QED BY <2>1, IsASeq
<1>6. PICK u \in Seq(Nat) : /\ u = [i \in 1..N |-> (IF i = 1 THEN 0 ELSE 1) + size[lines[i]]]
                            /\ Len(u) = N
  <2>1. Len([i \in 1..N |-> (IF i = 1 THEN 0 ELSE 1) + size[lines[i]]]) = N
    OBVIOUS
  <2> QED BY <1>5, <2>1
<1>7. PICK x \in Nat : x = (IF lines = <<>> THEN 0 ELSE 1) + size[l]
  BY <1>3
<1>8. Append(u, x) = [i \in 1..N + 1 |-> (IF i = 1 THEN 0 ELSE 1) + size[Append(lines, l)[i]]]
  <2>1. /\ Append(u, x) \in Seq(Nat) /\ DOMAIN Append(u, x) = 1..N + 1
        /\ \A i \in 1..N : Append(u, x)[i] = u[i]
        /\ Append(u, x)[N + 1] = x
    BY <1>6
  <2>2. \A i \in 1..N : u[i] = (IF i = 1 THEN 0 ELSE 1) + size[Append(lines, l)[i]]
    BY <1>2, <1>6
  <2>3. x = (IF N + 1 = 1 THEN 0 ELSE 1) + size[Append(lines, l)[N + 1]]
    <3>1. lines = <<>> <=> N + 1 = 1
      BY <1>1, EmptySeq
    <3> QED BY <1>2, <1>7, <3>1
  <2>4. \A i \in 1..N + 1 : i \in 1..N \/ i = N + 1
    BY <1>1
  <2>5. \A i \in 1..N + 1 :
          Append(u, x)[i] = (IF i = 1 THEN 0 ELSE 1) + size[Append(lines, l)[i]]
    BY <2>1, <2>2, <2>3, <2>4
  <2>6. PICK v \in Seq(Nat), t \in Seq(Nat) :
          /\ v = Append(u, x) /\ Len(v) = N + 1
          /\ t = [i \in 1..N + 1 |-> (IF i = 1 THEN 0 ELSE 1) + size[Append(lines, l)[i]]]
          /\ Len(t) = N + 1
    <3>1. [i \in 1..N + 1 |-> (IF i = 1 THEN 0 ELSE 1) + size[Append(lines, l)[i]]] \in Seq(Nat)
      <4>0. PICK all : all = Append(lines, l)
        OBVIOUS
      <4>1. PICK M \in Nat : M = N + 1
        OBVIOUS
      <4>2. \A i \in 1..M : (IF i = 1 THEN 0 ELSE 1) + size[all[i]] \in Nat
        BY <1>4, <4>0, <4>1
      <4>3. [i \in 1..M |-> (IF i = 1 THEN 0 ELSE 1) + size[all[i]]] \in Seq(Nat)
        BY <4>1, <4>2, IsASeq
      <4> QED BY <4>0, <4>1, <4>3
    <3>2. Len([i \in 1..N + 1 |-> (IF i = 1 THEN 0 ELSE 1) + size[Append(lines, l)[i]]]) = N + 1
      OBVIOUS
    <3>3. Append(u, x) \in Seq(Nat) /\ Len(Append(u, x)) = N + 1
      BY <1>6
    <3> QED BY <3>1, <3>2, <3>3
  <2>7. \A i \in 1..Len(v) : v[i] = t[i]
    BY <2>5, <2>6
  <2>8. v = t
    <3>1. v = [i \in 1..Len(v) |-> v[i]] /\ t = [i \in 1..Len(t) |-> t[i]]
      OBVIOUS
    <3> QED BY <2>6, <2>7, <3>1
  <2> QED BY <2>6, <2>8
<1>9. Length(lines) = Total(u)
  <2>1. u = [i \in DOMAIN lines |-> (IF i = 1 THEN 0 ELSE 1) + Line(lines[i]).len]
    BY <1>1, <1>2, <1>3, <1>6
  <2> QED BY <2>1 DEF Length
<1>10. Length(Append(lines, l)) = Total(Append(u, x))
  <2>1. \A i \in 1..N + 1 : Append(lines, l)[i] \in LineNames
    BY <1>1, <1>2
  <2>2. [i \in 1..N + 1 |-> (IF i = 1 THEN 0 ELSE 1) + size[Append(lines, l)[i]]]
          = [i \in DOMAIN Append(lines, l) |->
               (IF i = 1 THEN 0 ELSE 1) + Line(Append(lines, l)[i]).len]
    BY <1>2, <1>3, <2>1
  <2> QED BY <1>8, <2>2 DEF Length
<1>11. Total(Append(u, x)) = Total(u) + x /\ Total(u) \in Nat
  BY TotalAppend
<1> QED BY <1>3, <1>7, <1>9, <1>10, <1>11

(* The texts of some chunks, one after the other.                          *)
Texts(batch) == FlattenSeq([k \in DOMAIN batch |-> batch[k].lines])

LEMMA TextsIs ==
  /\ Texts(<<>>) = <<>>
  /\ \A done \in Seq(Chunks) : \A c \in Chunks :
       /\ Texts(done) \in Seq(LineNames)
       /\ Texts(Append(done, c)) = Texts(done) \o c.lines
<1>1. Texts(<<>>) = <<>>
  <2>1. [k \in DOMAIN <<>> |-> <<>>[k].lines] = <<>>
    OBVIOUS
  <2> QED BY <2>1, FlattenEmpty DEF Texts
<1>2. ASSUME NEW done \in Seq(Chunks), NEW c \in Chunks
      PROVE  /\ Texts(done) \in Seq(LineNames)
             /\ Texts(Append(done, c)) = Texts(done) \o c.lines
  <2>1. PICK N \in Nat : N = Len(done) /\ DOMAIN done = 1..N
    OBVIOUS
  <2>2. \A k \in 1..N : done[k] \in Chunks /\ done[k].lines \in Seq(LineNames)
    <3>1. \A k \in 1..N : done[k] \in Chunks
      BY <2>1, ElementOfSeq
    <3>2. \A k \in Chunks : k.lines \in Seq(LineNames)
      BY DEF Chunks
    <3> QED BY <3>1, <3>2
  <2>3. [k \in 1..N |-> done[k].lines] \in Seq(Seq(LineNames))
    BY <2>2, IsASeq
  <2>4. PICK ss \in Seq(Seq(LineNames)) : ss = [k \in 1..N |-> done[k].lines] /\ Len(ss) = N
    <3>1. Len([k \in 1..N |-> done[k].lines]) = N
      OBVIOUS
    <3> QED BY <2>3, <3>1
  <2>5. PICK x \in Seq(LineNames) : x = c.lines
    BY DEF Chunks
  <2>6. /\ DOMAIN Append(done, c) = 1..N + 1
        /\ \A k \in 1..N : Append(done, c)[k] = done[k]
        /\ Append(done, c)[N + 1] = c
    BY <2>1
  <2>7. Append(ss, x) = [k \in DOMAIN Append(done, c) |-> Append(done, c)[k].lines]
    <3>1. /\ Append(ss, x) \in Seq(Seq(LineNames)) /\ DOMAIN Append(ss, x) = 1..N + 1
          /\ \A k \in 1..N : Append(ss, x)[k] = ss[k]
          /\ Append(ss, x)[N + 1] = x
      BY <2>4
    <3>2. \A k \in 1..N + 1 : k \in 1..N \/ k = N + 1
      BY <2>1
    <3>3. \A k \in 1..N + 1 : Append(ss, x)[k] = Append(done, c)[k].lines
      BY <2>4, <2>5, <2>6, <3>1, <3>2
    <3>4. PICK v \in Seq(Seq(LineNames)), t \in Seq(Seq(LineNames)) :
            /\ v = Append(ss, x) /\ Len(v) = N + 1
            /\ t = [k \in 1..N + 1 |-> Append(done, c)[k].lines] /\ Len(t) = N + 1
      <4>1. \A k \in 1..N + 1 : Append(done, c)[k].lines \in Seq(LineNames)
        BY <2>2, <2>5, <2>6, <3>2
      <4>2. [k \in 1..N + 1 |-> Append(done, c)[k].lines] \in Seq(Seq(LineNames))
        <5>0. PICK all : all = Append(done, c)
          OBVIOUS
        <5>1. PICK M \in Nat : M = N + 1
          OBVIOUS
        <5>2. \A k \in 1..M : all[k].lines \in Seq(LineNames)
          BY <4>1, <5>0, <5>1
        <5>3. [k \in 1..M |-> all[k].lines] \in Seq(Seq(LineNames))
          BY <5>1, <5>2, IsASeq
        <5> QED BY <5>0, <5>1, <5>3
      <4>3. Len([k \in 1..N + 1 |-> Append(done, c)[k].lines]) = N + 1
        OBVIOUS
      <4>4. Append(ss, x) \in Seq(Seq(LineNames)) /\ Len(Append(ss, x)) = N + 1
        BY <2>4
      <4> QED BY <4>2, <4>3, <4>4
    <3>5. \A k \in 1..Len(v) : v[k] = t[k]
      BY <3>3, <3>4
    <3>6. v = t
      BY <3>4, <3>5, SeqEqual
    <3> QED BY <2>6, <3>4, <3>6
  <2>8. Texts(done) = FlattenSeq(ss)
    BY <2>1, <2>4 DEF Texts
  <2>9. Texts(Append(done, c)) = FlattenSeq(Append(ss, x))
    BY <2>7 DEF Texts
  <2>10. FlattenSeq(Append(ss, x)) = FlattenSeq(ss) \o x /\ FlattenSeq(ss) \in Seq(LineNames)
    BY FlattenAppend
  <2> QED BY <2>5, <2>8, <2>9, <2>10
<1> QED BY <1>1, <1>2

(* The section a chunk begins in.                                          *)
SectionFrom(lines, c) == SectionOf(lines, c.lines[1])

ChunkOK(lines, c) ==
  /\ c.lines # <<>>
  /\ Length(c.lines) <= MaxChunk \/ Len(c.lines) = 1
  /\ \A j \in 1..Len(c.lines) : SectionOf(lines, c.lines[j]) = SectionFrom(lines, c)
  /\ c.path = Path(lines[Max({1, SectionFrom(lines, c)})])

(* Chunk d begins because c ended with its section or was full.            *)
Needed(lines, c, d) ==
  SectionFrom(lines, c) = SectionFrom(lines, d) =>
    Length(Append(c.lines, d.lines[1])) > MaxChunk

ChunksOK(lines, batch) ==
  /\ \A k \in 1..Len(batch) : ChunkOK(lines, batch[k])
  /\ \A k \in 2..Len(batch) : Needed(lines, batch[k - 1], batch[k])

(* Where the split stands in the section that begins at m, these texts     *)
(* being placed.                                                           *)
After(lines, c, open, m) ==
  /\ SectionFrom(lines, c) \in 0..m
  /\ IF open.lines = <<>> THEN SectionFrom(lines, c) # m ELSE Needed(lines, c, open)

SplitOK(lines, s, m, texts) ==
  /\ s \in Splits
  /\ Texts(s.done) \o s.open.lines = texts
  /\ ChunksOK(lines, s.done)
  /\ s.open.path = Path(lines[Max({1, m})])
  /\ s.done # <<>> => After(lines, s.done[Len(s.done)], s.open, m)
  /\ s.open.lines # <<>> => ChunkOK(lines, s.open) /\ SectionFrom(lines, s.open) = m

LEMMA FlushedOK ==
  ASSUME NEW lines, NEW s, NEW m \in Nat, NEW texts, SplitOK(lines, s, m, texts)
  PROVE  /\ Flushed(s) \in Seq(Chunks) /\ Texts(Flushed(s)) = texts
         /\ ChunksOK(lines, Flushed(s))
         /\ Flushed(s) # <<>> => SectionFrom(lines, Flushed(s)[Len(Flushed(s))]) \in 0..m
<1>1. PICK done \in Seq(Chunks), open \in Chunks : done = s.done /\ open = s.open
  BY DEF SplitOK, Splits
<1>2. /\ Texts(done) \o open.lines = texts /\ ChunksOK(lines, done)
      /\ done # <<>> => After(lines, done[Len(done)], open, m)
      /\ open.lines # <<>> => ChunkOK(lines, open) /\ SectionFrom(lines, open) = m
  BY <1>1 DEF SplitOK
<1>3. Flushed(s) = IF open.lines = <<>> THEN done ELSE Append(done, open)
  BY <1>1 DEF Flushed
<1>4. Texts(done) \in Seq(LineNames) /\ Texts(Append(done, open)) = Texts(done) \o open.lines
  BY TextsIs
<1>5. CASE open.lines = <<>>
  <2>1. Texts(done) \o <<>> = Texts(done)
    BY <1>4
  <2> QED BY <1>2, <1>3, <1>5, <2>1 DEF After
<1>6. CASE open.lines # <<>>
  <2>1. PICK N \in Nat : N = Len(done)
    OBVIOUS
  <2>2. PICK more \in Seq(Chunks) :
          /\ more = Append(done, open) /\ Len(more) = N + 1 /\ more[N + 1] = open
          /\ \A k \in 1..N : more[k] = done[k]
    <3>1. /\ Append(done, open) \in Seq(Chunks) /\ Len(Append(done, open)) = Len(done) + 1
          /\ \A k \in 1..Len(done) : Append(done, open)[k] = done[k]
          /\ Append(done, open)[Len(done) + 1] = open
      BY AppendKeeps
    <3> QED BY <2>1, <3>1
  <2>3. \A k \in 1..N + 1 : ChunkOK(lines, more[k])
    <3>1. \A k \in 1..N + 1 : k \in 1..N \/ k = N + 1
      OBVIOUS
    <3> QED BY <1>2, <1>6, <2>1, <2>2, <3>1 DEF ChunksOK
  <2>4. ASSUME NEW k \in 2..N + 1 PROVE Needed(lines, more[k - 1], more[k])
    <3>1. CASE k \in 2..N
      <4>1. k \in 1..N /\ k - 1 \in 1..N
        BY <3>1
      <4> QED BY <1>2, <2>1, <2>2, <3>1, <4>1 DEF ChunksOK
    <3>2. CASE k = N + 1
      <4>1. k - 1 = N /\ N \in 1..N /\ done # <<>>
        BY <2>1, <3>2, EmptySeq
      <4>2. Needed(lines, done[N], open)
        BY <1>2, <1>6, <2>1, <4>1 DEF After
      <4> QED BY <2>2, <3>2, <4>1, <4>2
    <3> QED BY <3>1, <3>2
  <2>5. ChunksOK(lines, more)
    BY <2>2, <2>3, <2>4 DEF ChunksOK
  <2>6. SectionFrom(lines, more[Len(more)]) \in 0..m
    BY <1>2, <1>6, <2>2
  <2> QED BY <1>2, <1>3, <1>4, <1>6, <2>2, <2>5, <2>6
<1> QED BY <1>5, <1>6

LEMMA OpenedOK ==
  ASSUME NEW lines, NEW s, NEW m \in Nat, NEW texts, SplitOK(lines, s, m, texts),
         NEW n \in Nat, m < n, NEW path \in Seq(LineNames), path = Path(lines[Max({1, n})])
  PROVE  SplitOK(lines, Opened(s, path), n, texts)
<1>1. PICK done \in Seq(Chunks) : done = Flushed(s)
  BY FlushedOK
<1>2. /\ Texts(done) = texts /\ ChunksOK(lines, done)
      /\ done # <<>> => SectionFrom(lines, done[Len(done)]) \in 0..m
  BY <1>1, FlushedOK
<1>3. PICK open \in Chunks : open = [path |-> path, lines |-> <<>>]
  BY EmptySeq DEF Chunks
<1>4. PICK t \in Splits : t = Opened(s, path) /\ t.done = done /\ t.open = open
  <2>1. Opened(s, path) = [done |-> done, open |-> open]
    BY <1>1, <1>3 DEF Opened
  <2>2. [done |-> done, open |-> open] \in Splits
    BY DEF Splits
  <2> QED BY <2>1, <2>2
<1>5. open.lines = <<>> /\ open.path = path
  BY <1>3
<1>6. Texts(done) \o open.lines = texts
  <2>1. Texts(done) \in Seq(LineNames)
    <3>1. [path |-> <<>>, lines |-> <<>>] \in Chunks
      BY EmptySeq DEF Chunks
    <3> QED BY <3>1, TextsIs
  <2> QED BY <1>2, <1>5, <2>1
<1>7. done # <<>> => After(lines, done[Len(done)], open, n)
  <2>1. ASSUME NEW c, SectionFrom(lines, c) \in 0..m PROVE After(lines, c, open, n)
    <3>1. PICK i \in 0..m : i = SectionFrom(lines, c)
      BY <2>1
    <3>2. i \in 0..n /\ i # n
      OBVIOUS
    <3> QED BY <1>5, <3>1, <3>2 DEF After
  <2> QED BY <1>2, <2>1
<1>8. SplitOK(lines, t, n, texts)
  BY <1>2, <1>4, <1>5, <1>6, <1>7 DEF SplitOK
<1> QED BY <1>4, <1>8

(* A line of the section goes to the open chunk or, if it does not fit, to *)
(* a new one.                                                              *)
Room(s, l) ==
  IF s.open.lines # <<>> /\ Length(s.open.lines) + 1 + Line(l).len > MaxChunk
    THEN Opened(s, s.open.path) ELSE s

LEMMA PlacedOK ==
  ASSUME NEW lines, NEW s, NEW m \in Nat, NEW texts \in Seq(LineNames),
         SplitOK(lines, s, m, texts), NEW l \in LineNames, SectionOf(lines, l) = m
  PROVE  SplitOK(lines, [Room(s, l) EXCEPT !.open.lines = Append(@, l)], m, Append(texts, l))
<1>1. PICK done \in Seq(Chunks), open \in Chunks : done = s.done /\ open = s.open
  BY DEF SplitOK, Splits
<1>2. /\ Texts(done) \o open.lines = texts /\ ChunksOK(lines, done)
      /\ open.path = Path(lines[Max({1, m})])
      /\ done # <<>> => After(lines, done[Len(done)], open, m)
      /\ open.lines # <<>> => ChunkOK(lines, open) /\ SectionFrom(lines, open) = m
      /\ s \in Splits
  BY <1>1 DEF SplitOK
<1>3. PICK old \in Seq(LineNames) : old = open.lines /\ open.path \in Seq(LineNames)
  BY DEF Chunks
<1>4. PICK long \in Nat, size \in Nat :
        /\ long = Length(old) /\ size = Line(l).len
        /\ Length(Append(old, l)) = long + (IF old = <<>> THEN 0 ELSE 1) + size
        /\ Length(Append(old, l)) \in Nat
  BY LengthIs, LinesAre
<1>5. MaxChunk \in Nat
  BY ReaderAssumption DEF ReaderAssumption
<1>6. Texts(done) \in Seq(LineNames)
  BY TextsIs
<1>7. CASE old # <<>> /\ long + 1 + size > MaxChunk
  <2>1. PICK more \in Seq(Chunks) : more = Flushed(s) /\ more = Append(done, open)
    BY <1>1, <1>3, <1>7, FlushedOK DEF Flushed
  <2>2. Texts(more) = texts /\ ChunksOK(lines, more)
    BY <2>1, FlushedOK
  <2>3. more # <<>> /\ more[Len(more)] = open
    <3>1. PICK N \in Nat : N = Len(done)
      OBVIOUS
    <3>2. Len(more) = N + 1 /\ more[N + 1] = open
      BY <2>1, <3>1, AppendKeeps
    <3> QED BY <3>1, <3>2, EmptySeq
  <2>4. PICK new \in Chunks : new = [path |-> open.path, lines |-> <<l>>]
    <3>1. <<l>> \in Seq(LineNames)
      OBVIOUS
    <3> QED BY <1>3, <3>1 DEF Chunks
  <2>5. new.lines = <<l>> /\ new.path = open.path /\ new.lines # <<>> /\ Len(new.lines) = 1
        /\ new.lines[1] = l
    BY <2>4
  <2>6. PICK t \in Splits : /\ t = [Room(s, l) EXCEPT !.open.lines = Append(@, l)]
                            /\ t.done = more /\ t.open = new
    <3>1. Room(s, l) = [done |-> more, open |-> [path |-> open.path, lines |-> <<>>]]
      BY <1>1, <1>3, <1>4, <1>7, <2>1 DEF Room, Opened
    <3>2. Append(<<>>, l) = <<l>>
      OBVIOUS
    <3>3. [done |-> more, open |-> new] = [Room(s, l) EXCEPT !.open.lines = Append(@, l)]
      BY <2>4, <3>1, <3>2
    <3>4. [done |-> more, open |-> new] \in Splits
      BY DEF Splits
    <3> QED BY <3>3, <3>4
  <2>7. Texts(more) \o new.lines = Append(texts, l)
    <3>1. texts \o <<l>> = Append(texts, l)
      OBVIOUS
    <3> QED BY <2>2, <2>5, <3>1
  <2>8. SectionFrom(lines, new) = m
    BY <2>5 DEF SectionFrom
  <2>9. ChunkOK(lines, new)
    <3>1. \A j \in 1..Len(new.lines) : new.lines[j] = l
      BY <2>5
    <3> QED BY <1>2, <2>5, <2>8, <3>1 DEF ChunkOK
  <2>10. After(lines, open, new, m)
    <3>1. SectionFrom(lines, open) = m /\ m \in 0..m
      BY <1>2, <1>3, <1>7
    <3>2. Length(Append(open.lines, new.lines[1])) > MaxChunk
      BY <1>3, <1>4, <1>7, <2>5
    <3> QED BY <2>5, <3>1, <3>2 DEF After, Needed
  <2>11. SplitOK(lines, t, m, Append(texts, l))
    BY <1>2, <2>2, <2>3, <2>5, <2>6, <2>7, <2>8, <2>9, <2>10 DEF SplitOK
  <2> QED BY <2>6, <2>11
<1>8. CASE ~(old # <<>> /\ long + 1 + size > MaxChunk)
  <2>1. PICK now \in Seq(LineNames) :
          /\ now = Append(old, l) /\ now # <<>> /\ Len(now) = Len(old) + 1
          /\ now[Len(old) + 1] = l /\ Len(old) \in Nat
          /\ \A j \in 1..Len(old) : now[j] = old[j]
    <3>1. Append(old, l) # <<>>
      OBVIOUS
    <3>2. /\ Append(old, l) \in Seq(LineNames) /\ Len(Append(old, l)) = Len(old) + 1
          /\ \A j \in 1..Len(old) : Append(old, l)[j] = old[j]
          /\ Append(old, l)[Len(old) + 1] = l /\ Len(old) \in Nat
      BY AppendKeeps
    <3> QED BY <3>1, <3>2
  <2>2. PICK new \in Chunks : new = [path |-> open.path, lines |-> now]
    BY <1>3 DEF Chunks
  <2>3. new.lines = now /\ new.path = open.path
    BY <2>2
  <2>4. PICK t \in Splits : /\ t = [Room(s, l) EXCEPT !.open.lines = Append(@, l)]
                            /\ t.done = done /\ t.open = new
    <3>1. Room(s, l) = s
      BY <1>1, <1>3, <1>4, <1>8 DEF Room
    <3>2. s = [done |-> done, open |-> open] /\ open = [path |-> open.path, lines |-> old]
      BY <1>1, <1>2, <1>3 DEF Splits, Chunks
    <3>3. [done |-> done, open |-> new] = [s EXCEPT !.open.lines = Append(@, l)]
      <4>1. s.open.lines = old
        BY <1>1, <1>3
      <4>2. [s EXCEPT !.open.lines = now] = [done |-> done, open |-> [open EXCEPT !.lines = now]]
        BY <1>1, <3>2
      <4>3. [open EXCEPT !.lines = now] = new
        BY <2>2, <3>2
      <4> QED BY <2>1, <4>1, <4>2, <4>3
    <3>4. [done |-> done, open |-> new] \in Splits
      BY DEF Splits
    <3> QED BY <3>1, <3>3, <3>4
  <2>5. Texts(done) \o new.lines = Append(texts, l)
    <3>1. PICK a \in Seq(LineNames) : a = Texts(done)
      BY <1>6
    <3>2. a \o Append(old, l) = Append(a \o old, l)
      OBVIOUS
    <3> QED BY <1>2, <1>3, <2>1, <2>3, <3>1, <3>2
  <2>6. CASE old = <<>>
    <3>1. Len(now) = 1 /\ now[1] = l
      BY <2>1, <2>6
    <3>2. SectionFrom(lines, new) = m
      BY <2>3, <3>1 DEF SectionFrom
    <3>3. ChunkOK(lines, new)
      <4>1. \A j \in 1..Len(now) : now[j] = l
        BY <3>1
      <4> QED BY <1>2, <2>1, <2>3, <3>1, <3>2, <4>1 DEF ChunkOK
    <3>4. done # <<>> => After(lines, done[Len(done)], new, m)
      BY <1>2, <1>3, <2>1, <2>3, <2>6, <3>2 DEF After, Needed
    <3> QED BY <1>2, <2>3, <2>4, <2>5, <3>2, <3>3, <3>4 DEF SplitOK
  <2>7. CASE old # <<>>
    <3>1. Len(old) \in Nat /\ 1 \in 1..Len(old) /\ now[1] = old[1]
      <4>1. Len(old) # 0
        BY <2>7, EmptySeq
      <4> QED BY <2>1, <4>1
    <3>2. SectionFrom(lines, new) = SectionFrom(lines, open) /\ SectionFrom(lines, open) = m
      BY <1>2, <1>3, <2>3, <2>7, <3>1 DEF SectionFrom
    <3>3. ChunkOK(lines, new)
      <4>1. \A j \in 1..Len(now) : SectionOf(lines, now[j]) = m
        <5>1. \A j \in 1..Len(now) : j \in 1..Len(old) \/ j = Len(old) + 1
          BY <2>1
        <5>2. \A j \in 1..Len(old) : SectionOf(lines, old[j]) = m
          BY <1>2, <1>3, <2>7, <3>2 DEF ChunkOK
        <5> QED BY <2>1, <5>1, <5>2
      <4>2. Length(now) <= MaxChunk
        BY <1>4, <1>5, <1>8, <2>1, <2>7
      <4> QED BY <1>2, <2>1, <2>3, <3>2, <4>1, <4>2 DEF ChunkOK
    <3>4. done # <<>> => After(lines, done[Len(done)], new, m)
      BY <1>2, <1>3, <2>1, <2>3, <2>7, <3>1, <3>2 DEF After, Needed
    <3> QED BY <1>2, <2>3, <2>4, <2>5, <3>2, <3>3, <3>4 DEF SplitOK
  <2> QED BY <2>6, <2>7
<1> QED BY <1>7, <1>8

(* Lines that differ from each other.                                      *)
Distinct(s) == \A i, j \in 1..Len(s) : s[i] = s[j] => i = j

LEMMA OwnLinesAre ==
  ASSUME NEW blocks \in Seq(DOMAIN Lines), Distinct(blocks)
  PROVE  /\ OwnLines(blocks) \in Seq(LineNames) /\ Distinct(OwnLines(blocks))
         /\ FlattenSeq([k \in DOMAIN blocks |-> BlockLines(blocks[k])]) = OwnLines(blocks)
<1>1. PICK N \in Nat : N = Len(blocks) /\ DOMAIN blocks = 1..N
  OBVIOUS
<1>2. \A k \in 1..N : blocks[k] \in DOMAIN Lines
  BY <1>1
<1>3. \A b \in DOMAIN Lines : Kept(LinesOf(b), Own(b)) \in Seq(LineNames)
  BY LinesAre, KeptEnum
<1>4. PICK own : \A b \in DOMAIN Lines : /\ own[b] = Kept(LinesOf(b), Own(b))
                                         /\ own[b] \in Seq(LineNames)
  <2>1. \A b \in DOMAIN Lines :
          [c \in DOMAIN Lines |-> Kept(LinesOf(c), Own(c))][b] = Kept(LinesOf(b), Own(b))
    OBVIOUS
  <2> QED BY <1>3, <2>1
<1>5. PICK ss \in Seq(Seq(LineNames)) :
        Len(ss) = N /\ ss = [k \in 1..N |-> own[blocks[k]]]
  <2>1. \A k \in 1..N : own[blocks[k]] \in Seq(LineNames)
    BY <1>2, <1>4
  <2>2. [k \in 1..N |-> own[blocks[k]]] \in Seq(Seq(LineNames))
    BY <2>1, IsASeq
  <2>3. Len([k \in 1..N |-> own[blocks[k]]]) = N
    OBVIOUS
  <2> QED BY <2>2, <2>3
<1>6. OwnLines(blocks) = FlattenSeq(ss)
  <2>1. ss = [k \in DOMAIN blocks |-> Kept(LinesOf(blocks[k]), Own(blocks[k]))]
    BY <1>1, <1>2, <1>4, <1>5
  <2> QED BY <2>1 DEF OwnLines
<1>7. [k \in DOMAIN blocks |-> BlockLines(blocks[k])]
        = [k \in DOMAIN blocks |-> Kept(LinesOf(blocks[k]), Own(blocks[k]))]
  BY <1>1, <1>2, BlockLinesAre
<1>8. FlattenSeq(ss) \in Seq(LineNames)
  BY FlattenTyped
<1>9. PICK starts : Starts(starts, ss)
  BY FlattenPlaces
<1>10. PICK flat \in Seq(LineNames), n \in Nat : flat = FlattenSeq(ss) /\ n = Len(flat)
  BY <1>8
<1>11. /\ \A q \in 1..N : \A k \in 1..Len(ss[q]) : flat[starts[q - 1] + k] = ss[q][k]
       /\ \A i \in 1..n : \E q \in 1..N : \E k \in 1..Len(ss[q]) : i = starts[q - 1] + k
  BY <1>5, <1>9, <1>10 DEF Starts
<1>12. ASSUME NEW q \in 1..N
       PROVE  \A k, m \in 1..Len(ss[q]) :
                ss[q][k][1] = blocks[q] /\ (ss[q][k] = ss[q][m] => k = m)
  <2>1. PICK b \in DOMAIN Lines, all \in Seq(LineNames) :
          b = blocks[q] /\ all = LinesOf(b) /\ ss[q] = Kept(all, Own(b))
    BY <1>2, <1>4, <1>5, LinesAre
  <2>2. /\ Len(all) = Len(Lines[b]) /\ \A i \in 1..Len(all) : all[i] = <<b, i>>
    BY <2>1, LinesAre
  <2>3. \A i, j \in Own(b) \cap (1..Len(all)) : all[i] = all[j] => i = j
    BY <2>2
  <2>4. \A k, m \in 1..Len(Kept(all, Own(b))) :
          Kept(all, Own(b))[k] = Kept(all, Own(b))[m] => k = m
    BY <2>3, KeptApart
  <2>5. ASSUME NEW k \in 1..Len(Kept(all, Own(b)))
        PROVE  Kept(all, Own(b))[k][1] = b
    <3>1. Enumerates(all, Own(b), Len(all), Kept(all, Own(b)))
      BY KeptEnum
    <3>2. PICK i \in 1..Len(all) : Kept(all, Own(b))[k] = all[i]
      BY <3>1 DEF Enumerates
    <3> QED BY <2>2, <3>2
  <2> QED BY <2>1, <2>4, <2>5
<1>13. ASSUME NEW i \in 1..n, NEW j \in 1..n, flat[i] = flat[j] PROVE i = j
  <2>1. PICK q \in 1..N : \E k \in 1..Len(ss[q]) : i = starts[q - 1] + k
    BY <1>11
  <2>2. PICK k \in 1..Len(ss[q]) : i = starts[q - 1] + k
    BY <2>1
  <2>3. PICK t \in 1..N : \E m \in 1..Len(ss[t]) : j = starts[t - 1] + m
    BY <1>11
  <2>4. PICK m \in 1..Len(ss[t]) : j = starts[t - 1] + m
    BY <2>3
  <2>5. ss[q][k] = ss[t][m]
    BY <1>11, <1>13, <2>2, <2>4
  <2>6. blocks[q] = blocks[t]
    <3>1. \A a \in 1..Len(ss[q]) : ss[q][a][1] = blocks[q]
      BY <1>12
    <3>2. \A a \in 1..Len(ss[t]) : ss[t][a][1] = blocks[t]
      BY <1>12
    <3> QED BY <2>5, <3>1, <3>2
  <2>7. q = t
    BY <1>1, <2>6 DEF Distinct
  <2>8. k = m
    BY <1>12, <2>5, <2>7
  <2> QED BY <2>2, <2>4, <2>7, <2>8
<1>14. Distinct(flat)
  BY <1>10, <1>13 DEF Distinct
<1>15. FlattenSeq([k \in DOMAIN blocks |-> BlockLines(blocks[k])]) = OwnLines(blocks)
  BY <1>7 DEF OwnLines
<1> QED BY <1>6, <1>8, <1>10, <1>14, <1>15

SectionAt(lines, n) == Max({0} \cup {i \in 1..n : Line(lines[i]).type \in Boundaries})

LEMMA SectionIs ==
  ASSUME NEW lines \in Seq(LineNames), NEW n \in Nat
  PROVE  /\ SectionAt(lines, 0) = 0 /\ SectionAt(lines, n) \in 0..n
         /\ SectionAt(lines, n + 1) = IF Line(lines[n + 1]).type \in Boundaries THEN n + 1
                                      ELSE SectionAt(lines, n)
<1>1. PICK bounds \in SUBSET Nat :
        \A i \in Nat : i \in bounds <=> Line(lines[i]).type \in Boundaries
  <2>1. PICK B \in SUBSET Nat : B = {i \in Nat : Line(lines[i]).type \in Boundaries}
    OBVIOUS
  <2> QED BY <2>1
<1>2. \A i \in Nat : SectionAt(lines, i) = Max({0} \cup (bounds \cap (1..i)))
  <2>1. ASSUME NEW i \in Nat
        PROVE  {j \in 1..i : Line(lines[j]).type \in Boundaries} = bounds \cap (1..i)
    BY <1>1
  <2> QED BY <2>1 DEF SectionAt
<1>3. ASSUME NEW T \in SUBSET Nat, NEW m \in T, \A i \in T : i <= m PROVE Max(T) = m
  <2>1. \A j \in T : (\A i \in T : j >= i) => j = m
    BY <1>3
  <2>2. m \in T /\ \A i \in T : m >= i
    BY <1>3
  <2> QED BY <2>1, <2>2 DEF Max
<1>4. ASSUME NEW T \in SUBSET Nat, NEW m \in T, \A i \in T : i <= m, NEW k \in Nat, m < k
      PROVE  Max(T \cup {k}) = k
  <2>1. \A i \in T \cup {k} : i \in Nat /\ i <= k
    BY <1>4
  <2> QED BY <1>3, <2>1
<1>5. PICK top : \A i \in Nat : top[i] = {0} \cup (bounds \cap (1..i))
  <2>1. PICK f : f = [i \in Nat |-> {0} \cup (bounds \cap (1..i))]
    OBVIOUS
  <2> QED BY <2>1
<1>6. /\ top[0] = {0}
      /\ \A i \in Nat : top[i] \in SUBSET Nat
      /\ \A i \in Nat : top[i + 1] = IF i + 1 \in bounds THEN top[i] \cup {i + 1} ELSE top[i]
  <2>1. top[0] = {0}
    BY <1>5
  <2>2. ASSUME NEW i \in Nat PROVE top[i] \in SUBSET Nat
    BY <1>5
  <2>3. ASSUME NEW i \in Nat
        PROVE  top[i + 1] = IF i + 1 \in bounds THEN top[i] \cup {i + 1} ELSE top[i]
    <3>1. \A j \in Nat : j \in 1..i + 1 <=> j \in 1..i \/ j = i + 1
      OBVIOUS
    <3>2. i + 1 \in Nat
      OBVIOUS
    <3>3. top[i] = {0} \cup (bounds \cap (1..i)) /\ top[i + 1] = {0} \cup (bounds \cap (1..(i + 1)))
      BY <1>5, <3>2
    <3>4. \A j : j \in bounds \cap (1..(i + 1))
                <=> j \in bounds \cap (1..i) \/ (j = i + 1 /\ j \in bounds)
      BY <3>1, <3>2
    <3> QED BY <3>3, <3>4
  <2> QED BY <2>1, <2>2, <2>3
<1>7. \A i \in Nat : SectionAt(lines, i) = Max(top[i])
  BY <1>2, <1>5
<1>8. SectionAt(lines, 0) = 0
  <2>1. Max({0}) = 0
    BY <1>3
  <2> QED BY <1>6, <1>7, <2>1
<1> DEFINE U == {i \in 0..n : \E m \in 0..i : m \in top[i] /\ \A j \in top[i] : j <= m}
<1>9. 0 \in U
  <2>1. 0 \in 0..n /\ 0 \in 0..0 /\ \A j \in top[0] : j <= 0
    BY <1>6
  <2> QED BY <1>6, <2>1
<1>10. ASSUME NEW i \in 0..n, i < n, i \in U PROVE i + 1 \in U
  <2>1. PICK m \in 0..i : m \in top[i] /\ \A j \in top[i] : j <= m
    BY <1>10
  <2>2. i \in Nat /\ i + 1 \in 0..n /\ m \in 0..i + 1 /\ i + 1 \in 0..i + 1
    BY <1>10
  <2>3. CASE i + 1 \in bounds
    <3>1. top[i + 1] = top[i] \cup {i + 1}
      BY <1>6, <2>2, <2>3
    <3>2. \A j \in top[i + 1] : j <= i + 1
      BY <1>6, <2>1, <2>2, <3>1
    <3>3. i + 1 \in top[i + 1]
      BY <3>1
    <3> QED BY <2>2, <3>2, <3>3
  <2>4. CASE i + 1 \notin bounds
    <3>1. top[i + 1] = top[i]
      BY <1>6, <2>2, <2>4
    <3> QED BY <2>1, <2>2, <3>1
  <2> QED BY <2>3, <2>4
<1> HIDE DEF U
<1>11. 0..n \subseteq U
  BY <1>9, <1>10, UpTo
<1>12. PICK m \in 0..n : m \in top[n] /\ \A j \in top[n] : j <= m
  BY <1>11 DEF U
<1>13. SectionAt(lines, n) = m
  BY <1>3, <1>6, <1>7, <1>12
<1>14. SectionAt(lines, n + 1) = IF n + 1 \in bounds THEN n + 1 ELSE m
  <2>1. n + 1 \in Nat /\ m < n + 1
    OBVIOUS
  <2>2. CASE n + 1 \in bounds
    <3>1. Max(top[n] \cup {n + 1}) = n + 1
      BY <1>4, <1>6, <1>12, <2>1
    <3> QED BY <1>6, <1>7, <2>1, <2>2, <3>1
  <2>3. CASE n + 1 \notin bounds
    BY <1>6, <1>7, <1>13, <2>1, <2>3
  <2> QED BY <2>2, <2>3
<1> QED BY <1>1, <1>8, <1>13, <1>14

LEMMA SectionOfPlace ==
  ASSUME NEW lines, Distinct(lines), DOMAIN lines = 1..Len(lines), NEW n \in 1..Len(lines)
  PROVE  SectionOf(lines, lines[n]) = SectionAt(lines, n)
<1>1. (CHOOSE i \in DOMAIN lines : lines[i] = lines[n]) = n
  BY DEF Distinct
<1> QED BY <1>1 DEF SectionOf, SectionAt

LEMMA PlaceTyped ==
  ASSUME NEW s \in Splits, NEW l \in LineNames
  PROVE  /\ s.done \in Seq(Chunks) /\ s.open \in Chunks /\ s.open.path \in Seq(LineNames)
         /\ Place(s, l) \in Splits
<1>1. PICK done \in Seq(Chunks), open \in Chunks : done = s.done /\ open = s.open
  BY DEF Splits
<1>2. ASSUME NEW t \in Splits, NEW path \in Seq(LineNames) PROVE Opened(t, path) \in Splits
  <2>1. PICK td \in Seq(Chunks), to \in Chunks : td = t.done /\ to = t.open
    BY DEF Splits
  <2>2. Flushed(t) = IF to.lines = <<>> THEN td ELSE Append(td, to)
    BY <2>1 DEF Flushed
  <2>3. Append(td, to) \in Seq(Chunks)
    OBVIOUS
  <2>4. [path |-> path, lines |-> <<>>] \in Chunks
    BY EmptySeq DEF Chunks
  <2> QED BY <2>2, <2>3, <2>4 DEF Opened, Splits
<1>3. ASSUME NEW t \in Splits PROVE t.open.path \in Seq(LineNames) /\ t.open \in Chunks
  BY DEF Splits, Chunks
<1>4. ASSUME NEW t \in Splits PROVE Room(t, l) \in Splits
  BY <1>2, <1>3 DEF Room
<1>5. ASSUME NEW t \in Splits PROVE [t EXCEPT !.open.lines = Append(@, l)] \in Splits
  <2>1. PICK to \in Chunks, old \in Seq(LineNames) : to = t.open /\ old = to.lines
    BY <1>3 DEF Chunks
  <2>2. PICK now \in Seq(LineNames) : now = Append(old, l)
    BY <2>1, AppendKeeps
  <2>3. [to EXCEPT !.lines = now] \in Chunks
    BY DEF Chunks
  <2>4. [t EXCEPT !.open.lines = Append(@, l)] = [t EXCEPT !.open = [to EXCEPT !.lines = now]]
    BY <2>1, <2>2 DEF Splits
  <2>5. \A c \in Chunks : [t EXCEPT !.open = c] \in Splits
    BY DEF Splits
  <2> QED BY <2>3, <2>4, <2>5
<1>6. PICK here \in Splits :
        here = IF Line(l).type \in Boundaries THEN Opened(s, Path(l)) ELSE s
  BY <1>2, PathTyped
<1>7. Place(s, l) = IF Line(l).len = 0 THEN here ELSE [Room(here, l) EXCEPT !.open.lines = Append(@, l)]
  BY <1>6 DEF Place, Room
<1> QED BY <1>1, <1>3, <1>4, <1>5, <1>6, <1>7

(* One line more is placed.                                                *)
LEMMA PlaceOK ==
  ASSUME NEW lines \in Seq(LineNames), Distinct(lines), NEW n \in 1..Len(lines),
         NEW s, NEW texts \in Seq(LineNames), SplitOK(lines, s, SectionAt(lines, n - 1), texts)
  PROVE  SplitOK(lines, Place(s, lines[n]), SectionAt(lines, n),
                 IF Line(lines[n]).len > 0 THEN Append(texts, lines[n]) ELSE texts)
<1>1. PICK p \in Nat : p = n - 1 /\ n = p + 1
  OBVIOUS
<1>2. PICK m \in 0..p : m = SectionAt(lines, p)
  BY <1>1, SectionIs
<1>3. PICK l \in LineNames : l = lines[n] /\ Line(l).len \in Nat
  BY LinesAre
<1>4. SectionAt(lines, n) = IF Line(l).type \in Boundaries THEN n ELSE m
  BY <1>1, <1>2, <1>3, SectionIs
<1>5. PICK q \in Nat : q = SectionAt(lines, n) /\ SectionOf(lines, l) = q
  <2>1. DOMAIN lines = 1..Len(lines)
    OBVIOUS
  <2>2. SectionOf(lines, lines[n]) = SectionAt(lines, n)
    BY <2>1, SectionOfPlace
  <2> QED BY <1>1, <1>2, <1>3, <1>4, <2>2
<1>6. PICK here : here = IF Line(l).type \in Boundaries THEN Opened(s, Path(l)) ELSE s
  OBVIOUS
<1>7. SplitOK(lines, here, q, texts)
  <2>1. SplitOK(lines, s, m, texts)
    BY <1>1, <1>2
  <2>2. CASE Line(l).type \in Boundaries
    <3>1. Max({1, n}) = n
      <4>1. \A j \in {1, n} : (\A i \in {1, n} : j >= i) => j = n
        OBVIOUS
      <4>2. n \in {1, n} /\ \A i \in {1, n} : n >= i
        OBVIOUS
      <4> QED BY <4>1, <4>2 DEF Max
    <3>2. PICK path \in Seq(LineNames) : path = Path(l) /\ path = Path(lines[Max({1, n})])
      BY <1>3, <3>1, PathTyped
    <3>3. m \in Nat /\ n \in Nat /\ m < n
      BY <1>1, <1>2
    <3>4. SplitOK(lines, Opened(s, path), n, texts)
      BY <2>1, <3>2, <3>3, OpenedOK
    <3> QED BY <1>4, <1>5, <1>6, <2>2, <3>2, <3>4
  <2>3. CASE Line(l).type \notin Boundaries
    BY <1>4, <1>5, <1>6, <2>1, <2>3
  <2> QED BY <2>2, <2>3
<1>8. Place(s, l) = IF Line(l).len = 0 THEN here ELSE [Room(here, l) EXCEPT !.open.lines = Append(@, l)]
  BY <1>6 DEF Place, Room
<1>9. CASE Line(l).len = 0
  <2>1. ~(Line(l).len > 0)
    BY <1>9
  <2> QED BY <1>3, <1>5, <1>7, <1>8, <1>9, <2>1
<1>10. CASE Line(l).len # 0
  <2>1. Line(l).len > 0
    BY <1>3, <1>10
  <2>2. SplitOK(lines, [Room(here, l) EXCEPT !.open.lines = Append(@, l)], q, Append(texts, l))
    BY <1>5, <1>7, PlacedOK
  <2> QED BY <1>3, <1>5, <1>8, <1>10, <2>1, <2>2
<1> QED BY <1>9, <1>10

(* The chunks of a list of lines, as ChunksOf makes them.                  *)
ChunksIn(lines) ==
  LET first == IF lines = <<>> THEN <<>> ELSE Path(lines[1])
      split[n \in 0..Len(lines)] ==
        IF n = 0 THEN [done |-> <<>>, open |-> [path |-> first, lines |-> <<>>]]
        ELSE Place(split[n - 1], lines[n])
  IN  Flushed(split[Len(lines)])

LEMMA ChunksInAre ==
  ASSUME NEW lines \in Seq(LineNames), NEW start \in Splits,
         start = [done |-> <<>>,
                  open |-> [path |-> IF lines = <<>> THEN <<>> ELSE Path(lines[1]), lines |-> <<>>]]
  PROVE  \E w : /\ w[0] = start
                /\ \A n \in 1..Len(lines) : w[n] = Place(w[n - 1], lines[n])
                /\ ChunksIn(lines) = Flushed(w[Len(lines)])
<1>1. PICK N \in Nat : N = Len(lines) /\ DOMAIN lines = 1..N
  OBVIOUS
<1> DEFINE V == Splits
           Body(f) == [n \in 0..N |-> IF n = 0 THEN start ELSE Place(f[n - 1], lines[n])]
           step == [x \in (1..N) \X V |-> Place(x[2], lines[x[1]])]
           w == CHOOSE f : f = Body(f)
<1>2. \A i \in 1..N, v \in V : Place(v, lines[i]) \in V
  BY <1>1, PlaceTyped
<1>3. step \in Steps(N, V)
  <2> HIDE DEF V
  <2> QED BY <1>2 DEF Steps
<1>4. \A i \in 1..N, v \in V : step[<<i, v>>] = Place(v, lines[i])
  <2> HIDE DEF V
  <2> QED OBVIOUS
<1>5. ChunksIn(lines) = Flushed(w[N])
  BY <1>1 DEF ChunksIn
<1> HIDE DEF step, w
<1>6. PICK f : Follows(f, N, V, start, step)
  BY <1>1, <1>3, Recursion
<1> HIDE DEF V
<1>7. ASSUME NEW i \in 0..N PROVE f[i] = Body(f)[i]
  <2>1. CASE i = 0
    BY <1>6, <2>1 DEF Follows
  <2>2. CASE i # 0
    <3>0. PICK j \in 0..N : j = i - 1 /\ i \in 1..N
      BY <1>1, <2>2
    <3>1. i \in 1..N /\ i - 1 \in 0..N /\ f[i - 1] \in V
      BY <1>6, <3>0 DEF Follows
    <3>2. f[i] = step[<<i, f[i - 1]>>]
      BY <1>6, <3>1 DEF Follows
    <3> QED BY <1>4, <2>2, <3>1, <3>2
  <2> QED BY <2>1, <2>2
<1>8. f = Body(f)
  BY <1>6, <1>7 DEF Follows
<1>9. w = Body(w)
  <2> HIDE DEF Body
  <2> QED BY <1>8 DEF w
<1>10. w[0] = start
  <2>1. 0 \in 0..N
    BY <1>1
  <2>2. Body(w)[0] = start
    BY <2>1
  <2> QED BY <1>9, <2>2
<1>11. ASSUME NEW i \in 1..N PROVE w[i] = Place(w[i - 1], lines[i])
  <2>1. i \in 0..N /\ i # 0
    BY <1>1
  <2>2. Body(w)[i] = Place(w[i - 1], lines[i])
    BY <2>1
  <2> QED BY <1>9, <2>2
<1> HIDE DEF Body
<1> QED BY <1>1, <1>5, <1>10, <1>11

(* The chunks of some lines that differ from each other are those with a   *)
(* text, in order, split as they should be.                                *)
LEMMA ChunksInTrue ==
  ASSUME NEW lines \in Seq(LineNames), Distinct(lines)
  PROVE  /\ ChunksIn(lines) \in Seq(Chunks)
         /\ Texts(ChunksIn(lines)) = Kept(lines, {i \in DOMAIN lines : Line(lines[i]).len > 0})
         /\ ChunksOK(lines, ChunksIn(lines))
<1>1. PICK N \in Nat : N = Len(lines) /\ DOMAIN lines = 1..N
  OBVIOUS
<1>2. PICK first \in Seq(LineNames) : first = IF lines = <<>> THEN <<>> ELSE Path(lines[1])
  <2>1. CASE lines = <<>>
    BY <2>1, EmptySeq
  <2>2. CASE lines # <<>>
    <3>1. lines[1] \in LineNames
      BY <2>2, <1>1, EmptySeq
    <3> QED BY <2>2, <3>1, PathTyped
  <2> QED BY <2>1, <2>2
<1>3. PICK open \in Chunks : open = [path |-> first, lines |-> <<>>]
  BY EmptySeq DEF Chunks
<1>4. PICK start \in Splits : start = [done |-> <<>>, open |-> open]
  BY EmptySeq DEF Splits
<1>5. PICK w : /\ w[0] = start
               /\ \A n \in 1..N : w[n] = Place(w[n - 1], lines[n])
               /\ ChunksIn(lines) = Flushed(w[N])
  <2>1. start = [done |-> <<>>,
                 open |-> [path |-> IF lines = <<>> THEN <<>> ELSE Path(lines[1]), lines |-> <<>>]]
    BY <1>2, <1>3, <1>4
  <2>2. \E w : /\ w[0] = start
               /\ \A n \in 1..Len(lines) : w[n] = Place(w[n - 1], lines[n])
               /\ ChunksIn(lines) = Flushed(w[Len(lines)])
    BY <2>1, ChunksInAre
  <2> QED BY <1>1, <2>2
<1>6. PICK texts : texts = {i \in DOMAIN lines : Line(lines[i]).len > 0}
  OBVIOUS
<1>7. PICK kept \in [0..Len(lines) -> Seq(LineNames)] : Keeps(kept, lines, texts)
  BY KeptIs
<1>8. /\ kept[0] = <<>> /\ Kept(lines, texts) = kept[N]
      /\ \A n \in 1..N : kept[n] = IF n \in texts THEN Append(kept[n - 1], lines[n]) ELSE kept[n - 1]
      /\ \A n \in 0..N : kept[n] \in Seq(LineNames)
  BY <1>1, <1>7 DEF Keeps
<1>9. CASE lines = <<>>
  <2>1. N = 0
    BY <1>1, <1>9
  <2>2. ChunksIn(lines) = <<>>
    BY <1>3, <1>4, <1>5, <2>1 DEF Flushed
  <2>3. ChunksOK(lines, <<>>)
    <3>1. Len(<<>>) = 0 /\ 1..0 = {} /\ 2..0 = {}
      OBVIOUS
    <3> QED BY <3>1 DEF ChunksOK
  <2> QED BY <1>6, <1>8, <2>1, <2>2, <2>3, TextsIs, EmptySeq
<1>10. CASE lines # <<>>
  <2> DEFINE U == {n \in 0..N : SplitOK(lines, w[n], SectionAt(lines, n), kept[n])}
  <2>1. 0 \in U
    <3>1. SectionAt(lines, 0) = 0
      <4>1. 0 \in Nat
        OBVIOUS
      <4> QED BY <4>1, SectionIs
    <3>2. open.path = Path(lines[Max({1, 0})]) /\ open.lines = <<>>
      <4>1. Max({1, 0}) = 1
        <5>1. \A j \in {1, 0} : (\A i \in {1, 0} : j >= i) => j = 1
          OBVIOUS
        <5>2. 1 \in {1, 0} /\ \A i \in {1, 0} : 1 >= i
          OBVIOUS
        <5> QED BY <5>1, <5>2 DEF Max
      <4> QED BY <1>2, <1>3, <1>10, <4>1
    <3>3. start.done = <<>> /\ start.open = open
      BY <1>4
    <3>4. Texts(<<>>) \o <<>> = <<>>
      BY TextsIs
    <3>5. ChunksOK(lines, <<>>)
      <4>1. Len(<<>>) = 0 /\ 1..0 = {} /\ 2..0 = {}
        OBVIOUS
      <4> QED BY <4>1 DEF ChunksOK
    <3>6. SplitOK(lines, start, 0, <<>>)
      BY <3>2, <3>3, <3>4, <3>5 DEF SplitOK
    <3>7. 0 \in 0..N
      BY <1>1
    <3> QED BY <1>5, <1>8, <3>1, <3>6, <3>7
  <2>2. ASSUME NEW n \in 0..N, n < N, n \in U PROVE n + 1 \in U
    <3>1. PICK k \in 1..N : k = n + 1 /\ k - 1 = n /\ k \in 1..Len(lines) /\ k \in 0..N
      BY <1>1, <2>2
    <3>2. SplitOK(lines, w[n], SectionAt(lines, k - 1), kept[n])
      BY <2>2, <3>1
    <3>3. PICK now \in Seq(LineNames) : now = kept[n]
      BY <1>8
    <3>4. SplitOK(lines, Place(w[n], lines[k]), SectionAt(lines, k),
                  IF Line(lines[k]).len > 0 THEN Append(now, lines[k]) ELSE now)
      BY <3>1, <3>2, <3>3, PlaceOK
    <3>5. kept[k] = IF Line(lines[k]).len > 0 THEN Append(now, lines[k]) ELSE now
      BY <1>1, <1>6, <1>8, <3>1, <3>3
    <3>6. w[k] = Place(w[n], lines[k])
      BY <1>5, <3>1
    <3>7. SplitOK(lines, w[k], SectionAt(lines, k), kept[k])
      BY <3>4, <3>5, <3>6
    <3>8. k \in U
      BY <3>1, <3>7
    <3> QED BY <3>1, <3>8
  <2> HIDE DEF U
  <2>3. 0..N \subseteq U
    BY <1>1, <2>1, <2>2, UpTo
  <2>4. SplitOK(lines, w[N], SectionAt(lines, N), kept[N])
    BY <1>1, <2>3 DEF U
  <2>5. SectionAt(lines, N) \in Nat
    <3>1. SectionAt(lines, N) \in 0..N
      BY <1>1, SectionIs
    <3> QED BY <1>1, <3>1
  <2>6. PICK m \in Nat : m = SectionAt(lines, N)
    BY <2>5
  <2>9. PICK s : s = w[N]
    OBVIOUS
  <2>7. SplitOK(lines, s, m, kept[N])
    BY <2>4, <2>6, <2>9
  <2>8. /\ Flushed(s) \in Seq(Chunks) /\ Texts(Flushed(s)) = kept[N]
        /\ ChunksOK(lines, Flushed(s))
    BY <2>7, FlushedOK
  <2> QED BY <1>5, <1>6, <1>8, <2>8, <2>9
<1> QED BY <1>9, <1>10

LEMMA ChunksAreTrue ==
  ASSUME NEW blocks \in Seq(DOMAIN Lines), Distinct(blocks)
  PROVE  ChunksTrue(blocks)
<1>1. PICK lines \in Seq(LineNames) :
        /\ lines = OwnLines(blocks) /\ Distinct(lines)
        /\ FlattenSeq([k \in DOMAIN blocks |-> BlockLines(blocks[k])]) = lines
  BY OwnLinesAre
<1>2. ChunksOf(blocks) = ChunksIn(lines)
  BY <1>1 DEF ChunksOf, ChunksIn
<1>3. PICK chunked \in Seq(Chunks) :
        /\ chunked = ChunksOf(blocks) /\ ChunksOK(lines, chunked)
        /\ Texts(chunked) = Kept(lines, {i \in DOMAIN lines : Line(lines[i]).len > 0})
  BY <1>1, <1>2, ChunksInTrue
<1>4. PICK K \in Nat : K = Len(chunked) /\ DOMAIN chunked = 1..K
  OBVIOUS
<1>5. PICK section : section = [k \in DOMAIN chunked |-> SectionOf(lines, chunked[k].lines[1])]
  OBVIOUS
<1>6. \A k \in 1..K : section[k] = SectionFrom(lines, chunked[k])
  BY <1>4, <1>5 DEF SectionFrom
<1>7. ASSUME NEW k \in 1..K
      PROVE  /\ chunked[k].lines # <<>>
             /\ Length(chunked[k].lines) <= MaxChunk \/ Len(chunked[k].lines) = 1
             /\ \A l \in ToSet(chunked[k].lines) : SectionOf(lines, l) = section[k]
             /\ chunked[k].path = Path(lines[Max({1, section[k]})])
             /\ k > 1 /\ section[k] = section[k - 1] =>
                  Length(Append(chunked[k - 1].lines, chunked[k].lines[1])) > MaxChunk
  <2>1. ChunkOK(lines, chunked[k]) /\ chunked[k] \in Chunks
    BY <1>3, <1>4 DEF ChunksOK
  <2>2. PICK its \in Seq(LineNames) : its = chunked[k].lines
    BY <2>1 DEF Chunks
  <2>3. \A l \in ToSet(its) : \E j \in 1..Len(its) : l = its[j]
    BY DEF ToSet
  <2>4. \A j \in 1..Len(its) : SectionOf(lines, its[j]) = section[k]
    BY <1>6, <2>1, <2>2 DEF ChunkOK
  <2>5. \A l \in ToSet(chunked[k].lines) : SectionOf(lines, l) = section[k]
    BY <2>2, <2>3, <2>4
  <2>6. k > 1 /\ section[k] = section[k - 1] =>
          Length(Append(chunked[k - 1].lines, chunked[k].lines[1])) > MaxChunk
    <3>1. SUFFICES ASSUME k > 1, section[k] = section[k - 1]
                   PROVE  Length(Append(chunked[k - 1].lines, chunked[k].lines[1])) > MaxChunk
      OBVIOUS
    <3>2. k \in 2..K /\ k - 1 \in 1..K
      BY <1>4, <3>1
    <3>3. Needed(lines, chunked[k - 1], chunked[k])
      BY <1>3, <1>4, <3>2 DEF ChunksOK
    <3> QED BY <1>6, <3>1, <3>2, <3>3 DEF Needed
  <2> QED BY <1>6, <2>1, <2>5, <2>6 DEF ChunkOK
<1>8. FlattenSeq([k \in DOMAIN chunked |-> chunked[k].lines])
        = Kept(lines, {i \in DOMAIN lines : Line(lines[i]).len > 0})
  BY <1>3 DEF Texts
<1>9. \A k \in DOMAIN chunked :
        /\ chunked[k].lines # <<>>
        /\ Length(chunked[k].lines) <= MaxChunk \/ Len(chunked[k].lines) = 1
        /\ \A l \in ToSet(chunked[k].lines) : SectionOf(lines, l) = section[k]
        /\ chunked[k].path = Path(lines[Max({1, section[k]})])
        /\ k > 1 /\ section[k] = section[k - 1] =>
             Length(Append(chunked[k - 1].lines, chunked[k].lines[1])) > MaxChunk
  BY <1>4, <1>7
<1> DEFINE all == ChunksOf(blocks)
           own == OwnLines(blocks)
           begins == [k \in DOMAIN all |-> SectionOf(own, all[k].lines[1])]
<1>10. all = chunked /\ own = lines /\ begins = section
  BY <1>1, <1>3, <1>5
<1> HIDE DEF all, own, begins
<1>11. FlattenSeq([k \in DOMAIN all |-> all[k].lines])
         = Kept(own, {i \in DOMAIN own : Line(own[i]).len > 0})
  BY <1>8, <1>10
<1>12. \A k \in DOMAIN all :
         /\ all[k].lines # <<>>
         /\ Length(all[k].lines) <= MaxChunk \/ Len(all[k].lines) = 1
         /\ \A l \in ToSet(all[k].lines) : SectionOf(own, l) = begins[k]
         /\ all[k].path = Path(own[Max({1, begins[k]})])
         /\ k > 1 /\ begins[k] = begins[k - 1] =>
              Length(Append(all[k - 1].lines, all[k].lines[1])) > MaxChunk
  BY <1>9, <1>10
<1> QED BY <1>11, <1>12 DEF ChunksTrue, all, own, begins

LEMMA ListingsAre ==
  ASSUME NEW p \in Pages, NEW blocks
  PROVE  Listing(p, blocks) \in Seq(DOMAIN Lines) /\ Distinct(Listing(p, blocks))
<1>1. PICK shows \in Seq(DOMAIN Lines) :
        shows = Layout[p] /\ \A i, j \in 1..Len(shows) : shows[i] = shows[j] => i = j
  BY ReaderAssumption DEF ReaderAssumption
<1>2. PICK places : Listing(p, blocks) = Kept(shows, places)
  BY <1>1 DEF Listing
<1>3. \A j, k \in places \cap (1..Len(shows)) : shows[j] = shows[k] => j = k
  BY <1>1
<1>4. \A i, j \in 1..Len(Kept(shows, places)) : Kept(shows, places)[i] = Kept(shows, places)[j] => i = j
  BY <1>3, KeptApart
<1>5. Kept(shows, places) \in Seq(DOMAIN Lines)
  BY KeptEnum
<1> QED BY <1>2, <1>4, <1>5 DEF Distinct

LEMMA AllAreChunked == AllChunked
BY ListingsAre, ChunksAreTrue DEF AllChunked

(***************************************************************************)
(* What is stored of a page, and found by retrieval, is its own text: the  *)
(* requests of one reading together find every block that was on the page  *)
(* all the while and none that never was, in the order of the page, and    *)
(* chunk_notion_page neither loses nor repeats a line of it.               *)
(***************************************************************************)
THEOREM TextIsKept == ReaderSpec => []TextKept
<1>1. ASSUME ReaderInv PROVE TextKept
  <2>1. ASSUME NEW r \in Runs, run[r].pc = "children", reader[r].next = 0
        PROVE  ToSet(reader[r].found) \cap Blocks \in
                 Between(notion[Page(r)], run[r].snapshot.version, Version(Page(r)))
    <3>1. PICK p \in Pages : p = Page(r)
      BY <1>1, <2>1, PageOf DEF ReaderInv, AtPage
    <3>2. Listed(reader[r], p, notion[p], run[r].snapshot.version)
      BY <1>1, <2>1, <3>1 DEF ReaderInv, Finding, AtPage
    <3>3. PICK places \in SUBSET (1..Len(Layout[p])) :
            /\ Gathered(places, p, notion[p], run[r].snapshot.version, 0)
            /\ reader[r].found = Kept(Layout[p], places)
      BY <2>1, <3>2 DEF Listed
    <3>4. ToSet(reader[r].found) \cap Blocks \in
            Between(notion[p], run[r].snapshot.version, Len(notion[p]))
      BY <3>3, ListingEnds
    <3> QED BY <3>1, <3>4 DEF Version
  <2>2. \A p \in Pages : pageRow[p] # None => listed[p] = Listing(p, pageRow[p].blocks)
    BY <1>1 DEF ReaderInv
  <2> QED BY <2>1, <2>2, AllAreChunked DEF TextKept
<1> QED BY <1>1, ReaderInvariance, PTL
==============================================================================
