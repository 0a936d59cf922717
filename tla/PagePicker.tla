------------------------------ MODULE PagePicker ------------------------------
(***************************************************************************)
(* How a user of the chat picks the new target of a change request:        *)
(* NotionPageHierarchy and NotionHierarchyPicker (notion_hierarchy), the   *)
(* page orchestrator and the callbacks of the gateway.                     *)
(*                                                                         *)
(* Every view is built anew from the rows of notion_pages.  Each row names *)
(* the parent the page had when it was indexed, so that the rows need not  *)
(* form a tree: pages that were moved between their readings may even      *)
(* name each other.  A button carries what the user saw, and is checked    *)
(* against the rows of the time it is pressed.                             *)
(***************************************************************************)
EXTENDS SupplementReview, Sequences

CONSTANTS
  TitlesOf,  \* the titles people may give each page
  Order      \* the pages, in the order of their ids

ASSUME PagePickerAssumption ==
  /\ Order \in Seq(Pages)
  /\ \A p \in Pages : \E i \in DOMAIN Order : Order[i] = p
  /\ \A p \in Pages : TitlesOf[p] # {} /\ None \notin TitlesOf[p]

VARIABLES
  place,  \* place[p]: [parent, title] of page p when it was last indexed
  view    \* what the chat shows: [at, buttons], None while no picker is open

pickerVars == <<place, view>>

Root == None  \* the view of the pages without a parent

InitialPlaces == [p \in Pages |-> [parent |-> None, title |-> CHOOSE t \in TitlesOf[p] : TRUE]]

PickerInit == Init /\ place = InitialPlaces /\ view = None

Browsing(k) == Op(k) = "browse" /\ call[k].pc = "new"

(* A page is indexed, or indexed again, as Notion shows it, after people   *)
(* have moved or renamed it.  Bound: only while a user may be choosing.    *)
File(p) ==
  /\ \E k \in Calls : Browsing(k)
  /\ \E parent \in (Pages \ {p}) \cup {None}, title \in TitlesOf[p] :
       place' = [place EXCEPT ![p] = [parent |-> parent, title |-> title]]
  /\ index' = [index EXCEPT ![p] = [edited |-> notion[p].edited, sections |-> notion[p].shown]]
  /\ UNCHANGED <<proposalVars, request, reviewVars, view>>

------------------------------------------------------------------------------
(* NotionPageHierarchy.from_pages                                          *)

Listed == {p \in Pages : index[p] # None}

(* The stored parent, if that is a page of the index.                      *)
StoredParents ==
  [p \in Listed |-> IF place[p].parent \in Listed THEN place[p].parent ELSE None]

(* p, its parent, the parent of its parent, ...                            *)
Upwards(parents, p) ==
  LET up[i \in 0..Cardinality(Pages)] ==
        IF i = 0 THEN p ELSE IF up[i - 1] = None THEN None ELSE parents[up[i - 1]]
  IN  up

(* One walk of _find_cycle_members: up from start until there is no parent *)
(* left, an earlier walk has been there, or this one has.                  *)
Walk_AllOfIt(parents, start, known) ==  \* mutant: the way to the cycle counts as well
  LET up == Upwards(parents, start)
      Ends(i) == up[i] \in known.visited \cup {None} \/ \E j \in 0..(i - 1) : up[j] = up[i]
      length == CHOOSE i \in DOMAIN up : Ends(i) /\ \A j \in 0..(i - 1) : ~Ends(j)
      path == {up[j] : j \in 0..(length - 1)}
  IN  [visited |-> known.visited \cup path,
       members |-> known.members \cup (IF up[length] \in path THEN path ELSE {})]

Walk(parents, start, known) ==
  LET up == Upwards(parents, start)
      Ends(i) == up[i] \in known.visited \cup {None} \/ \E j \in 0..(i - 1) : up[j] = up[i]
      length == CHOOSE i \in DOMAIN up : Ends(i) /\ \A j \in 0..(i - 1) : ~Ends(j)
      From(i) == {up[j] : j \in i..(length - 1)}
  IN  [visited |-> known.visited \cup From(0),
       members |-> known.members
                     \cup UNION {From(i) : i \in {j \in 0..(length - 1) : up[j] = up[length]}}]

(* A walk from each row, in the order of their ids.                        *)
Walks(parents) ==
  LET known[i \in 0..Len(Order)] ==
        IF i = 0 THEN [visited |-> {}, members |-> {}]
        ELSE IF Order[i] \in DOMAIN parents THEN Walk(parents, Order[i], known[i - 1])
        ELSE known[i - 1]
  IN  known

CycleMembers(parents) == Walks(parents)[Len(Order)].members

(* effective_parent_by_id: the pages of a cycle are shown at the root.     *)
Hierarchy ==
  LET parents == StoredParents
      cycles == CycleMembers(parents)
  IN  [p \in Listed |-> IF p \in cycles THEN None ELSE parents[p]]

ChildrenOf(tree, at) == {p \in DOMAIN tree : tree[p] = at}

(* get_node: the nodes are built downwards from the roots.                 *)
Nodes(tree) == {p \in DOMAIN tree : \E i \in 0..Cardinality(Pages) : Upwards(tree, p)[i] = None}

------------------------------------------------------------------------------
(* NotionHierarchyPicker.render                                            *)

Button(action, p) ==
  [action |-> action, page |-> p, title |-> IF action = "select" THEN place[p].title ELSE None]

Buttons(tree, at) ==
  {Button(IF ChildrenOf(tree, p) # {} THEN "open" ELSE "select", p) : p \in ChildrenOf(tree, at)}
    \cup (IF at = Root THEN {}
          ELSE {Button("select", at), Button("back", at), Button("root", None)})

Render(tree, at) == [at |-> at, buttons |-> Buttons(tree, at)]

------------------------------------------------------------------------------
(* _validate_callback_action and the handlers of the picker's callbacks    *)

Usable(tree, b) ==
  CASE b.action = "open"   -> b.page \in Nodes(tree) /\ ChildrenOf(tree, b.page) # {}
    [] b.action = "back"   -> b.page \in Nodes(tree)
    [] b.action = "root"   -> TRUE
    [] b.action = "select" -> b.page \in Nodes(tree) /\ place[b.page].title = b.title

(* Change target: the view of the roots, if there is a page at all.        *)
OpenPicker(k) ==
  /\ Browsing(k) /\ view = None
  /\ Listed # {}
  /\ view' = Render(Hierarchy, Root)
  /\ UNCHANGED <<proposalVars, request, index, reviewVars, place>>

Leads(tree, b) ==
  CASE b.action = "open" -> b.page
    [] b.action = "back" -> tree[b.page]
    [] b.action = "root" -> Root

Navigate(k, b) ==
  /\ Browsing(k) /\ view # None /\ b \in view.buttons
  /\ b.action # "select" /\ Usable(Hierarchy, b)
  /\ view' = Render(Hierarchy, Leads(Hierarchy, b))
  /\ UNCHANGED <<proposalVars, request, index, reviewVars, place>>

SelectTarget(k, b) ==
  /\ Browsing(k) /\ view # None /\ b \in view.buttons
  /\ b.action = "select" /\ Usable(Hierarchy, b)
  /\ Retarget(k, b.page)
  /\ view' = None
  /\ UNCHANGED <<proposalVars, index, work, notion, clock, place>>

PickerNext ==
  \/ \E p \in Pages : File(p)
  \/ \E k \in Calls :
       \/ OpenPicker(k)
       \/ view # None /\ \E b \in view.buttons : Navigate(k, b) \/ SelectTarget(k, b)

NextWithPicker == PickerNext \/ (Next /\ UNCHANGED pickerVars)

SpecWithPicker == PickerInit /\ [][NextWithPicker]_<<vars, pickerVars>>

------------------------------------------------------------------------------
(* Properties.                                                             *)

(* The pages of a cycle of the stored parents: back to themselves.         *)
OnCycle(p) == \E i \in 1..Cardinality(Pages) : Upwards(StoredParents, p)[i] = p

(* The views a user gets to from the roots, opening page after page.       *)
Opened(tree) ==
  LET opened[i \in 0..Cardinality(Pages)] ==
        IF i = 0 THEN {Root}
        ELSE UNION {{p \in ChildrenOf(tree, at) : Button("open", p) \in Buttons(tree, at)} :
                      at \in opened[i - 1]}
  IN  UNION {opened[i] : i \in DOMAIN opened}

(* Whatever parents the rows name, a user who follows the buttons finds    *)
(* every indexed page and can select it; a page is below the parent it was *)
(* indexed with unless that would close a cycle; and no button of a view   *)
(* is refused while the rows are as they were.                             *)
PickerWhole ==
  LET tree == Hierarchy
      opened == Opened(tree)
  IN  /\ \A p \in Listed :
           /\ \E at \in opened : Button("select", p) \in Buttons(tree, at)
           /\ tree[p] = IF OnCycle(p) THEN None ELSE StoredParents[p]
      /\ \A at \in opened : \A b \in Buttons(tree, at) :
           /\ Usable(tree, b)
           /\ b.action # "select" => Leads(tree, b) \in opened
==============================================================================
