---------------------------- MODULE MCSupplement ----------------------------
(***************************************************************************)
(* A small instance of OutcomeRecovery for TLC.   The source names the     *)
(* number n1, the product p1, the identifier i1, the words w1 and w2 and   *)
(* the Chinese h1; the model may also write the number n9, the product p9, *)
(* the identifier i9, the word w9, the Chinese h9, the phrase f9 and the   *)
(* verdict v9.                                                             *)
(***************************************************************************)
EXTENDS OutcomeRecovery, TLC

CONSTANTS c1, c2, A, B, D, k1, k2, k3,
          n1, n9, p1, p9, i1, i9, w1, w2, w9, h1, h9, f9, v9

MCAnchors == {n1, n9, p1, p9, i1, i9, w1, w2, w9, h1, h9, f9, v9}

MCKind == [a \in MCAnchors |-> CASE a \in {n1, n9} -> "number"
                                 [] a \in {p1, p9} -> "product"
                                 [] a \in {i1, i9} -> "identifier"
                                 [] a \in {w1, w2, w9} -> "word"
                                 [] a \in {h1, h9} -> "chinese"
                                 [] a = f9 -> "phrase"
                                 [] OTHER -> "verdict"]

MCMarked == {p1, p9, i1, i9}

MCSource == {n1, p1, i1, w1, w2, h1}

(* Grounded, by what is specific or by two of the rest, with and without   *)
(* foreign Chinese; with a foreign number, product, identifier, word or    *)
(* verdict; too little.                                                    *)
MCTitles == {{p1}, {w1, w2}, {i1, h9}, {w1, h1, h9}, {p1, n9}, {p1, p9}, {i1, i9}, {w1, w9},
             {p1, v9}, {w1}}

Says(anchors, evidence) ==
  [anchors |-> anchors, label |-> {}, evidence |-> evidence, bounded |-> FALSE]

InContext(anchors, label) ==
  [anchors |-> anchors, label |-> label, evidence |-> TRUE, bounded |-> TRUE]

(* Grounded; too little; a foreign word, number, phrase and verdict;       *)
(* context with nothing foreign, with a foreign product in its label, and  *)
(* with a foreign word or identifier outside of it.                        *)
MCClaims == {Says({n1, i1}, TRUE), Says({n1}, FALSE), Says({w1, w9}, TRUE), Says({n9}, TRUE),
             Says({p1, f9}, TRUE), Says({p1, v9}, TRUE), InContext({w1}, {p9}),
             InContext({w1, w9}, {p1}), InContext({w1, i9}, {})}

(* The parts of a first draft, each from the claims that tell it apart.    *)
AnyDraft ==
  [title : MCTitles, summary : MCClaims \ {InContext({w1, w9}, {p1}), InContext({w1, i9}, {})},
   concepts : {Says({n1, i1}, TRUE), Says({w1, w9}, TRUE), InContext({w1}, {p9})},
   notes : MCClaims, form : {"fits", "over"}, listed : BOOLEAN]

Good == [title |-> {p1}, summary |-> Says({n1, i1}, TRUE), concepts |-> Says({n1, i1}, TRUE),
         notes |-> Says({n1, i1}, TRUE), form |-> "fits", listed |-> TRUE]

Job(source, target, drafts) == [source |-> source, target |-> target, drafts |-> drafts]

Foreign == [Good EXCEPT !.title = {p1, p9}]

MCDrafts == [any |-> AnyDraft, good |-> {Good}, foreign |-> {Foreign}]

Shot == Job("screenshot", A, "good")

Call(op, c, p) == [op |-> op, request |-> c, page |-> p]

Scenario(j1, j2, pending, indexed, calls) ==
  [job |-> [c \in {c1, c2} |-> IF c = c1 THEN j1 ELSE j2],
   work |-> [k \in Calls |-> CASE k = k1 -> calls[1] [] k = k2 -> calls[2]
                                      [] OTHER -> calls[3]],
   pending |-> pending, indexed |-> indexed]

Accept1 == Call("accept", c1, A)
Retarget1 == Call("change_target", c1, B)
Unknown == Call("accept", c2, A)
NoCall == Call("none", c1, A)
Resend == Call("resend-preview", c1, A)
Confirm == Call("reconcile-success", c1, A)

(* A proposal with any draft.                                              *)
(* A proposal with a draft to repair and its review, beside a call that    *)
(* finds nothing; a review beside a proposal for a page not yet indexed;   *)
(* calls of every kind for one request; two requests  *)
(* for one page that is indexed again meanwhile; a target picked page by   *)
(* page; two operators who repair the update of a request that is being    *)
(* reviewed.                                                               *)
MCScenarios == {
  Scenario(Job("screenshot", A, "any"), None, {}, {A}, <<NoCall, NoCall, NoCall>>),
  Scenario(Job("screenshot", A, "foreign"), None,
           {}, {A}, <<Accept1, Unknown, NoCall>>),
  Scenario(Shot, Job("text", B, "good"), {c1}, {A},
           <<Call("edit_later", c1, A), NoCall, Call("index", c1, B)>>),
  Scenario(Shot, None, {c1}, {A}, <<Accept1, Accept1, Call("reject", c1, A)>>),
  Scenario(Shot, None, {c1}, {A, B}, <<Accept1, Accept1, Retarget1>>),
  Scenario(Shot, None, {c1}, {A}, <<Accept1, Retarget1, Call("index", c1, B)>>),
  Scenario(Shot, None, {c1}, {A}, <<Accept1, Call("edit_later", c1, A), Call("reject", c1, A)>>),
  Scenario(Shot, Shot, {c1, c2}, {A}, <<Accept1, Call("accept", c2, A), Call("index", c1, A)>>),
  Scenario(Shot, None, {c1}, {A}, <<Call("browse", c1, A), NoCall, NoCall>>),
  Scenario(Shot, None, {c1}, {A, B}, <<Resend, Resend, Retarget1>>),
  Scenario(Shot, None, {c1}, {A}, <<Resend, Confirm, Call("reject", c1, A)>>),
  Scenario(Shot, None, {c1}, {A}, <<Resend, Confirm, Accept1>>)}

MCTitlesOf == [p \in {A, B, D} |-> IF p = B THEN {"plan", "report"} ELSE {"notes"}]

MCOrder == <<A, B, D>>
=============================================================================
