------------------------- MODULE LinkPreview_proofs -------------------------
(***************************************************************************)
(* The walk over a page, proved for pages of any length: what is kept of   *)
(* each field is its first text so far, so it does not matter at which node*)
(* the page, or the walk, ends.                                            *)
(***************************************************************************)
EXTENDS LinkPreview, TLAPS

Nodes == [field : {Field(shape) : shape \in Shapes}, content : Nat]

WalkInv ==
    /\ page \in Seq(Nodes)
    /\ found \in [Fields -> Nat]
    /\ \A field \in Fields : IsFirstText(field, found[field])

(* A text is not lost when it becomes an address. *)
LEMMA TextIsKept ==
    ASSUME NEW field, NEW content \in Nat
    PROVE  Text(field, content) \in Nat /\ (Text(field, content) = Empty <=> content = Empty)
BY MaxNodesAssumption DEF Text, resolveRelativeURL, Address, Empty

(* A field has something kept just when it has a text. *)
LEMMA KeptIfAny ==
    ASSUME WalkInv, NEW field \in Fields
    PROVE  found[field] = Empty <=> Texts(field) = {}
<1>1. \A i \in Texts(field) : page[i].content \in Nat /\ page[i].content # Empty
  <2>1. page \in Seq(Nodes)
    BY DEF WalkInv
  <2>2. \A i \in DOMAIN page : page[i] \in Nodes
    BY <2>1
  <2>3. QED BY <2>2 DEF Nodes, Texts
<1>2. IsFirstText(field, found[field])
  BY DEF WalkInv
<1>3. CASE Texts(field) = {}
  BY <1>2, <1>3 DEF IsFirstText
<1>4. CASE Texts(field) # {}
  <2>1. PICK i \in Texts(field) : found[field] = Text(field, page[i].content)
    BY <1>2, <1>4 DEF IsFirstText
  <2>2. QED BY <1>1, <1>4, <2>1, TextIsKept
<1>5. QED BY <1>3, <1>4

LEMMA WalkInvInit == PreviewInit => WalkInv
BY DEF PreviewInit, WalkInv, IsFirstText, Texts, Empty

(* The texts of a field after one more node *)
LEMMA TextsOfLonger ==
    ASSUME WalkInv, NEW shape \in Shapes, NEW content \in Nat, walk(shape, content),
           NEW field \in Fields
    PROVE  /\ \A i \in Texts(field) : i \in Nat /\ i <= Len(page) /\ page'[i] = page[i]
           /\ Texts(field)' = Texts(field) \cup
                 (IF Field(shape) = field /\ content # Empty THEN {Len(page) + 1} ELSE {})
           /\ page'[Len(page) + 1] = [field |-> Field(shape), content |-> content]
<1> DEFINE node == [field |-> Field(shape), content |-> content]
<1>1. page \in Seq(Nodes) /\ node \in Nodes /\ page' = Append(page, node)
  BY DEF WalkInv, Nodes, walk
<1>2. DOMAIN page = 1..Len(page) /\ DOMAIN page' = 1..(Len(page) + 1) /\ Len(page) \in Nat
  BY <1>1
<1>3. \A i \in 1..Len(page) : page'[i] = page[i]
  BY <1>1
<1>4. page'[Len(page) + 1] = node
  BY <1>1
<1>5. \A i \in DOMAIN page' : i \in DOMAIN page \/ i = Len(page) + 1
  BY <1>2
<1>6. \A i \in Texts(field) : i \in Nat /\ i <= Len(page) /\ page'[i] = page[i]
  BY <1>2, <1>3 DEF Texts
<1>7. Texts(field)' = Texts(field) \cup
         (IF Field(shape) = field /\ content # Empty THEN {Len(page) + 1} ELSE {})
  <2>1. \A i \in DOMAIN page :
           i \in Texts(field)' <=> i \in Texts(field)
    BY <1>2, <1>3 DEF Texts
  <2>2. Len(page) + 1 \in Texts(field)' <=> Field(shape) = field /\ content # Empty
    BY <1>2, <1>4 DEF Texts
  <2>3. Texts(field)' \subseteq DOMAIN page' /\ Texts(field) \subseteq DOMAIN page
    BY DEF Texts
  <2>4. Len(page) + 1 \notin DOMAIN page
    BY <1>2
  <2>5. QED BY <1>2, <1>5, <2>1, <2>2, <2>3, <2>4
<1>8. QED BY <1>4, <1>6, <1>7

(* One more node keeps what is kept of a field, or is the first text of it.  *)
LEMMA WalkInvStep ==
    ASSUME WalkInv, [PreviewNext]_previewVars
    PROVE  WalkInv'
<1>1. CASE UNCHANGED previewVars
  BY <1>1 DEF previewVars, WalkInv, IsFirstText, Texts
<1>2. ASSUME NEW shape \in Shapes, NEW content \in Nat, walk(shape, content)
      PROVE  WalkInv'
  <2>1. page' \in Seq(Nodes) /\ found' \in [Fields -> Nat]
    BY <1>2, TextIsKept DEF WalkInv, Nodes, walk
  <2>2. ASSUME NEW field \in Fields
        PROVE  IsFirstText(field, found[field])'
    <3> DEFINE taken == Field(shape) = field /\ content # Empty
    <3>1. /\ \A i \in Texts(field) : i \in Nat /\ i <= Len(page) /\ page'[i] = page[i]
          /\ Texts(field)' = Texts(field) \cup (IF taken THEN {Len(page) + 1} ELSE {})
          /\ page'[Len(page) + 1] = [field |-> Field(shape), content |-> content]
      BY <1>2, TextsOfLonger
    <3>2. found[field] = Empty <=> Texts(field) = {}
      BY KeptIfAny
    <3>3. IsFirstText(field, found[field]) /\ Len(page) \in Nat /\ found \in [Fields -> Nat]
      BY DEF WalkInv
    <3>4. CASE Texts(field) = {} /\ taken
      <4>1. found'[field] = Text(field, content)
        BY <1>2, <3>2, <3>3, <3>4 DEF walk, WalkEnds
      <4>2. QED BY <3>1, <3>3, <3>4, <4>1 DEF IsFirstText
    <3>5. CASE Texts(field) = {} /\ ~taken
      <4>1. found'[field] = Empty
        <5>1. Field(shape) = field => Text(field, content) = Empty
          BY <3>5, TextIsKept
        <5>2. QED BY <1>2, <3>2, <3>3, <3>5, <5>1 DEF walk
      <4>2. QED BY <3>1, <3>5, <4>1 DEF IsFirstText
    <3>6. CASE Texts(field) # {}
      <4>1. found'[field] = found[field]
        BY <1>2, <3>2, <3>3, <3>6 DEF walk
      <4>2. PICK i \in Texts(field) :
               (\A j \in Texts(field) : i <= j) /\ found[field] = Text(field, page[i].content)
        BY <3>3, <3>6 DEF IsFirstText
      <4>3. i \in Texts(field)' /\ page'[i] = page[i] /\ \A j \in Texts(field)' : i <= j
        BY <3>1, <3>3, <4>2
      <4>4. QED BY <4>1, <4>2, <4>3 DEF IsFirstText
    <3>7. QED BY <3>4, <3>5, <3>6
  <2>3. QED BY <2>1, <2>2 DEF WalkInv
<1>3. \A shape \in Shapes, content \in {Empty, Len(page) + 1} : content \in Nat
  BY DEF WalkInv, Empty
<1>4. QED BY <1>1, <1>2, <1>3 DEF PreviewNext

(* linkpreview.go: the card shows the first text of each field, whatever     *)
(* elements are empty or repeated and wherever the walk returns early, and   *)
(* shows itself just when there is a title or a picture.                     *)
THEOREM PreviewCorrect == PreviewSpec => []PreviewIsFirst
<1>1. ASSUME WalkInv PROVE PreviewIsFirst
  <2>1. \A field \in Fields :
           /\ IsFirstText(field, found[field])
           /\ found[field] = Empty <=> Texts(field) = {}
    BY <1>1, KeptIfAny DEF WalkInv
  <2>2. {"og:title", "og:description", "og:image", "<title>"} = Fields
    BY DEF Fields
  <2>3. QED BY <2>1, <2>2 DEF PreviewIsFirst, preview, loaded
<1>2. QED BY <1>1, WalkInvInit, WalkInvStep, PTL DEF PreviewSpec

=============================================================================
