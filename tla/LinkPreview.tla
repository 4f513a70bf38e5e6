---------------------------- MODULE LinkPreview ----------------------------
(***************************************************************************)
(* The card below a message with an address: FetchLinkPreview reads the    *)
(* page, the walk over its nodes collects what the card needs, and the card*)
(* decides whether it shows itself. The page is the sequence of the nodes  *)
(* the walk has come to, in its order; every page may end at any node, and *)
(* one without nodes is what a failed request or another scheme leaves. A  *)
(* text is a number, Empty the text that is "" once it is trimmed.         *)
(***************************************************************************)
EXTENDS Naturals, Sequences

CONSTANT MaxNodes       \* bound on the nodes of a page

ASSUME MaxNodesAssumption == MaxNodes \in Nat

VARIABLES
    page,           \* the nodes the walk has come to
    found           \* found[field]: the text it has kept

previewVars == <<page, found>>

Empty == 0

(* What the walk fills: the three properties, and the <title> element *)
Fields == {"og:title", "og:description", "og:image", "<title>"}

(* Elements by tag and attributes; the texts of a page all differ, so that it*)
(* shows which one was taken.                                                *)
Shapes ==
    {[tag |-> "meta", property |-> "og:title", name |-> ""],
     [tag |-> "meta", property |-> "og:description", name |-> ""],
     [tag |-> "meta", property |-> "", name |-> "og:image"],
     [tag |-> "meta", property |-> "og:title", name |-> "og:image"],
     [tag |-> "title", property |-> "", name |-> ""],
     [tag |-> "p", property |-> "", name |-> "og:title"]}

PreviewInit ==
    /\ page = <<>>
    /\ found = [field \in Fields |-> Empty]

-----------------------------------------------------------------------------

(* The address that text v of a page resolves to *)
Address(v) == MaxNodes + v

resolveRelativeURL(v) == IF v = Empty THEN Empty ELSE Address(v)

(* The field an element is about: for meta its property attribute, or its    *)
(* name attribute where it has no other.                                     *)
Field(shape) ==
    CASE shape.tag = "title" -> "<title>"
      [] shape.tag = "meta" -> IF shape.property # "" THEN shape.property ELSE shape.name
      [] OTHER -> ""

Text(field, content) == IF field = "og:image" THEN resolveRelativeURL(content) ELSE content

WalkEndsAtTitle ==              \* mutant: the title and a picture are enough
    found["og:title"] # Empty /\ found["og:image"] # Empty

(* The walk's early return *)
WalkEnds == \A field \in Fields : found[field] # Empty

(* One node: the first text that is not empty stays *)
walk(shape, content) ==
    /\ Len(page) < MaxNodes
    /\ page' = Append(page, [field |-> Field(shape), content |-> content])
    /\ found' =
          IF WalkEnds \/ Field(shape) \notin Fields
          THEN found
          ELSE [found EXCEPT ![Field(shape)] =
                   IF @ = Empty THEN Text(Field(shape), content) ELSE @]

PreviewNext == \E shape \in Shapes, content \in {Empty, Len(page) + 1} : walk(shape, content)

PreviewSpec == PreviewInit /\ [][PreviewNext]_previewVars

(* What the daemon answers, if the page ends here *)
preview ==
    [Title |-> IF found["og:title"] = Empty THEN found["<title>"] ELSE found["og:title"],
     Description |-> found["og:description"],
     ImageURL |-> found["og:image"]]

(* LinkPreviewCard: a description alone is not worth a card *)
loaded == preview.Title # Empty \/ preview.ImageURL # Empty

-----------------------------------------------------------------------------

(* The texts of a field, and the first of them *)
Texts(field) == {i \in DOMAIN page : page[i].field = field /\ page[i].content # Empty}

IsFirstText(field, v) ==
    \/ Texts(field) = {} /\ v = Empty
    \/ \E i \in Texts(field) :
          /\ \A j \in Texts(field) : i <= j
          /\ v = Text(field, page[i].content)

(* Wherever the walk stops and whatever empty or repeated elements a page    *)
(* has: the card shows the first text of each field, <title> stands in for a *)
(* missing og:title, and there is a card just when the page has a title or a *)
(* picture.                                                                  *)
PreviewIsFirst ==
    /\ IsFirstText(IF Texts("og:title") # {} THEN "og:title" ELSE "<title>", preview.Title)
    /\ IsFirstText("og:description", preview.Description)
    /\ IsFirstText("og:image", preview.ImageURL)
    /\ loaded <=> Texts("og:title") \cup Texts("<title>") \cup Texts("og:image") # {}

=============================================================================
