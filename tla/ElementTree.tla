----------------------------- MODULE ElementTree -----------------------------
(* The element tree of a screen: parsing of the page source and the filter  *)
(* of interactive types (src/internal/driver/wda/elements.go), and the      *)
(* numbers and boxes that look gives to the elements                        *)
(* (src/internal/core/screen_capture.go).  Pure functions of a source.      *)
(*                                                                          *)
(* A source is a tree of nodes 1 .. Len(parent): node 1 is the root, the    *)
(* children of a node are written in the order of their numbers.  The       *)
(* recursive definitions are functions over an interval, and selections are *)
(* made with Picked, so that both can be reasoned about.                    *)
EXTENDS Integers, Sequences, FiniteSets, SequencesExt

Nodes(src) == 1 .. Len(src.parent)

(* What a coordinate may be: far from where Go's integers overflow.         *)
Coordinate == -100000 .. 100000

IsSource(src) ==
  /\ src.parent \in Seq(Nat) /\ Len(src.parent) >= 1
  /\ src.parent[1] = 0
  /\ \A i \in 2 .. Len(src.parent) : src.parent[i] \in 1 .. i - 1
  /\ DOMAIN src.tag = Nodes(src) /\ DOMAIN src.texts = Nodes(src)
  /\ src.frame \in [Nodes(src) -> [1 .. 4 -> Coordinate]]

(* The numbers 1 .. n that are in S, in ascending order.                    *)
Picked(S, n) ==
  LET upTo[k \in 0 .. n] ==
        IF k = 0 THEN <<>> ELSE IF k \in S THEN Append(upTo[k - 1], k) ELSE upTo[k - 1]
  IN  upTo[n]

Children(src, i) == Picked({c \in Nodes(src) : src.parent[c] = i}, Len(src.parent))
-----------------------------------------------------------------------------
(* ParseSource.                                                             *)

(* atoi: an optional sign and the digits that follow, whatever comes after *)
(* them.  A text is a sequence of characters: digits, the minus, others.    *)
Minus == 10
Atoi(text) ==
  LET negative == text # <<>> /\ text[1] = Minus
      body == IF negative THEN Tail(text) ELSE text
      digits == Cardinality({i \in DOMAIN body : \A j \in 1 .. i : body[j] < Minus})
      number[k \in 0 .. digits] == IF k = 0 THEN 0 ELSE 10 * number[k - 1] + body[k]
  IN  IF negative THEN -number[digits] ELSE number[digits]

(* The first of the attributes name, label and value that is not empty.     *)
Label(texts) ==
  LET given == SelectSeq(texts, LAMBDA t : t # "") IN IF given = <<>> THEN "" ELSE given[1]

(* mapTypeName: the known names, and others without their prefix and in     *)
(* lower case, which Lowered says of the names that occur.                  *)
CONSTANT Lowered
MapTypeName(tag) ==
  CASE tag = "XCUIElementTypeButton" -> "button"
    [] tag \in {"XCUIElementTypeTextField", "XCUIElementTypeSecureTextField"} -> "textfield"
    [] tag = "XCUIElementTypeSwitch" -> "switch"
    [] tag = "XCUIElementTypeLink" -> "link"
    [] tag = "XCUIElementTypeCell" -> "cell"
    [] tag = "XCUIElementTypeStaticText" -> "text"
    [] OTHER -> Lowered[tag]

(* Go divides towards zero. *)
Half(n) == IF n >= 0 THEN n \div 2 ELSE -((-n) \div 2)

Center(f) == <<f[1] + Half(f[3]), f[2] + Half(f[4])>>

\* WDA writes an attribute in decimal.
Written(n) ==
  LET a == IF n < 0 THEN -n ELSE n
      decimal[k \in 0 .. a] == IF k < 10 THEN <<k>> ELSE Append(decimal[k \div 10], k % 10)
  IN  (IF n < 0 THEN <<Minus>> ELSE <<>>) \o decimal[a]

NodeToElement(src, i) ==
  [type |-> MapTypeName(src.tag[i]), label |-> Label(src.texts[i]),
   frame |-> [k \in 1 .. 4 |-> Atoi(Written(src.frame[i][k]))]]

\* Mutant: the children are collected before their parent.
CollectChildrenFirst(src) ==
  LET walk[i \in Nodes(src)] ==
        LET below == Children(src, i)
        IN  FlattenSeq([k \in DOMAIN below |-> walk[below[k]]])
            \o IF src.tag[i] = "AppiumAUT" THEN <<>> ELSE <<i>>
  IN  walk[1]

(* collectElements: depth first, only AppiumAUT is left out.                *)
Collect(src) ==
  LET walk[i \in Nodes(src)] ==
        LET below == Children(src, i)
        IN  (IF src.tag[i] = "AppiumAUT" THEN <<>> ELSE <<i>>)
            \o FlattenSeq([k \in DOMAIN below |-> walk[below[k]]])
  IN  walk[1]

ParseSource(src) ==
  LET nodes == Collect(src) IN [k \in DOMAIN nodes |-> NodeToElement(src, nodes[k])]

(* FilterInteractive: no types at all let every element pass.               *)
FilterInteractive(els, types) ==
  IF types = {} THEN els
  ELSE LET kept == Picked({k \in DOMAIN els : els[k].type \in types}, Len(els))
       IN  [j \in DOMAIN kept |-> els[kept[j]]]

(* The loop of Look over the interactive elements.                          *)
Numbered(els) ==
  [k \in DOMAIN els |-> [id |-> k, type |-> els[k].type, label |-> els[k].label,
                         frame |-> els[k].frame, center |-> Center(els[k].frame)]]
-----------------------------------------------------------------------------
(* drawAnnotations.  An image is width by height pixels; what is drawn is   *)
(* the set of pixels that are set.                                          *)

Image(size) == (0 .. size[1] - 1) \X (0 .. size[2] - 1)

(* The pixels of a rectangle x, y, w, h, without those that Go's loops and  *)
(* bounds checks never set.                                                 *)
Rect(x, y, w, h) == (x .. x + w - 1) \X (y .. y + h - 1)
FillRect(size, x, y, w, h) == Rect(x, y, w, h) \cap Image(size)

\* Mutant: the right and bottom edges lie one pixel outside the frame.
DrawRectOffByOne(size, f, thickness) ==
  LET x == f[1] y == f[2] w == f[3] h == f[4] IN
  Image(size) \cap UNION {Rect(x, y + t, w, 1) \cup Rect(x, y + h - t, w, 1)
                          \cup Rect(x + t, y, 1, h) \cup Rect(x + w - t, y, 1, h)
                          : t \in 0 .. thickness - 1}

(* drawRect: four edges for each of the thickness rounds.                   *)
DrawRect(size, f, thickness) ==
  LET x == f[1] y == f[2] w == f[3] h == f[4] IN
  Image(size) \cap UNION {Rect(x, y + t, w, 1) \cup Rect(x, y + h - 1 - t, w, 1)
                          \cup Rect(x + t, y, 1, h) \cup Rect(x + w - 1 - t, y, 1, h)
                          : t \in 0 .. thickness - 1}

LabelHeight == 13
LabelWidth(id) == 4 + 7 * (IF id < 10 THEN 1 ELSE IF id < 100 THEN 2 ELSE 3)

(* The background of the number: above the box, or inside when there is no  *)
(* room above; each digit is 7 pixels wide.                                 *)
LabelRect(el) ==
  LET above == el.frame[2] - LabelHeight
  IN  <<el.frame[1], IF above < 0 THEN el.frame[2] ELSE above, LabelWidth(el.id), LabelHeight>>
=============================================================================
