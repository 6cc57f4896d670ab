--------------------------------- MODULE Look ---------------------------------
(* One observation of the screen: look, check.screen and check.element, from*)
(* the capture to the saved file, the list of elements or the verdict       *)
(* (src/internal/core/screen_capture.go and check.go).  The screen may      *)
(* change at any moment, every driver may fail, and WDA answers in any of   *)
(* the ways of WdaClient.  Which device is asked, and how requests overlap, *)
(* is the matter of DaemonState.                                            *)
EXTENDS WdaClient, ElementTree, Config

CONSTANTS Sources,    \* the screens
          Pages,      \* sources that describe no screen: error pages of a proxy
          Texts,      \* what check.element may look for
          Occurs,     \* <<text, string>>: the text occurs in the string, whatever the case
          Size,       \* width and height of the picture, in pixels
          MaxChanges, \* bound: changes of the screen
          None        \* no source

ASSUME SourcesAssumption ==
  None \notin Sources \cup Pages /\ \A src \in Sources \cup Pages : IsSource(src)
ASSUME SizeAssumption == Size \in Nat \X Nat
ASSUME TypesAssumption == "interactive_types" \in Lists
ASSUME ChangesAssumption == MaxChanges \in Nat

VARIABLES
  screen,   \* the source of what is on the phone
  changes,  \* changes of the screen
  mode,     \* dm.Mode()
  types,    \* annotate.interactive_types of the configuration
  request,  \* what was asked for
  pc,       \* where the handler is
  picture,  \* the bytes of the screenshot: "png", "raw" for others, "none"
  fetched,  \* the tree that the elements are from, or None
  drawn,    \* the elements with a box in the annotated picture
  file,     \* the saved file: "plain", "annotated" or "none"
  elements, \* the elements in the result
  verdict   \* pass of check.element: "pass", "fail", or "none"

vars == <<screen, changes, mode, types, request, pc, picture, fetched, drawn, file, elements, verdict>>
given == <<mode, types, request>>
phone == <<screen, changes, given>>

Requests == [kind : {"look"}, annotate : BOOLEAN, ui : BOOLEAN]
            \cup [kind : {"screen"}] \cup [kind : {"element"}, text : Texts]
AnyAnswer == Answers \cup {NoAnswer}

(* annotate.interactive_types as a set, under some configuration file.      *)
TypeLists == {ToSet(LoadFrom(f)["interactive_types"]) : f \in Files}

(* The tree in an answer to a request for the source, if it parses.         *)
Trees(a) ==
  IF SourceIsScreen(a) THEN {screen} ELSE IF SourceParsed(a) THEN Pages ELSE {}

Wants(flag) == request.kind = "look" /\ request[flag]
Interactive(src) ==
  IF src = None THEN <<>> ELSE Numbered(FilterInteractive(ParseSource(src), types))
Found == Interactive(fetched)

LookTypeOK ==
  /\ screen \in Sources /\ changes \in 0 .. MaxChanges
  /\ mode \in {"full", "degraded", "unset"}
  /\ types \subseteq ValuesOf["interactive_types"] \cup {""}
  /\ request \in Requests
  /\ pc \in {"start", "shoot", "saveShot", "decode", "fetch", "annotate", "savePlain",
             "tree", "done", "error"}
  /\ picture \in {"none", "png", "raw"}
  /\ fetched \in Sources \cup Pages \cup {None}
  /\ file \in {"none", "plain", "annotated"}
  /\ elements \in {<<>>, Found} /\ drawn \in {<<>>, Found}
  /\ verdict \in {"none", "pass", "fail"}

Init ==
  /\ screen \in Sources /\ changes = 0
  /\ mode \in {"full", "degraded", "unset"}
  /\ types \in TypeLists
  /\ request \in Requests
  /\ pc = "start"
  /\ picture = "none" /\ fetched = None /\ drawn = <<>>
  /\ file = "none" /\ elements = <<>> /\ verdict = "none"
-----------------------------------------------------------------------------
Change ==
  /\ pc \notin {"done", "error"} /\ changes < MaxChanges
  /\ changes' = changes + 1
  /\ \E src \in Sources \ {screen} : screen' = src
  /\ UNCHANGED <<given, pc, picture, fetched, drawn, file, elements, verdict>>

(* check.element begins with the tree, the others with the directory for    *)
(* screenshots.                                                             *)
Start ==
  /\ pc = "start"
  /\ \/ pc' = IF request.kind = "element" THEN "tree" ELSE "shoot"
     \/ /\ request.kind # "element"
        /\ pc' = IF request.kind = "screen" THEN "done" ELSE "error"
  /\ UNCHANGED <<phone, picture, fetched, drawn, file, elements, verdict>>

(* captureRaw: instruments, whose data may be base64 or no picture at all,  *)
(* and WDA after it in full mode.  A Checker makes do without a screenshot. *)
Shoot ==
  /\ pc = "shoot"
  /\ \/ picture' \in {"png", "raw"}
     \/ /\ mode = "full"
        /\ \E a \in AnyAnswer :
             picture' = IF ~ShotTaken(a) THEN "none" ELSE IF ShotIsPicture(a) THEN "png" ELSE "raw"
     \/ mode # "full" /\ picture' = "none"
  /\ pc' = IF request.kind = "look" THEN (IF picture' = "none" THEN "error" ELSE "decode")
           ELSE IF picture' = "none" THEN "done" ELSE "saveShot"
  /\ UNCHANGED <<phone, fetched, drawn, file, elements, verdict>>

(* The end of TakeScreenshot.                                               *)
SaveShot ==
  /\ pc = "saveShot"
  /\ file' \in {"plain", "none"}
  /\ pc' = "done"
  /\ UNCHANGED <<phone, picture, fetched, drawn, elements, verdict>>

(* png.Decode, and the test for the elements.                               *)
Decode ==
  /\ pc = "decode"
  /\ pc' = IF picture # "png" THEN "error"
           ELSE IF mode = "full" /\ (Wants("annotate") \/ Wants("ui")) THEN "fetch"
           ELSE "savePlain"
  /\ UNCHANGED <<phone, picture, fetched, drawn, file, elements, verdict>>

(* GetInteractiveElements; an error means no elements.                      *)
Fetch ==
  /\ pc = "fetch"
  /\ \E a \in AnyAnswer :
       IF SourceParsed(a) THEN \E src \in Trees(a) : fetched' = src ELSE fetched' = None
  /\ pc' = IF Wants("annotate") /\ Interactive(fetched') # <<>> THEN "annotate" ELSE "savePlain"
  /\ UNCHANGED <<phone, picture, drawn, file, elements, verdict>>

\* Mutant: all elements get a box, the listed ones are filtered afterwards.
AnnotateAll ==
  /\ pc = "annotate"
  /\ file' = "annotated" /\ pc' = "done"
  /\ drawn' = Numbered(ParseSource(fetched)) /\ elements' = Found
  /\ UNCHANGED <<phone, picture, fetched, verdict>>

(* drawAnnotations and the annotated file; when either fails, the plain     *)
(* picture will do.                                                         *)
Annotate ==
  /\ pc = "annotate"
  /\ \/ /\ file' = "annotated" /\ pc' = "done"
        /\ drawn' = Found /\ elements' = Found
     \/ pc' = "savePlain" /\ UNCHANGED <<file, drawn, elements>>
  /\ UNCHANGED <<phone, picture, fetched, verdict>>

\* Mutant: what was fetched for the annotation is listed unasked.
SavePlainWithElements ==
  /\ pc = "savePlain"
  /\ file' = "plain" /\ pc' = "done" /\ elements' = Found
  /\ UNCHANGED <<phone, picture, fetched, drawn, verdict>>

SavePlain ==
  /\ pc = "savePlain"
  /\ \/ /\ file' = "plain" /\ pc' = "done"
        /\ elements' = IF Wants("ui") THEN Found ELSE <<>>
     \/ pc' = "error" /\ UNCHANGED <<file, elements>>
  /\ UNCHANGED <<phone, picture, fetched, drawn, verdict>>

(* The text occurs in the label or in the type of an element.               *)
Carried(els) ==
  \E el \in ToSet(els) :
    <<request.text, el.label>> \in Occurs \/ <<request.text, el.type>> \in Occurs
Verdict(src) == IF Carried(ParseSource(src)) THEN "pass" ELSE "fail"

\* Mutant: without a tree the element is not there.
SearchAnyway ==
  /\ pc = "tree"
  /\ \E a \in AnyAnswer :
       \/ \E src \in Trees(a) : fetched' = src /\ verdict' = Verdict(src)
       \/ ~SourceParsed(a) /\ verdict' = "fail" /\ UNCHANGED fetched
  /\ pc' = "shoot"
  /\ UNCHANGED <<phone, picture, drawn, file, elements>>

(* Checker.Element: all elements, interactive or not, by label and type.    *)
Search ==
  /\ pc = "tree"
  /\ \E a \in AnyAnswer :
       \/ \E src \in Trees(a) :
            fetched' = src /\ verdict' = Verdict(src) /\ pc' = "shoot"
       \/ ~SourceParsed(a) /\ pc' = "error" /\ UNCHANGED <<fetched, verdict>>
  /\ UNCHANGED <<phone, picture, drawn, file, elements>>

Next ==
  \/ Change \/ Start \/ Shoot \/ SaveShot \/ Decode \/ Fetch \/ Annotate \/ SavePlain \/ Search

Spec == Init /\ [][Next]_vars
-----------------------------------------------------------------------------
(* Document order, from the ancestors alone.                                *)
Ancestors(src, i) ==
  LET up[j \in Nodes(src)] == {j} \cup IF j = 1 THEN {} ELSE up[src.parent[j]] IN up[i]
Before(src, i, j) ==
  \/ i # j /\ i \in Ancestors(src, j)
  \/ \E a \in Ancestors(src, i), b \in Ancestors(src, j) : src.parent[a] = src.parent[b] /\ a < b

(* The nodes an agent may be shown, whatever order they are in.             *)
Shown(src) ==
  {i \in Nodes(src) : src.tag[i] # "AppiumAUT" /\ (types = {} \/ MapTypeName(src.tag[i]) \in types)}

(* The list that an agent gets for an annotated look names every interactive*)
(* node of one tree exactly once, in document order and numbered without a  *)
(* gap: the number is what joins the list with the picture                  *)
(* (screen_capture.go:89, 135-147).  Nodes are told apart by their frames.  *)
(* The centre that the agent taps lies in the element's own frame, unless   *)
(* that is empty (elements.go:79).                                          *)
ListIsTheTree ==
  Wants("annotate") /\ elements # <<>> =>
    \E order \in SetToAllKPermutations(Shown(fetched)) :
      /\ Len(order) = Cardinality(Shown(fetched))
      /\ \A i, j \in DOMAIN order : i < j => Before(fetched, order[i], order[j])
      /\ [k \in DOMAIN elements |-> <<elements[k].id, elements[k].frame>>]
         = [k \in DOMAIN order |-> <<k, fetched.frame[order[k]]>>]
      /\ \A k \in DOMAIN elements :
           LET f == elements[k].frame IN
           f[3] > 0 /\ f[4] > 0 => elements[k].center \in Rect(f[1], f[2], f[3], f[4])

(* A look that succeeds has saved a picture; data that is no picture ends in*)
(* an error, wherever it came from.  If the picture is annotated, exactly   *)
(* the elements that are numbered in it are listed; nothing is listed that  *)
(* was not asked for, and "in degraded mode (no WDA), both flags are        *)
(* silently ignored and a plain screenshot is returned"                     *)
(* (screen_capture.go:87-92, 109-112).                                      *)
PictureMatchesList ==
  /\ request.kind = "look" /\ file # "none" => picture = "png"
  /\ file = "annotated" => Wants("annotate") /\ drawn # <<>> /\ drawn = elements
  /\ file = "plain" /\ ~Wants("ui") => elements = <<>>
  /\ request.kind = "look" /\ mode # "full" =>
       file # "annotated" /\ elements = <<>> /\ fetched = None

(* The box of every numbered element is the two-pixel border inside its     *)
(* frame, cut off at the edges of the picture; a frame narrower than its    *)
(* border, or of a negative size, has up to two pixels painted beside it.   *)
(* The number of an element whose corner is in the picture begins in the    *)
(* picture (screen_capture.go:250-261, 274).                                *)
Near(corner, length) ==
  (corner - 2 .. corner + length + 1) \cup (corner + length - 2 .. corner + 1)
BoxesAreBorders ==
  \A k \in DOMAIN drawn :
    LET x == drawn[k].frame[1] y == drawn[k].frame[2] w == drawn[k].frame[3] h == drawn[k].frame[4]
        box == DrawRect(Size, drawn[k].frame, 2)
        l == LabelRect(drawn[k])
    IN  /\ IF w >= 2 /\ h >= 2
             THEN box = Image(Size) \cap (Rect(x, y, w, h) \ Rect(x + 2, y + 2, w - 4, h - 4))
             ELSE box \subseteq Near(x, w) \X Near(y, h)
        /\ <<x, y>> \in Image(Size) => <<l[1], l[2]>> \in FillRect(Size, l[1], l[2], l[3], l[4])

(* check.element gives a verdict only about a tree that was fetched and     *)
(* parsed, and then "pass" exactly when some element of it carries the text:*)
(* a dead session, an error body or a lost answer is never "not found"      *)
(* (check.go:100-113, client.go:341-351).                                   *)
VerdictMatchesTree ==
  verdict # "none" =>
    /\ fetched # None
    /\ verdict = "pass" <=>
         \E i \in Nodes(fetched), t \in {request.text} :
           /\ fetched.tag[i] # "AppiumAUT"
           /\ <<t, Label(fetched.texts[i])>> \in Occurs
              \/ <<t, MapTypeName(fetched.tag[i])>> \in Occurs
-----------------------------------------------------------------------------
(* Claims that the code does not keep (LookClaims.cfg).                     *)

(* "TakeScreenshot takes a screenshot, saves it to disk, and returns the    *)
(* file path" (screen_capture.go:65): the file is a picture.                *)
ScreenshotIsAPicture == request.kind # "look" /\ file = "plain" => picture = "png"

(* "ui=true: include the raw element tree in the result"                    *)
(* (screen_capture.go:90): the code lists the interactive elements.         *)
RawTreeForUi == Wants("ui") /\ elements # <<>> => elements = Numbered(ParseSource(fetched))

(* check.element "searches the WDA element tree" (check.go:89): what is     *)
(* found, or not, is on a screen.  An error page that parses as XML is      *)
(* searched as well.                                                        *)
VerdictIsAboutAScreen == verdict # "none" => fetched \in Sources
=============================================================================
