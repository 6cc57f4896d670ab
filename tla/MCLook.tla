-------------------------------- MODULE MCLook --------------------------------
(* A small instance of Look: screens of four nodes in every shape, with     *)
(* other frames in each shape, on a small picture.                          *)
EXTENDS Look

Shapes == {p \in [1 .. 4 -> 0 .. 3] : p[1] = 0 /\ \A i \in 2 .. 4 : p[i] \in 1 .. i - 1}

(* Two sets of nodes: with and without the root that is left out.           *)
Tags == <<<<"AppiumAUT", "XCUIElementTypeButton", "XCUIElementTypeImage",
            "XCUIElementTypeSecureTextField">>,
          <<"XCUIElementTypeApplication", "XCUIElementTypeImage", "XCUIElementTypeButton",
           "XCUIElementTypeButton">>>>

(* Inside, at and across every edge, with room above for the number or not, *)
(* as narrow as the border and narrower, empty, and with three digits.      *)
FramesOf ==
  <<<<<<2, 14, 6, 5>>, <<-3, 5, 8, 6>>, <<20, 17, 9, 7>>>>,
    <<<<0, 0, 4, 4>>, <<5, 13, 1, 6>>, <<7, 12, 7, 1>>>>,
    <<<<3, 2, 0, 5>>, <<23, 19, 2, 2>>, <<-1, -1, 26, 22>>>>,
    <<<<4, 0, 3, 3>>, <<120, 15, 40, 5>>, <<10, -2, 5, 130>>>>,
    <<<<6, 13, 2, 3>>, <<6, 13, 3, 2>>, <<22, 4, 4, 4>>>>,
    <<<<0, 16, 24, 4>>, <<9, 18, 5, 5>>, <<-8, 0, 6, 9>>>>>>

MCSources ==
  {[parent |-> p, tag |-> Tags[p[3]],
    texts |-> <<<<"", "", "">>, <<"OK", "Send", "">>, <<"", "", "">>, <<"", "Name", "x">>>>,
    frame |-> <<<<0, 0, 24, 20>>>> \o FramesOf[3 * p[3] + p[4] - 3]]
   : p \in Shapes}

(* The error page of a proxy, with a button.                                *)
MCPages ==
  {[parent |-> <<0, 1>>, tag |-> <<"html", "button">>,
    texts |-> <<<<"", "", "">>, <<"OK", "", "">>>>,
    frame |-> <<<<0, 0, 0, 0>>, <<0, 0, 0, 0>>>>]}

MCSize == <<24, 20>>

MCSettings == {"log_buffer_size", "interactive_types"}
MCSections == {"annotate"}
MCSectionOf == [s \in MCSettings |-> IF s = "log_buffer_size" THEN "top" ELSE "annotate"]
MCLists == {"interactive_types"}
MCValuesOf == [s \in MCSettings |-> IF s = "interactive_types"
                                      THEN {"button", "textfield", "image"} ELSE {1000, 5}]
MCDefault == [s \in MCSettings |-> IF s = "interactive_types"
                                     THEN <<"button", "textfield">> ELSE 1000]

MCTexts == {"ok", "imag"}
MCOccurs == {<<"ok", "OK">>, <<"imag", "image">>}
MCLowered == [t \in {"AppiumAUT", "XCUIElementTypeApplication", "XCUIElementTypeImage",
                     "html", "button"} |->
                CASE t = "AppiumAUT" -> "appiumaut"
                  [] t = "XCUIElementTypeImage" -> "image"
                  [] t = "XCUIElementTypeApplication" -> "application"
                  [] OTHER -> t]
=============================================================================
