------------------------------ MODULE WdaClient ------------------------------
(* The HTTP client of WebDriverAgent (src/internal/driver/wda/client.go):   *)
(* what each method makes of the answer it gets.  An answer is its status   *)
(* and its body; of a body, only the kind matters:                          *)
(*   "value"   {"value": what the endpoint promises}, or its bare XML       *)
(*   "error"   {"value": {"error": ..., "message": ...}}                    *)
(*   "named"   the same with the "sessionId" of a session that WDA has      *)
(*   "blank"   {"value": ""}, {"value": null} or {}                         *)
(*   "page"    XML or HTML that parses as XML, but is no screen             *)
(*   "other"   neither JSON nor XML                                         *)
(* No answer stands for a refused connection and for the 30 s timeout.      *)
EXTENDS Naturals

CONSTANT NoAnswer

Bodies == {"value", "error", "named", "blank", "page", "other"}
Answers == [ok : BOOLEAN, body : Bodies]  \* ok: the status is 2xx

ASSUME NoAnswerAssumption == NoAnswer \notin Answers

(* What a live WDA answers: the value, or an error with an error status.    *)
Success == [ok |-> TRUE, body |-> "value"]
Failure == [ok |-> FALSE, body |-> "error"]
FailureInSession == [ok |-> FALSE, body |-> "named"]

\* Mutant: an answer is enough.
CheckAnswered(a) == a # NoAnswer

(* checkResponse, behind Tap, Swipe, InputText, PressButton, LaunchApp and  *)
(* KillApp: the status decides.                                             *)
CheckResponse(a) == a # NoAnswer /\ a.ok

(* Status: {"value": {"ready": true}}, whatever the status.                 *)
Ready(a) == a # NoAnswer /\ a.body = "value"

(* CreateSession: a session id at the top level or inside value, whatever   *)
(* else the body says.                                                      *)
SessionCreated(a) == a # NoAnswer /\ a.body \in {"value", "named"}

(* DeleteSession: any answer will do.                                       *)
SessionDeleted(a) == a # NoAnswer

(* Screenshot: a base64 string.  An error object is no string, a blank is an*)
(* empty picture.                                                           *)
ShotTaken(a) == a # NoAnswer /\ a.body \in {"value", "blank"}
ShotIsPicture(a) == a # NoAnswer /\ a.body = "value"

(* fetchSource and ParseSource: XML in an envelope, or a body that is XML   *)
(* itself, whatever the status and whatever it describes; a JSON body that  *)
(* is left as it is does not parse.                                         *)
SourceParsed(a) == a # NoAnswer /\ a.body \in {"value", "page"}
SourceIsScreen(a) == a # NoAnswer /\ a.body = "value"

(* FindElement: a value with any entry counts as found, an error body too;  *)
(* the element itself is then taken from the source.                        *)
ElementFound(a, source) ==
  a # NoAnswer /\ a.body \in {"value", "error", "named"} /\ SourceParsed(source)
=============================================================================
